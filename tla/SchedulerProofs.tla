--------------------------- MODULE SchedulerProofs ---------------------------
(* What the scheduler keeps, for any input, any quanta and every policy,   *)
(* the heap of SJF with its misplaced comparisons included; and that it    *)
(* implements Processor.                                                   *)
EXTENDS Scheduler, SequenceTheorems, FiniteSetTheorems, TLAPS

LEMMA LeastNatural ==
  ASSUME NEW S \in SUBSET Nat, S # {}
  PROVE  \E n \in S : \A m \in S : n <= m
<1> DEFINE R == {ss \in Nat \X Nat : ss[1] < ss[2]}
<1>1. IsWellFoundedOn(R, Nat)
  BY NatLessThanWellFounded DEF OpToRel
<1> HIDE DEF R
<1>2. PICK n \in S : \A m \in S : ~ (<<m, n>> \in R)
  BY <1>1, WFMin
<1>3. \A m \in S : ~ (m < n)
  BY <1>2 DEF R
<1> QED
  BY <1>3

-----------------------------------------------------------------------------
(* The event queue: a sequence that holds every member of a set once, in   *)
(* the order of their finishing times.                                     *)

Holds(s, E) == /\ s \in Seq(E)
               /\ \A e \in E : \E i \in 1 .. Len(s) : s[i] = e
               /\ \A i, j \in 1 .. Len(s) : s[i] = s[j] => i = j

Ascending(s, FT) == \A i, j \in 1 .. Len(s) : i < j => FT[s[i]] <= FT[s[j]]

LEMMA PlaceFound ==
  ASSUME NEW E, NEW s \in Seq(E), NEW o \in E, NEW FT, \A e \in E : FT[e] \in Int
  PROVE  LET n == Place(s, o, FT)
         IN  /\ n \in 0 .. Len(s)
             /\ \A i \in 1 .. n : FT[s[i]] <= FT[o]
             /\ n < Len(s) => FT[s[n + 1]] > FT[o]
<1> DEFINE Stops == {n \in 0 .. Len(s) : n < Len(s) => FT[s[n + 1]] > FT[o]}
<1>0. Len(s) \in Nat /\ \A j \in 1 .. Len(s) : s[j] \in E
  OBVIOUS
<1>1. PICK n \in Stops : \A m \in Stops : n <= m
  <2>1. Stops \in SUBSET Nat /\ Len(s) \in Stops
    BY <1>0
  <2> HIDE DEF Stops
  <2> QED
    BY <2>1, LeastNatural
<1>2. ASSUME NEW i \in 1 .. n PROVE FT[s[i]] <= FT[o]
  <2>1. i - 1 \in 0 .. Len(s) /\ i - 1 < n /\ (i - 1) + 1 = i
        /\ i - 1 \in Nat /\ n \in Nat
    BY <1>0
  <2>4. i - 1 \notin Stops
    <3> HIDE DEF Stops
    <3> QED
      BY <1>1, <2>1
  <2>2. i \in 1 .. Len(s) /\ s[i] \in E
    BY <1>0, <1>1
  <2>3. ~ (FT[s[i]] > FT[o])
    BY <2>1, <2>4
  <2> QED
    BY <2>2, <2>3
<1>3. \E m \in 0 .. Len(s) : /\ \A i \in 1 .. m : FT[s[i]] <= FT[o]
                             /\ m < Len(s) => FT[s[m + 1]] > FT[o]
  BY <1>1, <1>2
<1> QED
  BY <1>3 DEF Place

\* What InsertAt makes of s, n places on.
LEMMA InsertedAt ==
  ASSUME NEW S, NEW s \in Seq(S), NEW n \in 0 .. Len(s), NEW o \in S
  PROVE  LET r == InsertAt(s, n + 1, o)
         IN  /\ r \in Seq(S) /\ Len(r) = Len(s) + 1
             /\ \A j \in 1 .. Len(s) + 1 :
                  r[j] = IF j <= n THEN s[j] ELSE IF j = n + 1 THEN o ELSE s[j - 1]
<1> DEFINE a == SubSeq(s, 1, n)
           b == SubSeq(s, n + 1, Len(s))
           m == Len(s)
<1>0. m \in Nat /\ n \in Nat /\ n <= m /\ \A j \in 1 .. m : s[j] \in S
  OBVIOUS
<1>1. a \in Seq(S) /\ Len(a) = n /\ \A j \in 1 .. n : a[j] = s[j]
  <2>1. \A j \in 1 .. n : s[j] \in S
    BY <1>0
  <2>2. /\ a \in Seq(S) /\ Len(a) = IF 1 <= n THEN n - 1 + 1 ELSE 0
        /\ \A j \in 1 .. n - 1 + 1 : a[j] = s[1 + j - 1]
    BY <2>1, SubSeqProperties
  <2> HIDE DEF a
  <2> QED
    BY <1>0, <2>2
<1>2. b \in Seq(S) /\ Len(b) = m - n /\ \A j \in 1 .. m - n : b[j] = s[n + j]
  <2>1. \A j \in n + 1 .. m : s[j] \in S
    BY <1>0
  <2>2. n + 1 \in Int /\ m \in Int
    BY <1>0
  <2>3. /\ b \in Seq(S) /\ Len(b) = IF n + 1 <= m THEN m - (n + 1) + 1 ELSE 0
        /\ \A j \in 1 .. m - (n + 1) + 1 : b[j] = s[(n + 1) + j - 1]
    BY <2>1, <2>2, SubSeqProperties
  <2> HIDE DEF b
  <2>4. \A j \in 1 .. m - n : j \in 1 .. m - (n + 1) + 1 /\ (n + 1) + j - 1 = n + j
    BY <1>0
  <2>5. Len(b) = m - n
    BY <1>0, <2>3
  <2> QED
    BY <2>3, <2>4, <2>5
<1> HIDE DEF a, b
<1>3. <<o>> \in Seq(S) /\ Len(<<o>>) = 1 /\ <<o>>[1] = o
  OBVIOUS
<1> DEFINE c == <<o>>
           ac == a \o c
<1> HIDE DEF c
<1>4. /\ ac \in Seq(S) /\ Len(ac) = n + 1
      /\ \A j \in 1 .. n + 1 : ac[j] = IF j <= n THEN s[j] ELSE o
  <2>1. /\ ac \in Seq(S) /\ Len(ac) = Len(a) + Len(c)
        /\ \A j \in 1 .. Len(a) + Len(c) :
             ac[j] = IF j <= Len(a) THEN a[j] ELSE c[j - Len(a)]
    BY <1>1, <1>3, ConcatProperties DEF c
  <2> HIDE DEF ac
  <2>2. ASSUME NEW j \in 1 .. n + 1 PROVE ac[j] = IF j <= n THEN s[j] ELSE o
    <3>1. CASE j <= n
      BY <1>0, <1>1, <1>3, <2>1, <3>1 DEF c
    <3>2. CASE ~ (j <= n)
      <4>1. j - n = 1 /\ c[1] = o
        BY <1>0, <3>2 DEF c
      <4> QED
        BY <1>0, <1>1, <1>3, <2>1, <3>2, <4>1 DEF c
    <3> QED
      BY <3>1, <3>2
  <2> QED
    BY <1>0, <1>1, <1>3, <2>1, <2>2 DEF c
<1> HIDE DEF ac
<1> DEFINE r == ac \o b
<1>5. /\ r \in Seq(S) /\ Len(r) = m + 1
      /\ \A j \in 1 .. m + 1 : r[j] = IF j <= n + 1 THEN ac[j] ELSE b[j - (n + 1)]
  <2>1. /\ r \in Seq(S) /\ Len(r) = Len(ac) + Len(b)
        /\ \A j \in 1 .. Len(ac) + Len(b) :
             r[j] = IF j <= Len(ac) THEN ac[j] ELSE b[j - Len(ac)]
    BY <1>2, <1>4, ConcatProperties
  <2> HIDE DEF r
  <2>2. Len(ac) + Len(b) = m + 1
    BY <1>0, <1>2, <1>4
  <2> QED
    BY <1>4, <2>1, <2>2
<1> HIDE DEF r
<1>6. ASSUME NEW j \in 1 .. m + 1
      PROVE  r[j] = IF j <= n THEN s[j] ELSE IF j = n + 1 THEN o ELSE s[j - 1]
  <2>1. CASE j <= n + 1
    BY <1>0, <1>4, <1>5, <2>1
  <2>2. CASE j > n + 1
    <3>1. /\ j - (n + 1) \in 1 .. m - n /\ n + (j - (n + 1)) = j - 1
          /\ ~ (j <= n + 1) /\ ~ (j <= n) /\ j # n + 1
      BY <1>0, <2>2
    <3>2. r[j] = b[j - (n + 1)]
      BY <1>5, <3>1
    <3>3. b[j - (n + 1)] = s[j - 1]
      BY <1>2, <3>1
    <3> QED
      BY <3>1, <3>2, <3>3
  <2> QED
    BY <1>0, <2>1, <2>2
<1>7. r = InsertAt(s, n + 1, o)
  <2>1. (n + 1) - 1 = n
    BY <1>0
  <2> QED
    BY <2>1 DEF InsertAt, r, ac, a, b, c
<1> QED
  BY <1>5, <1>6, <1>7

LEMMA JoinsList ==
  ASSUME NEW s, NEW E, Holds(s, E), NEW o, o \notin E, NEW FT,
         \A e \in E \cup {o} : FT[e] \in Int
  PROVE  /\ Holds(Inserted(s, o, FT), E \cup {o})
         /\ Ascending(s, FT) => Ascending(Inserted(s, o, FT), FT)
<1> DEFINE n == Place(s, o, FT)
           r == Inserted(s, o, FT)
           F == E \cup {o}
<1>0. /\ s \in Seq(E) /\ s \in Seq(F) /\ Len(s) \in Nat /\ o \in F
      /\ \A i \in 1 .. Len(s) : s[i] \in E /\ s[i] # o
  <2>1. s \in Seq(E) /\ Len(s) \in Nat /\ \A i \in 1 .. Len(s) : s[i] \in E
    BY DEF Holds
  <2>2. s = [i \in 1 .. Len(s) |-> s[i]]
    BY <2>1, LenProperties
  <2>3. s \in Seq(F)
    BY <2>1, <2>2, IsASeq
  <2> QED
    BY <2>1, <2>3
<1>1. /\ n \in 0 .. Len(s)
      /\ \A i \in 1 .. n : FT[s[i]] <= FT[o]
      /\ n < Len(s) => FT[s[n + 1]] > FT[o]
  BY <1>0, PlaceFound
<1> HIDE DEF n
<1>2. /\ r \in Seq(F) /\ Len(r) = Len(s) + 1
      /\ \A j \in 1 .. Len(s) + 1 :
           r[j] = IF j <= n THEN s[j] ELSE IF j = n + 1 THEN o ELSE s[j - 1]
  <2> DEFINE q == InsertAt(s, n + 1, o)
  <2>1. /\ q \in Seq(F) /\ Len(q) = Len(s) + 1
        /\ \A j \in 1 .. Len(s) + 1 :
             q[j] = IF j <= n THEN s[j] ELSE IF j = n + 1 THEN o ELSE s[j - 1]
    <3> HIDE DEF F
    <3> QED
      BY <1>0, <1>1, InsertedAt
  <2>2. q = r
    BY DEF Inserted, n
  <2> QED
    BY ONLY <2>1, <2>2
<1> HIDE DEF r, F
<1> DEFINE m == Len(s)
<1>3. /\ m \in Nat /\ n \in Nat /\ n <= m /\ n + 1 \in 1 .. m + 1
      /\ \A j \in 1 .. n : j \in 1 .. m /\ r[j] = s[j]
      /\ r[n + 1] = o
      /\ \A j \in n + 2 .. m + 1 : j - 1 \in 1 .. m /\ j - 1 > n /\ r[j] = s[j - 1]
      /\ \A j \in 1 .. m + 1 : j \in 1 .. n \/ j = n + 1 \/ j \in n + 2 .. m + 1
  <2>1. /\ m \in Nat /\ n \in Nat /\ n <= m /\ n + 1 \in 1 .. m + 1 /\ ~ (n + 1 <= n)
        /\ \A j \in 1 .. m + 1 : j \in 1 .. n \/ j = n + 1 \/ j \in n + 2 .. m + 1
        /\ \A j \in 1 .. n : j \in 1 .. m /\ j \in 1 .. m + 1 /\ j <= n
        /\ \A j \in n + 2 .. m + 1 : /\ j \in 1 .. m + 1 /\ j - 1 \in 1 .. m /\ j - 1 > n
                                     /\ ~ (j <= n) /\ j # n + 1
    BY <1>0, <1>1
  <2>2. \A j \in 1 .. m + 1 :
          r[j] = IF j <= n THEN s[j] ELSE IF j = n + 1 THEN o ELSE s[j - 1]
    BY <1>2
  <2> HIDE DEF m
  <2> QED
    BY ONLY <2>1, <2>2
<1> HIDE DEF m
<1>4. \A e \in F : \E i \in 1 .. m + 1 : r[i] = e
  <2> SUFFICES ASSUME NEW e \in E PROVE \E i \in 1 .. m + 1 : r[i] = e
    BY <1>3 DEF F
  <2>1. PICK i \in 1 .. m : s[i] = e
    BY DEF Holds, m
  <2>2. CASE i <= n
    BY <1>3, <2>1, <2>2
  <2>3. CASE i > n
    <3>1. i + 1 \in n + 2 .. m + 1 /\ (i + 1) - 1 = i /\ i + 1 \in 1 .. m + 1
      BY <1>3, <2>3
    <3>2. r[i + 1] = s[(i + 1) - 1]
      BY <1>3, <3>1
    <3> QED
      BY <2>1, <3>1, <3>2
  <2> QED
    BY <1>3, <2>2, <2>3
<1>5. \A i, j \in 1 .. m + 1 : r[i] = r[j] => i = j
  <2>1. \A i, j \in 1 .. m : s[i] = s[j] => i = j
    BY DEF Holds, m
  <2>2. \A i \in 1 .. m : s[i] # o
    BY <1>0 DEF m
  <2> SUFFICES ASSUME NEW i \in 1 .. m + 1, NEW j \in 1 .. m + 1, r[i] = r[j]
               PROVE  i = j
    OBVIOUS
  <2>3. CASE i \in 1 .. n
    BY <1>3, <2>1, <2>2, <2>3
  <2>4. CASE i = n + 1
    BY <1>3, <2>2, <2>4
  <2>5. CASE i \in n + 2 .. m + 1
    BY <1>3, <2>1, <2>2, <2>5
  <2> QED
    BY <1>3, <2>3, <2>4, <2>5
<1>6. Holds(r, F)
  BY <1>2, <1>4, <1>5 DEF Holds, m
<1>7. ASSUME Ascending(s, FT) PROVE Ascending(r, FT)
  <2>1. \A i, j \in 1 .. m : i <= j => FT[s[i]] <= FT[s[j]]
    <3> SUFFICES ASSUME NEW i \in 1 .. m, NEW j \in 1 .. m, i <= j
                 PROVE  FT[s[i]] <= FT[s[j]]
      OBVIOUS
    <3>1. CASE i = j
      <4>1. FT[s[i]] \in Int
        BY <1>0 DEF m
      <4> QED
        BY <3>1, <4>1
    <3> QED
      BY <1>3, <1>7, <3>1 DEF Ascending, m
  <2>2. \A i \in n + 1 .. m : FT[o] <= FT[s[i]]
    <3> SUFFICES ASSUME NEW i \in n + 1 .. m PROVE FT[o] <= FT[s[i]]
      OBVIOUS
    <3>1. n < m /\ n + 1 \in 1 .. m /\ i \in 1 .. m /\ n + 1 <= i
      BY <1>3
    <3>2. FT[o] < FT[s[n + 1]] /\ FT[s[n + 1]] <= FT[s[i]]
      BY <1>1, <2>1, <3>1 DEF m
    <3>3. FT[o] \in Int /\ FT[s[n + 1]] \in Int /\ FT[s[i]] \in Int
      BY <1>0, <3>1 DEF m
    <3> QED
      BY <3>2, <3>3
  <2>3. \A i \in 1 .. n : FT[s[i]] <= FT[o]
    BY <1>1
  <2> SUFFICES ASSUME NEW i \in 1 .. m + 1, NEW j \in 1 .. m + 1, i < j
               PROVE  FT[r[i]] <= FT[r[j]]
    BY <1>2 DEF Ascending, m
  <2>4. CASE i \in 1 .. n /\ j \in 1 .. n
    BY <1>3, <2>1, <2>4
  <2>5. CASE i \in 1 .. n /\ j = n + 1
    BY <1>3, <2>3, <2>5
  <2>6. CASE i \in 1 .. n /\ j \in n + 2 .. m + 1
    <3>1. /\ r[i] = s[i] /\ r[j] = s[j - 1] /\ i \in 1 .. m /\ j - 1 \in 1 .. m
          /\ i <= j - 1
      BY <1>3, <2>6
    <3> QED
      BY <2>1, <3>1
  <2>7. CASE i = n + 1 /\ j \in n + 2 .. m + 1
    <3>1. r[i] = o /\ r[j] = s[j - 1] /\ j - 1 \in n + 1 .. m
      BY <1>3, <2>7
    <3> QED
      BY <2>2, <3>1
  <2>8. CASE i \in n + 2 .. m + 1 /\ j \in n + 2 .. m + 1
    <3>1. /\ r[i] = s[i - 1] /\ r[j] = s[j - 1] /\ i - 1 \in 1 .. m /\ j - 1 \in 1 .. m
          /\ i - 1 <= j - 1
      BY <1>3, <2>8
    <3> QED
      BY <2>1, <3>1
  <2> QED
    BY <1>3, <2>4, <2>5, <2>6, <2>7, <2>8
<1> QED
  BY <1>6, <1>7 DEF r, F

LEMMA LeavesList ==
  ASSUME NEW s, NEW E, Holds(s, E), s # << >>
  PROVE  /\ Head(s) \in E
         /\ Holds(Tail(s), E \ {Head(s)})
         /\ \A FT : Ascending(s, FT) => Ascending(Tail(s), FT)
         /\ \A FT : Ascending(s, FT) => \A e \in E \ {Head(s)} : FT[Head(s)] <= FT[e]
<1> DEFINE t == Tail(s)
           m == Len(s)
           F == E \ {s[1]}
<1>1. /\ s \in Seq(E) /\ m \in Nat \ {0} /\ Head(s) = s[1]
      /\ \A i \in 1 .. m : s[i] \in E
  BY DEF Holds
<1>2. t \in Seq(E) /\ Len(t) = m - 1 /\ \A i \in 1 .. m - 1 : t[i] = s[i + 1]
  BY <1>1, HeadTailProperties
<1> HIDE DEF t, m
<1>3. /\ \A i, j \in 1 .. m : s[i] = s[j] => i = j
      /\ \A e \in E : \E i \in 1 .. m : s[i] = e
  BY DEF Holds, m
<1>4. \A i \in 1 .. m - 1 : i + 1 \in 1 .. m /\ i + 1 # 1 /\ 1 \in 1 .. m
  BY <1>1
<1>5. \A i \in 1 .. m - 1 : t[i] \in F
  <2> SUFFICES ASSUME NEW i \in 1 .. m - 1 PROVE s[i + 1] \in F
    BY <1>2
  <2>1. i + 1 \in 1 .. m /\ i + 1 # 1 /\ 1 \in 1 .. m
    BY <1>4
  <2> QED
    BY <1>1, <1>3, <2>1
<1>6. t \in Seq(F)
  <2>1. t = [i \in 1 .. m - 1 |-> t[i]]
    BY <1>2, LenProperties
  <2>2. m - 1 \in Nat
    BY <1>1
  <2> HIDE DEF F
  <2> QED
    BY <1>5, <2>1, <2>2, IsASeq
<1>7. \A e \in F : \E i \in 1 .. m - 1 : t[i] = e
  <2> SUFFICES ASSUME NEW e \in F PROVE \E i \in 1 .. m - 1 : t[i] = e
    OBVIOUS
  <2>1. PICK i \in 1 .. m : s[i] = e
    BY <1>3
  <2>2. i # 1
    BY <2>1
  <2>3. i - 1 \in 1 .. m - 1 /\ (i - 1) + 1 = i
    BY <1>1, <2>2
  <2>4. t[i - 1] = s[(i - 1) + 1]
    BY <1>2, <2>3
  <2> QED
    BY <2>1, <2>3, <2>4
<1>8. \A i, j \in 1 .. m - 1 : t[i] = t[j] => i = j
  <2> SUFFICES ASSUME NEW i \in 1 .. m - 1, NEW j \in 1 .. m - 1, t[i] = t[j]
               PROVE  i = j
    OBVIOUS
  <2>1. s[i + 1] = s[j + 1] /\ i + 1 \in 1 .. m /\ j + 1 \in 1 .. m
    BY <1>2, <1>4
  <2>2. i + 1 = j + 1
    BY <1>3, <2>1
  <2> QED
    BY <2>2
<1>9. Holds(t, F)
  BY <1>2, <1>6, <1>7, <1>8 DEF Holds
<1>10. ASSUME NEW FT, Ascending(s, FT) PROVE Ascending(t, FT)
  <2> SUFFICES ASSUME NEW i \in 1 .. m - 1, NEW j \in 1 .. m - 1, i < j
               PROVE  FT[t[i]] <= FT[t[j]]
    BY <1>2 DEF Ascending
  <2>1. i + 1 \in 1 .. m /\ j + 1 \in 1 .. m /\ i + 1 < j + 1
    BY <1>4
  <2> QED
    BY <1>2, <1>10, <2>1 DEF Ascending, m
<1>11. ASSUME NEW FT, Ascending(s, FT), NEW e \in F PROVE FT[s[1]] <= FT[e]
  <2>1. PICK i \in 1 .. m : s[i] = e
    BY <1>3
  <2>2. i # 1 /\ 1 \in 1 .. m
    BY <1>1, <2>1
  <2>3. 1 < i
    BY <2>2
  <2> QED
    BY <1>11, <2>1, <2>2, <2>3 DEF Ascending, m
<1> QED
  BY <1>1, <1>9, <1>10, <1>11 DEF t

LEMMA ListCounts ==
  ASSUME NEW s, NEW E, Holds(s, E)
  PROVE  /\ IsFiniteSet(E) /\ Cardinality(E) = Len(s)
         /\ {s[i] : i \in DOMAIN s} = E
<1>1. /\ s \in Seq(E) /\ Len(s) \in Nat /\ DOMAIN s = 1 .. Len(s)
      /\ \A i \in 1 .. Len(s) : s[i] \in E
  BY DEF Holds
<1>2. s \in Bijection(1 .. Len(s), E)
  <2>1. s \in [1 .. Len(s) -> E]
    BY <1>1, LenProperties
  <2> QED
    BY <2>1 DEF Holds, Bijection, Injection, Surjection, IsInjective
<1>3. IsFiniteSet(1 .. Len(s)) /\ Cardinality(1 .. Len(s)) = Len(s)
  <2> DEFINE m == Len(s)
  <2>1. 1 \in Int /\ m \in Int /\ m \in Nat
    BY <1>1
  <2> HIDE DEF m
  <2>2. IsFiniteSet(1 .. m) /\ Cardinality(1 .. m) = IF 1 > m THEN 0 ELSE m - 1 + 1
    BY <2>1, FS_Interval
  <2> QED
    BY <2>1, <2>2 DEF m
<1>4. ExistsBijection(1 .. Len(s), E)
  BY <1>2 DEF ExistsBijection
<1>5. {s[i] : i \in DOMAIN s} = E
  BY <1>1 DEF Holds
<1> QED
  BY <1>3, <1>4, <1>5, FS_Bijection

Rounds(g, n, start, f) ==
  g = [k \in 0 .. n |-> IF k = 0 THEN start ELSE f[k][g[k - 1]]]

\* A function defined by recursion on 0 .. n exists, when every round leads
\* from the k-1-st set of values to the k-th.
LEMMA Iterates ==
  ASSUME NEW n \in Nat, NEW T, NEW start, start \in T[0], NEW f,
         \A k \in 1 .. n : \A x \in T[k - 1] : f[k][x] \in T[k]
  PROVE  \E g : Rounds(g, n, start, f) /\ \A k \in 0 .. n : g[k] \in T[k]
<1> DEFINE Upto(m, g) ==
             /\ g = [k \in 0 .. m |-> IF k = 0 THEN start ELSE f[k][g[k - 1]]]
             /\ \A k \in 0 .. m : g[k] \in T[k]
           Bad == {m \in 0 .. n : ~ \E g : Upto(m, g)}
<1>1. Bad = {}
  <2> SUFFICES ASSUME Bad # {} PROVE FALSE
    OBVIOUS
  <2>1. PICK m \in Bad : \A k \in Bad : m <= k
    <3>1. Bad \in SUBSET Nat
      OBVIOUS
    <3> HIDE DEF Bad
    <3> QED
      BY <3>1, LeastNatural
  <2>2. CASE m = 0
    <3> DEFINE g == [k \in 0 .. 0 |-> start]
    <3>1. Upto(0, g)
      OBVIOUS
    <3>2. \E h : Upto(0, h)
      BY <3>1
    <3> QED
      BY <2>1, <2>2, <3>2
  <2>3. CASE m # 0
    <3>1. m \in 1 .. n /\ m - 1 \in 0 .. n /\ m \in Nat /\ m - 1 < m
      BY <2>3
    <3>2. m - 1 \notin Bad
      <4> HIDE DEF Bad
      <4> QED
        BY <2>1, <3>1
    <3>3. PICK g : Upto(m - 1, g)
      BY <3>1, <3>2
    <3> DEFINE h == [k \in 0 .. m |-> IF k < m THEN g[k] ELSE f[m][g[m - 1]]]
    <3>4. /\ \A k \in 0 .. m - 1 : h[k] = g[k]
          /\ h[m] = f[m][g[m - 1]]
          /\ h = [k \in 0 .. m |-> h[k]]
      BY <3>1
    <3> HIDE DEF h
    <3>5. /\ \A k \in 0 .. m - 1 : g[k] = IF k = 0 THEN start ELSE f[k][g[k - 1]]
          /\ \A k \in 0 .. m - 1 : g[k] \in T[k]
      <4>1. g = [k \in 0 .. m - 1 |-> IF k = 0 THEN start ELSE f[k][g[k - 1]]]
        BY <3>3
      <4>2. ASSUME NEW k \in 0 .. m - 1
            PROVE  g[k] = IF k = 0 THEN start ELSE f[k][g[k - 1]]
        BY <4>1
      <4> QED
        BY <3>3, <4>2
    <3>6. h[m] \in T[m]
      <4>1. m - 1 \in 0 .. m - 1
        BY <3>1
      <4> QED
        BY <3>1, <3>4, <3>5, <4>1
    <3>7. ASSUME NEW k \in 0 .. m
          PROVE  h[k] = (IF k = 0 THEN start ELSE f[k][h[k - 1]]) /\ h[k] \in T[k]
      <4>1. CASE k = 0
        <5>1. k \in 0 .. m - 1
          BY <3>1, <4>1
        <5> QED
          BY <3>4, <3>5, <4>1, <5>1
      <4>2. CASE k # 0 /\ k < m
        <5>1. k \in 0 .. m - 1 /\ k - 1 \in 0 .. m - 1
          BY <3>1, <4>2
        <5> QED
          BY <3>4, <3>5, <4>2, <5>1
      <4>3. CASE k = m
        <5>1. m - 1 \in 0 .. m - 1
          BY <3>1
        <5> QED
          BY <2>3, <3>4, <3>6, <4>3, <5>1
      <4> QED
        BY <3>1, <4>1, <4>2, <4>3
    <3>8. h = [k \in 0 .. m |-> IF k = 0 THEN start ELSE f[k][h[k - 1]]]
      BY <3>4, <3>7
    <3>9. \E e : Upto(m, e)
      BY <3>7, <3>8
    <3> QED
      BY <2>1, <3>9
  <2> QED
    BY <2>2, <2>3
<1>2. \E g : Upto(n, g)
  BY <1>1
<1> QED
  BY <1>2 DEF Rounds

\* Joined, one insertion at a time: if each leads from one set of lists to
\* the next, the last is in the last of these sets.
LEMMA JoinsStepwise ==
  ASSUME NEW S, NEW s \in Seq(S), NEW FT, NEW Q, NEW T,
         \A k \in 0 .. Len(s) : T[k] \subseteq Q, event_queue \in T[0],
         \A k \in 1 .. Len(s) : \A q \in T[k - 1] : Inserted(q, s[k], FT) \in T[k]
  PROVE  Joined(s, FT) \in T[Len(s)]
<1> DEFINE n == Len(s)
           Next1(q, k) == Inserted(q, s[k], FT)
           H(g) == [k \in 0 .. n |-> IF k = 0 THEN event_queue ELSE Next1(g[k - 1], k)]
           queue == CHOOSE g : g = H(g)
           f == [k \in 1 .. n |-> [q \in Q |-> Next1(q, k)]]
<1>1. n \in Nat /\ \A k \in 1 .. n : k - 1 \in 0 .. n /\ k \in 0 .. n /\ k # 0
  OBVIOUS
<1>2. queue[n] = Joined(s, FT)
  BY DEF Joined
<1>3. /\ \A k \in 0 .. n : T[k] \subseteq Q
      /\ \A k \in 1 .. n : \A q \in T[k - 1] : Next1(q, k) \in T[k]
  OBVIOUS
<1> HIDE DEF Next1, n
<1>4. \A k \in 1 .. n : \A q \in T[k - 1] : f[k][q] = Next1(q, k) /\ f[k][q] \in T[k]
  BY <1>1, <1>3
<1> HIDE DEF f
<1>5. PICK g : Rounds(g, n, event_queue, f) /\ \A k \in 0 .. n : g[k] \in T[k]
  BY <1>1, <1>4, Iterates
<1>6. g = H(g)
  <2>1. \A k \in 0 .. n : (IF k = 0 THEN event_queue ELSE f[k][g[k - 1]]) =
                           (IF k = 0 THEN event_queue ELSE Next1(g[k - 1], k))
    <3>1. \A k \in 0 .. n : k = 0 \/ k \in 1 .. n
      BY <1>1
    <3> QED
      BY <1>1, <1>4, <1>5, <3>1
  <2>2. [k \in 0 .. n |-> IF k = 0 THEN event_queue ELSE f[k][g[k - 1]]] = H(g)
    BY <2>1
  <2> QED
    BY <1>5, <2>2 DEF Rounds
<1>7. queue = H(queue)
  BY <1>6
<1> HIDE DEF queue
<1>8. /\ queue[0] = event_queue
      /\ \A k \in 1 .. n : queue[k] = Next1(queue[k - 1], k)
  <2>1. 0 \in 0 .. n /\ \A k \in 0 .. n : queue[k] = H(queue)[k]
    BY <1>1, <1>7
  <2> QED
    BY <1>1, <2>1
<1> DEFINE Bad == {k \in 0 .. n : queue[k] \notin T[k]}
<1>9. Bad = {}
  <2> SUFFICES ASSUME Bad # {} PROVE FALSE
    OBVIOUS
  <2>1. PICK m \in Bad : \A k \in Bad : m <= k
    <3>1. Bad \in SUBSET Nat
      BY <1>1
    <3> HIDE DEF Bad
    <3> QED
      BY <3>1, LeastNatural
  <2>2. m \in 1 .. n /\ m - 1 \in 0 .. n /\ m - 1 < m /\ m \in Nat
    BY <1>1, <1>8
  <2>3. m - 1 \notin Bad
    <3> HIDE DEF Bad
    <3> QED
      BY <2>1, <2>2
  <2> QED
    BY <1>3, <1>8, <2>1, <2>2, <2>3
<1>10. n \in 0 .. n
  BY <1>1
<1> QED
  BY <1>2, <1>9, <1>10 DEF n

LEMMA JoinsAll ==
  ASSUME NEW E, Holds(event_queue, E), NEW F, NEW s, Holds(s, F), E \cap F = {},
         NEW FT, \A e \in E \cup F : FT[e] \in Int
  PROVE  /\ Holds(Joined(s, FT), E \cup F)
         /\ Ascending(event_queue, FT) => Ascending(Joined(s, FT), FT)
<1> DEFINE n == Len(s)
           G(k) == E \cup {s[j] : j \in 1 .. k}
           Good(q, k) == /\ Holds(q, G(k))
                         /\ Ascending(event_queue, FT) => Ascending(q, FT)
           Q == Seq(E \cup F)
           T == [k \in 0 .. n |-> {q \in Q : Good(q, k)}]
<1>1. n \in Nat /\ s \in Seq(F) /\ \A k \in 1 .. n : s[k] \in F
  BY DEF Holds
<1>2. ASSUME NEW k \in 1 .. n, NEW q, Good(q, k - 1)
      PROVE  Good(Inserted(q, s[k], FT), k)
  <2>1. s[k] \notin G(k - 1)
    <3>1. s[k] \notin E
      BY <1>1
    <3>2. \A j \in 1 .. k - 1 : j \in 1 .. n /\ j # k
      BY <1>1
    <3>3. \A j \in 1 .. k - 1 : s[j] # s[k]
      BY <3>2 DEF Holds
    <3> QED
      BY <3>1, <3>3
  <2>2. G(k) = G(k - 1) \cup {s[k]}
    <3>1. 1 .. k = (1 .. k - 1) \cup {k}
      BY <1>1
    <3> QED
      BY <3>1
  <2>3. \A e \in G(k - 1) \cup {s[k]} : FT[e] \in Int
    <3>1. \A j \in 1 .. k : s[j] \in F
      BY <1>1
    <3>2. G(k) \subseteq E \cup F
      BY <3>1
    <3> QED
      BY <2>2, <3>2
  <2> DEFINE o == s[k]
             A == G(k - 1)
  <2>4. o \notin A /\ (\A e \in A \cup {o} : FT[e] \in Int) /\ Holds(q, A)
        /\ (Ascending(event_queue, FT) => Ascending(q, FT))
    BY <1>2, <2>1, <2>3
  <2> HIDE DEF o, A
  <2>5. /\ Holds(Inserted(q, o, FT), A \cup {o})
        /\ Ascending(event_queue, FT) => Ascending(Inserted(q, o, FT), FT)
    BY <2>4, JoinsList
  <2> QED
    BY <2>2, <2>5 DEF o, A
<1>3. Good(event_queue, 0)
  <2>1. G(0) = E
    OBVIOUS
  <2> QED
    BY <2>1
<1>4. ASSUME NEW k \in 0 .. n, NEW q, Good(q, k)
      PROVE  q \in Q
  <2>1. \A j \in 1 .. k : j \in 1 .. n
    BY <1>1
  <2>2. G(k) \subseteq E \cup F
    BY <1>1, <2>1
  <2>3. q \in Seq(G(k))
    BY <1>4 DEF Holds
  <2> QED
    BY <2>2, <2>3, SeqMonotonic
<1> HIDE DEF Good, Q
<1>5. /\ \A k \in 0 .. n : T[k] \subseteq Q
      /\ event_queue \in T[0]
      /\ \A k \in 1 .. n : \A q \in T[k - 1] : Inserted(q, s[k], FT) \in T[k]
  <2>1. 0 \in 0 .. n /\ \A k \in 1 .. n : k - 1 \in 0 .. n /\ k \in 0 .. n
    BY <1>1
  <2>2. \A k \in 0 .. n : T[k] = {q \in Q : Good(q, k)}
    OBVIOUS
  <2> HIDE DEF T
  <2> QED
    BY <1>2, <1>3, <1>4, <2>1, <2>2
<1> HIDE DEF T
<1>6. Joined(s, FT) \in T[n]
  BY <1>1, <1>5, JoinsStepwise
<1>7. Good(Joined(s, FT), n)
  BY <1>1, <1>6 DEF T
<1>8. G(n) = E \cup F
  <2>1. \A e \in F : \E j \in 1 .. n : s[j] = e
    BY DEF Holds
  <2>2. F \subseteq {s[j] : j \in 1 .. n} /\ {s[j] : j \in 1 .. n} \subseteq F
    BY <1>1, <2>1
  <2> QED
    BY <2>2
<1> QED
  BY <1>7, <1>8 DEF Good

-----------------------------------------------------------------------------
(* The array of the heap: an element in every place, and each only once.   *)

Once(a, D, E) == /\ \A i \in D : a[i] \in E
                 /\ \A e \in E : \E i \in D : a[i] = e
                 /\ \A i, j \in D : a[i] = a[j] => i = j

LEMMA Exchange ==
  ASSUME NEW D, NEW C \in SUBSET D, NEW S, NEW a \in [D -> S], NEW E, Once(a, C, E),
         NEW i \in C, NEW j \in C
  PROVE  Exchanged(a, i, j) \in [D -> S] /\ Once(Exchanged(a, i, j), C, E)
<1> DEFINE b == Exchanged(a, i, j)
<1>1. /\ b \in [D -> S]
      /\ \A k \in D : b[k] = IF k = j THEN a[i] ELSE IF k = i THEN a[j] ELSE a[k]
  BY DEF Exchanged
<1> HIDE DEF b
<1>2. \A k \in C : b[k] \in E
  BY <1>1 DEF Once
<1>3. ASSUME NEW e \in E PROVE \E k \in C : b[k] = e
  <2>1. PICK k \in C : a[k] = e
    BY DEF Once
  <2>2. b[i] = a[j] /\ b[j] = a[i]
    BY <1>1
  <2>3. k # i /\ k # j => b[k] = a[k]
    BY <1>1
  <2> QED
    BY <2>1, <2>2, <2>3
<1>4. ASSUME NEW k \in C, NEW l \in C, b[k] = b[l] PROVE k = l
  <2>1. \A u, v \in C : a[u] = a[v] => u = v
    BY DEF Once
  <2> QED
    BY <1>1, <1>4, <2>1
<1> QED
  BY <1>1, <1>2, <1>3, <1>4 DEF Once, b

LEMMA ParentBelow ==
  ASSUME NEW i \in Nat
  PROVE  Parent(i) \in 0 .. i
  BY DEF Parent

\* The rounds of put's loop, of n places and one more.
Rising(g, key, a, n, x) ==
  /\ g[0] = [a |-> [i \in 0 .. n |-> IF i = n THEN x ELSE a[i]], i |-> n]
  /\ \A k \in 1 .. n : g[k] = Raised(key, x, g[k - 1])

HasRisen(key, a, n, x) == \E g : Rising(g, key, a, n, x) /\ Put(key, a, n, x) = g[n].a

LEMMA PutHolds ==
  ASSUME NEW n \in Nat, NEW a, NEW E, Once(a, 0 .. n - 1, E), NEW x, x \notin E, NEW key
  PROVE  /\ Put(key, a, n, x) \in [0 .. n -> E \cup {x}]
         /\ Once(Put(key, a, n, x), 0 .. n, E \cup {x})
         /\ HasRisen(key, a, n, x)
<1> DEFINE F == E \cup {x}
           added == [i \in 0 .. n |-> IF i = n THEN x ELSE a[i]]
           start == [a |-> added, i |-> n]
           Q == {s \in [a : [0 .. n -> F], i : 0 .. n] : Once(s.a, 0 .. n, F)}
           H(g) == [k \in 0 .. n |-> IF k = 0 THEN start ELSE Raised(key, x, g[k - 1])]
           Up == CHOOSE g : g = H(g)
<1>1. start \in Q
  <2>1. \A i \in 0 .. n : i = n \/ i \in 0 .. n - 1
    OBVIOUS
  <2>2. added \in [0 .. n -> F]
    BY <2>1 DEF Once
  <2>3. /\ added[n] = x /\ n \in 0 .. n
        /\ \A i \in 0 .. n - 1 : i \in 0 .. n /\ added[i] = a[i] /\ added[i] # x
    BY DEF Once
  <2> HIDE DEF added
  <2>4. Once(added, 0 .. n, F)
    <3>1. \A i \in 0 .. n : added[i] \in F
      BY <2>2
    <3>2. \A e \in F : \E i \in 0 .. n : added[i] = e
      BY <2>3 DEF Once
    <3>3. \A i, j \in 0 .. n : added[i] = added[j] => i = j
      BY <2>1, <2>3 DEF Once
    <3> QED
      BY <3>1, <3>2, <3>3 DEF Once
  <2> QED
    BY <2>2, <2>4
<1>2. ASSUME NEW s \in Q PROVE Raised(key, x, s) \in Q
  <2>1. CASE Rises(key, s.a, x, s.i)
    <3>1. /\ s.i \in 0 .. n /\ Parent(s.i) \in 0 .. n
          /\ s.a \in [0 .. n -> F] /\ Once(s.a, 0 .. n, F)
      <4>1. s.i \in 0 .. n /\ s.i \in Nat /\ s.a \in [0 .. n -> F] /\ Once(s.a, 0 .. n, F)
        OBVIOUS
      <4>2. Parent(s.i) \in 0 .. s.i
        BY <4>1, ParentBelow
      <4> QED
        BY <4>1, <4>2
    <3>2. /\ Exchanged(s.a, s.i, Parent(s.i)) \in [0 .. n -> F]
          /\ Once(Exchanged(s.a, s.i, Parent(s.i)), 0 .. n, F)
      <4> DEFINE D == 0 .. n
                 u == s.a
                 v == s.i
                 w == Parent(s.i)
      <4>1. D \in SUBSET D /\ u \in [D -> F] /\ Once(u, D, F) /\ v \in D /\ w \in D
        BY <3>1
      <4> HIDE DEF D, u, v, w, F
      <4>2. Exchanged(u, v, w) \in [D -> F] /\ Once(Exchanged(u, v, w), D, F)
        BY <4>1, Exchange
      <4> QED
        BY <4>2 DEF D, u, v, w
    <3> QED
      BY <2>1, <3>1, <3>2 DEF Raised
  <2>2. CASE ~ Rises(key, s.a, x, s.i)
    BY <2>2 DEF Raised
  <2> QED
    BY <2>1, <2>2
<1> HIDE DEF Q, start
<1>3. \E g : g = H(g) /\ \A k \in 0 .. n : g[k] \in Q
  <2> DEFINE T == [k \in 0 .. n |-> Q]
             f == [k \in 1 .. n |-> [s \in Q |-> Raised(key, x, s)]]
  <2>1. \A k \in 1 .. n : k - 1 \in 0 .. n /\ k \in 0 .. n
    OBVIOUS
  <2>2. start \in T[0]
    BY <1>1
  <2>3. \A k \in 1 .. n : \A s \in T[k - 1] : f[k][s] \in T[k]
    BY <1>2, <2>1
  <2>4. \A k \in 1 .. n : \A s \in T[k - 1] : f[k][s] = Raised(key, x, s)
    BY <2>1
  <2>5. \A k \in 0 .. n : T[k] = Q
    OBVIOUS
  <2> HIDE DEF f, T
  <2>6. PICK g : Rounds(g, n, start, f) /\ \A k \in 0 .. n : g[k] \in T[k]
    BY <2>2, <2>3, Iterates
  <2>7. \A k \in 0 .. n : (IF k = 0 THEN start ELSE f[k][g[k - 1]]) =
                          (IF k = 0 THEN start ELSE Raised(key, x, g[k - 1]))
    BY <2>1, <2>4, <2>6
  <2>8. [k \in 0 .. n |-> IF k = 0 THEN start ELSE f[k][g[k - 1]]] = H(g)
    BY <2>7
  <2>9. g = H(g) /\ \A k \in 0 .. n : g[k] \in Q
    BY <2>5, <2>6, <2>8 DEF Rounds
  <2> QED
    BY <2>9
<1>4. Up = H(Up)
  BY <1>3
<1>5. Up[n].a = Put(key, a, n, x)
  BY DEF Put, start
<1> HIDE DEF Up
<1>6. Up[0] = start /\ \A k \in 1 .. n : Up[k] = Raised(key, x, Up[k - 1])
  <2>1. 0 \in 0 .. n /\ \A k \in 1 .. n : k \in 0 .. n /\ k # 0
    OBVIOUS
  <2>2. \A k \in 0 .. n : Up[k] = H(Up)[k]
    BY <1>4
  <2> QED
    BY <2>1, <2>2
<1>7. \A k \in 0 .. n : Up[k] \in Q
  <2> DEFINE Bad == {k \in 0 .. n : Up[k] \notin Q}
  <2> SUFFICES ASSUME Bad # {} PROVE FALSE
    OBVIOUS
  <2>1. PICK m \in Bad : \A k \in Bad : m <= k
    <3>1. Bad \in SUBSET Nat
      OBVIOUS
    <3> HIDE DEF Bad
    <3> QED
      BY <3>1, LeastNatural
  <2>2. m \in 1 .. n /\ m - 1 \in 0 .. n /\ m - 1 < m /\ m \in Nat
    BY <1>1, <1>6
  <2>3. m - 1 \notin Bad
    <3> HIDE DEF Bad
    <3> QED
      BY <2>1, <2>2
  <2> QED
    BY <1>2, <1>6, <2>1, <2>2, <2>3
<1>8. n \in 0 .. n
  OBVIOUS
<1>9. \E g : Rising(g, key, a, n, x) /\ Put(key, a, n, x) = g[n].a
  BY <1>5, <1>6 DEF Rising, start
<1> QED
  BY <1>5, <1>7, <1>8, <1>9 DEF Q, HasRisen

\* The rounds of get's loop, of m places and the one that was the last, and
\* what it does after the loop.
Sinking(g, key, a, m, beyond, rounds) ==
  /\ g[0] = [a |-> [i \in 0 .. m |-> IF i = 0 THEN a[m] ELSE a[i]], i |-> 1,
             done |-> FALSE, strayed |-> FALSE]
  /\ \A k \in 1 .. rounds : g[k] = Lowered(key, m, beyond, g[k - 1])

Settled(key, m, end) ==
  IF end.i < m /\ Before(key, end.a[end.i], end.a[Parent(end.i)])
  THEN Exchanged(end.a, Parent(end.i), end.i) ELSE end.a

HasSunk(key, a, n, beyond) ==
  \E g : /\ Sinking(g, key, a, n - 1, beyond, n)
         /\ Sifted(key, a, n, beyond).a
              = [i \in 0 .. n - 2 |-> Settled(key, n - 1, g[n])[i]]

LEMMA SiftedHolds ==
  ASSUME NEW n \in Nat \ {0}, NEW a, NEW E, Once(a, 0 .. n - 1, E), NEW key,
         NEW beyond \in BOOLEAN
  PROVE  /\ Sifted(key, a, n, beyond).a \in [0 .. n - 2 -> E \ {a[0]}]
         /\ Once(Sifted(key, a, n, beyond).a, 0 .. n - 2, E \ {a[0]})
         /\ HasSunk(key, a, n, beyond)
<1> DEFINE m == n - 1
           F == E \ {a[0]}
           C == 0 .. m - 1
           D == 0 .. m
           front == [i \in 0 .. m |-> IF i = 0 THEN a[m] ELSE a[i]]
           start == [a |-> front, i |-> 1, done |-> FALSE, strayed |-> FALSE]
           Arrays == {b \in [D -> E] : Once(b, C, F)}
           Q == [a : Arrays, i : Nat, done : BOOLEAN, strayed : BOOLEAN]
           H(g) == [k \in 0 .. n |-> IF k = 0 THEN start
                                     ELSE Lowered(key, m, beyond, g[k - 1])]
           Down == CHOOSE g : g = H(g)
           end  == Down[n]
           last == IF end.i < m /\ Before(key, end.a[end.i], end.a[Parent(end.i)])
                   THEN Exchanged(end.a, Parent(end.i), end.i) ELSE end.a
<1>0. m \in Nat /\ m - 1 = n - 2 /\ C \in SUBSET D /\ 0 .. n - 1 = D
  OBVIOUS
<1>1. front \in Arrays
  <2>1. \A i \in D : a[i] \in E
    BY <1>0 DEF Once
  <2>2. front \in [D -> E]
    BY <1>0, <2>1
  <2>3. /\ \A i \in C : i # 0 => front[i] = a[i]
        /\ 0 \in C => front[0] = a[m]
    BY <1>0
  <2>4. /\ \A i \in C : i \in D /\ i # m
        /\ m \in D /\ 0 \in D /\ (0 \in C => m # 0)
        /\ \A i \in D : i \in C \/ i = m
        /\ m # 0 => 0 \in C
    BY <1>0
  <2>5. /\ \A i, j \in D : a[i] = a[j] => i = j
        /\ \A e \in E : \E i \in D : a[i] = e
    BY <1>0 DEF Once
  <2> HIDE DEF front, C, D, m
  <2>6. \A i \in C : front[i] \in F
    BY <2>1, <2>3, <2>4, <2>5
  <2>7. ASSUME NEW e \in F PROVE \E i \in C : front[i] = e
    <3>1. PICK i \in D : a[i] = e
      BY <2>5
    <3>2. i # 0
      BY <3>1
    <3>3. CASE i = m
      BY <2>3, <2>4, <3>1, <3>2, <3>3
    <3>4. CASE i # m
      BY <2>3, <2>4, <3>1, <3>2, <3>4
    <3> QED
      BY <3>3, <3>4
  <2>8. \A i, j \in C : front[i] = front[j] => i = j
    BY <2>3, <2>4, <2>5
  <2> QED
    BY <2>2, <2>6, <2>7, <2>8 DEF Once
<1>2. ASSUME NEW b \in Arrays, NEW i \in C, NEW j \in C
      PROVE  Exchanged(b, i, j) \in Arrays
  <2> HIDE DEF C, D, F
  <2> QED
    BY <1>0, Exchange
<1> HIDE DEF Arrays, front
<1>3. start \in Q
  BY <1>1
<1>4. ASSUME NEW s \in Q PROVE Lowered(key, m, beyond, s) \in Q
  <2> DEFINE i     == s.i
             min   == Lesser(key, s.a, i)
             moves == IF Strays(m, i) THEN beyond ELSE Before(key, s.a[min], s.a[2 * i])
  <2>1. i \in Nat /\ s.a \in Arrays /\ Parent(i) \in 0 .. i /\ min \in {i, i + 1}
    BY ParentBelow DEF Lesser
  <2>2. CASE ~ (GoesOn(m, i) /\ ~s.done)
    BY <2>2 DEF Lowered
  <2>3. CASE GoesOn(m, i) /\ ~s.done /\ ~moves
    <3>1. Lowered(key, m, beyond, s) =
            [s EXCEPT !.done = TRUE, !.strayed = @ \/ Strays(m, i)]
      BY <2>3 DEF Lowered
    <3> QED
      BY <3>1
  <2>4. CASE GoesOn(m, i) /\ ~s.done /\ moves
    <3>1. Lowered(key, m, beyond, s) =
            [s EXCEPT !.a = Exchanged(s.a, Parent(i), min), !.i = 2 * min,
                      !.strayed = @ \/ Strays(m, i)]
      BY <2>4 DEF Lowered
    <3>2. Parent(i) \in C /\ min \in C
      BY <1>0, <2>1, <2>4 DEF GoesOn
    <3>3. Exchanged(s.a, Parent(i), min) \in Arrays
      BY <1>2, <2>1, <3>2
    <3>4. 2 * min \in Nat
      BY <1>0, <3>2
    <3> HIDE DEF i, min
    <3> QED
      BY <3>1, <3>3, <3>4
  <2> QED
    BY <2>2, <2>3, <2>4
<1> HIDE DEF Q, start
<1>5. \E g : g = H(g) /\ \A k \in 0 .. n : g[k] \in Q
  <2> DEFINE T == [k \in 0 .. n |-> Q]
             f == [k \in 1 .. n |-> [s \in Q |-> Lowered(key, m, beyond, s)]]
  <2>1. \A k \in 1 .. n : k - 1 \in 0 .. n /\ k \in 0 .. n
    OBVIOUS
  <2>2. start \in T[0]
    BY <1>3
  <2>3. \A k \in 1 .. n : \A s \in T[k - 1] : f[k][s] \in T[k]
    BY <1>4, <2>1
  <2>4. \A k \in 1 .. n : \A s \in T[k - 1] : f[k][s] = Lowered(key, m, beyond, s)
    BY <2>1
  <2>5. \A k \in 0 .. n : T[k] = Q
    OBVIOUS
  <2> HIDE DEF f, T, m
  <2>6. PICK g : Rounds(g, n, start, f) /\ \A k \in 0 .. n : g[k] \in T[k]
    BY <2>2, <2>3, Iterates
  <2>7. \A k \in 0 .. n : (IF k = 0 THEN start ELSE f[k][g[k - 1]]) =
                          (IF k = 0 THEN start ELSE Lowered(key, m, beyond, g[k - 1]))
    BY <2>1, <2>4, <2>6
  <2>8. [k \in 0 .. n |-> IF k = 0 THEN start ELSE f[k][g[k - 1]]] = H(g)
    BY <2>7
  <2>9. g = H(g) /\ \A k \in 0 .. n : g[k] \in Q
    BY <2>5, <2>6, <2>8 DEF Rounds
  <2> QED
    BY <2>9
<1>6. Down = H(Down)
  BY <1>5
<1>7. Sifted(key, a, n, beyond).a = [i \in 0 .. m - 1 |-> last[i]]
  BY DEF Sifted, start, front
<1> HIDE DEF Down
<1>8. Down[0] = start /\ \A k \in 1 .. n : Down[k] = Lowered(key, m, beyond, Down[k - 1])
  <2>1. 0 \in 0 .. n /\ \A k \in 1 .. n : k \in 0 .. n /\ k # 0
    OBVIOUS
  <2>2. \A k \in 0 .. n : Down[k] = H(Down)[k]
    BY <1>6
  <2> QED
    BY <2>1, <2>2
<1>9. \A k \in 0 .. n : Down[k] \in Q
  <2> DEFINE Bad == {k \in 0 .. n : Down[k] \notin Q}
  <2> SUFFICES ASSUME Bad # {} PROVE FALSE
    OBVIOUS
  <2>1. PICK l \in Bad : \A k \in Bad : l <= k
    <3>1. Bad \in SUBSET Nat
      OBVIOUS
    <3> HIDE DEF Bad
    <3> QED
      BY <3>1, LeastNatural
  <2>2. l \in 1 .. n /\ l - 1 \in 0 .. n /\ l - 1 < l /\ l \in Nat
    BY <1>3, <1>8
  <2>3. l - 1 \notin Bad
    <3> HIDE DEF Bad
    <3> QED
      BY <2>1, <2>2
  <2> HIDE DEF m
  <2> QED
    BY <1>4, <1>8, <2>1, <2>2, <2>3
<1>14. \E g : /\ Sinking(g, key, a, m, beyond, n)
             /\ Sifted(key, a, n, beyond).a = [i \in 0 .. m - 1 |-> Settled(key, m, g[n])[i]]
  <2>1. last = Settled(key, m, Down[n])
    BY DEF Settled
  <2>2. Sinking(Down, key, a, m, beyond, n)
    BY <1>8 DEF Sinking, start, front
  <2> HIDE DEF last
  <2> QED
    BY <1>7, <2>1, <2>2
<1>15. HasSunk(key, a, n, beyond)
  <2>1. m - 1 = n - 2
    OBVIOUS
  <2> QED
    BY <1>14, <2>1 DEF HasSunk
<1>10. end \in Q
  <2>1. n \in 0 .. n
    OBVIOUS
  <2> QED
    BY <1>9, <2>1
<1> HIDE DEF end
<1>11. last \in Arrays
  <2>1. end.i \in Nat /\ end.a \in Arrays /\ Parent(end.i) \in 0 .. end.i
    BY <1>10, ParentBelow DEF Q
  <2>2. end.i < m => end.i \in C /\ Parent(end.i) \in C
    BY <1>0, <2>1
  <2> QED
    BY <1>2, <2>1, <2>2
<1>12. Once(last, C, F)
  BY <1>11 DEF Arrays
<1> HIDE DEF last
<1> DEFINE r == [i \in C |-> last[i]]
<1>13. r \in [C -> F] /\ Once(r, C, F)
  BY <1>12 DEF Once
<1> QED
  BY <1>0, <1>7, <1>13, <1>15

-----------------------------------------------------------------------------
(* One process: its times add up whatever is done to it.                   *)

Process == [AT : Nat, TC : Nat, CB : Nat \ {0}, IO : Nat \ {0}, FT : Nat, IT : Nat,
            CW : Int, cpu_time : Nat, runtime : Nat, preempt_after : Nat,
            preempted : BOOLEAN,
            state : {"INIT", "READY", "RUNNING", "BLOCKED", "PREEMPTED"}]

AddsUp(r) ==
  /\ r.cpu_time \in 0 .. r.TC
  /\ r.FT = r.AT + r.cpu_time + r.IT + (IF r.state = "BLOCKED" THEN r.runtime ELSE 0)

Sound(r) == r \in Process /\ AddsUp(r)

\* From procs to others, p is the only one that changed.
Changed(procs, others, p) ==
  /\ DOMAIN others = DOMAIN procs /\ others = [q \in DOMAIN procs |-> others[q]]
  /\ \A q \in DOMAIN procs \ {p} : others[q] = procs[q]

LEMMA NewIsSound ==
  ASSUME NEW p \in Nat, Exists(p), input \in Seq(Lines)
  PROVE  /\ Sound(NewProcess(p)) /\ NewProcess(p).state = "INIT"
<1>1. p + 1 \in 1 .. Len(input)
  BY DEF Exists
<1>2. input[p + 1] \in Lines
  BY <1>1
<1> DEFINE l == input[p + 1]
<1>3. l.AT \in Nat /\ l.TC \in Nat /\ l.CB \in Nat \ {0} /\ l.IO \in Nat \ {0}
  BY <1>2, SchedulerAssumption DEF Lines
<1> HIDE DEF l
<1>4. NewProcess(p) =
        [AT |-> l.AT, TC |-> l.TC, CB |-> l.CB, IO |-> l.IO,
         FT |-> l.AT, IT |-> 0, CW |-> 0, cpu_time |-> 0, runtime |-> 0,
         preempt_after |-> UINT_MAX, preempted |-> FALSE, state |-> "INIT"]
  BY DEF NewProcess, l
<1> QED
  BY <1>3, <1>4 DEF Sound, Process, AddsUp, UINT_MAX

LEMMA RunsSoundly ==
  ASSUME NEW p \in DOMAIN proc, proc = [q \in DOMAIN proc |-> proc[q]], Sound(proc[p]),
         proc[p].state = "READY", NEW drawn \in Draws(proc[p].CB), last_event \in Nat
  PROVE  LET on == Running(p, drawn)
         IN  Changed(proc, on, p) /\ Sound(on[p]) /\ on[p].state = "RUNNING"
<1> DEFINE r == proc[p]
           time == Burst(p, drawn)
           on == Running(p, drawn)
           s == on[p]
<1>1. r \in Process /\ AddsUp(r) /\ drawn \in Nat
  BY DEF Sound, Draws, Process
<1>2. time \in Nat /\ time <= r.TC - r.cpu_time
  BY <1>1 DEF Burst, Process, AddsUp
<1>3. Changed(proc, on, p)
  <2> DEFINE waited == unsigned(r.CW + last_event - r.FT)
             cut == r.preempted \/ drawn > r.preempt_after
             used == r.cpu_time + time
             end == r.FT + time
  <2> HIDE DEF time
  <2>1. on = [proc EXCEPT ![p].CW = waited, ![p].preempted = cut,
                          ![p].runtime = time, ![p].cpu_time = used,
                          ![p].FT = end, ![p].state = "RUNNING"]
    BY DEF Running, time
  <2> HIDE DEF r, on, waited, cut, used, end
  <2>2. DOMAIN on = DOMAIN proc
    BY <2>1
  <2>3. \A q \in DOMAIN proc \ {p} : on[q] = proc[q]
    BY <2>1
  <2>4. on = [q \in DOMAIN proc |-> on[q]]
    BY <2>1
  <2> QED
    BY <2>2, <2>3, <2>4 DEF Changed
<1>4. s = [r EXCEPT !.CW = unsigned(@ + last_event - r.FT),
                    !.preempted = @ \/ drawn > r.preempt_after,
                    !.runtime = time, !.cpu_time = @ + time, !.FT = @ + time,
                    !.state = "RUNNING"]
  BY DEF Running
<1>5. unsigned(r.CW + last_event - r.FT) \in Int
  <2> DEFINE n == r.CW + last_event - r.FT
  <2>1. n \in Int
    BY <1>1 DEF Process
  <2> HIDE DEF n
  <2>2. unsigned(n) \in Int
    BY <2>1 DEF unsigned, UINT_MAX
  <2> QED
    BY <2>2 DEF n
<1> HIDE DEF time, s, on
<1>6. r.cpu_time + time \in Nat /\ r.FT + time \in Nat
  BY <1>1, <1>2 DEF Process
<1> DEFINE waited == unsigned(r.CW + last_event - r.FT)
<1> HIDE DEF waited
<1>7. s = [r EXCEPT !.CW = waited,
                    !.preempted = @ \/ drawn > r.preempt_after,
                    !.runtime = time, !.cpu_time = @ + time, !.FT = @ + time,
                    !.state = "RUNNING"]
  BY <1>4 DEF waited
<1>8. s \in Process /\ s.state = "RUNNING" /\ s.cpu_time = r.cpu_time + time
      /\ s.FT = r.FT + time /\ s.TC = r.TC /\ s.AT = r.AT /\ s.IT = r.IT
  BY <1>1, <1>2, <1>5, <1>6, <1>7 DEF Process, waited
<1>9. AddsUp(s)
  BY <1>1, <1>2, <1>8 DEF AddsUp, Process
<1> QED
  BY <1>3, <1>8, <1>9 DEF Sound, s, on

LEMMA StopsSoundly ==
  ASSUME NEW p \in DOMAIN proc, proc = [q \in DOMAIN proc |-> proc[q]], Sound(proc[p]),
         proc[p].state = "RUNNING"
  PROVE  /\ LET on == Preempted(p)
            IN  Changed(proc, on, p) /\ Sound(on[p]) /\ on[p].state = "PREEMPTED"
         /\ \A drawn \in Draws(proc[p].IO) :
              LET on == Blocked(p, drawn)
              IN  Changed(proc, on, p) /\ Sound(on[p]) /\ on[p].state = "BLOCKED"
<1> DEFINE r == proc[p]
<1>1. r \in Process /\ AddsUp(r) /\ r.state # "BLOCKED"
  BY DEF Sound
<1>2. Changed(proc, Preempted(p), p)
  BY DEF Preempted, Changed
<1>3. Preempted(p)[p] = [r EXCEPT !.state = "PREEMPTED", !.preempted = FALSE]
  BY DEF Preempted
<1>4. Sound(Preempted(p)[p]) /\ Preempted(p)[p].state = "PREEMPTED"
  <2> HIDE DEF r
  <2> QED
    BY <1>1, <1>3 DEF Sound, AddsUp, Process
<1>5. ASSUME NEW drawn \in Draws(r.IO)
      PROVE  /\ Changed(proc, Blocked(p, drawn), p) /\ Sound(Blocked(p, drawn)[p])
             /\ Blocked(p, drawn)[p].state = "BLOCKED"
  <2>1. Changed(proc, Blocked(p, drawn), p)
    BY DEF Blocked, Changed
  <2>2. drawn \in Nat
    BY <1>1 DEF Draws, Process
  <2>3. Blocked(p, drawn)[p] =
          [r EXCEPT !.state = "BLOCKED", !.runtime = drawn, !.FT = @ + drawn]
    BY DEF Blocked
  <2> DEFINE s == Blocked(p, drawn)[p]
  <2> HIDE DEF r, s
  <2>4. r.FT + drawn \in Nat
    BY <1>1, <2>2 DEF Process
  <2>5. /\ s \in Process /\ s.state = "BLOCKED" /\ s.FT = r.FT + drawn /\ s.runtime = drawn
        /\ s.AT = r.AT /\ s.IT = r.IT /\ s.cpu_time = r.cpu_time /\ s.TC = r.TC
    BY <1>1, <2>2, <2>3, <2>4 DEF Process, s
  <2>6. AddsUp(s)
    BY <1>1, <2>2, <2>5 DEF AddsUp, Process
  <2> QED
    BY <2>1, <2>5, <2>6 DEF Sound, s
<1> QED
  BY <1>2, <1>4, <1>5

LEMMA WaitsSoundly ==
  ASSUME NEW p \in DOMAIN proc, proc = [q \in DOMAIN proc |-> proc[q]], Sound(proc[p]),
         proc[p].state \in {"BLOCKED", "PREEMPTED", "INIT"}, quantum \in Nat
  PROVE  LET on == IF algorithm = "R" THEN RR_quantum(p, AfterIO(p)) ELSE AfterIO(p)
         IN  /\ Changed(proc, on, p) /\ Sound(on[p]) /\ on[p].state = "READY"
             /\ on[p].FT = proc[p].FT
<1> DEFINE r == proc[p]
           on == AfterIO(p)
           s == on[p]
<1>1. r \in Process /\ AddsUp(r)
  BY DEF Sound
<1>2. Changed(proc, on, p)
  BY DEF AfterIO, Changed
<1>3. s = IF r.state = "BLOCKED" THEN [r EXCEPT !.state = "READY", !.IT = @ + r.runtime]
          ELSE [r EXCEPT !.state = "READY"]
  BY DEF AfterIO
<1> HIDE DEF r, s
<1>4. Sound(s) /\ s.state = "READY" /\ s.FT = r.FT
  <2>1. r.runtime \in Nat /\ r.IT \in Nat /\ r.IT + r.runtime \in Nat
    BY <1>1 DEF Process
  <2>2. /\ s \in Process /\ s.state = "READY" /\ s.FT = r.FT /\ s.AT = r.AT
        /\ s.cpu_time = r.cpu_time /\ s.TC = r.TC
        /\ s.IT = r.IT + (IF r.state = "BLOCKED" THEN r.runtime ELSE 0)
    <3>1. CASE r.state = "BLOCKED"
      BY <1>1, <1>3, <2>1, <3>1 DEF Process
    <3>2. CASE r.state # "BLOCKED"
      BY <1>1, <1>3, <2>1, <3>2 DEF Process
    <3> QED
      BY <3>1, <3>2
  <2>3. AddsUp(s)
    BY <1>1, <2>1, <2>2 DEF AddsUp, Process
  <2> QED
    BY <2>2, <2>3 DEF Sound
<1> HIDE DEF on
<1> DEFINE rr == RR_quantum(p, on)
           t == rr[p]
<1>5. p \in DOMAIN on
  BY <1>2 DEF Changed
<1>6. Changed(proc, rr, p)
  BY <1>2 DEF RR_quantum, Changed
<1>7. t = [s EXCEPT !.preempt_after = quantum]
  BY <1>5 DEF RR_quantum, s
<1> HIDE DEF t, rr
<1>8. Sound(t) /\ t.state = "READY" /\ t.FT = r.FT
  BY <1>4, <1>7 DEF Sound, AddsUp, Process
<1> QED
  BY <1>2, <1>4, <1>6, <1>8 DEF r, s, t, on, rr

-----------------------------------------------------------------------------
(* The ready queue: the array of the heap under SJF, else a sequence; of n *)
(* places, each member of R in one of them.                                *)

Places(n) == IF algorithm = "S" THEN 0 .. n - 1 ELSE 1 .. n

Kept(queue, n, R) == queue \in [Places(n) -> R] /\ Once(queue, Places(n), R)

\* The ready queue after put_event(p).
PutIn(p, TC) == CASE algorithm = "L" -> LCFS_put(p)
                  [] algorithm = "S" -> SJF_put(p, TC)
                  [] OTHER           -> FCFS_put(p)

LEMMA KeptIsHeld ==
  ASSUME algorithm # "S", NEW q, NEW n \in Nat, NEW R
  PROVE  Kept(q, n, R) <=> Holds(q, R) /\ Len(q) = n
<1>1. ASSUME Kept(q, n, R) PROVE Holds(q, R) /\ Len(q) = n
  <2>1. q \in [1 .. n -> R]
    BY <1>1 DEF Kept, Places
  <2>2. q \in Seq(R)
    BY <2>1
  <2>3. Len(q) = n
    BY <2>1, <2>2, LenProperties
  <2> QED
    BY <1>1, <2>2, <2>3 DEF Kept, Places, Once, Holds
<1>2. ASSUME Holds(q, R), Len(q) = n PROVE Kept(q, n, R)
  <2>1. q \in Seq(R)
    BY <1>2 DEF Holds
  <2>2. q \in [1 .. n -> R]
    BY <1>2, <2>1, LenProperties
  <2>3. \A i \in 1 .. n : q[i] \in R
    BY <2>2
  <2> QED
    BY <1>2, <2>2, <2>3 DEF Kept, Places, Once, Holds
<1> QED
  BY <1>1, <1>2

LEMMA SlotsCount ==
  ASSUME NEW q, NEW n \in Nat, NEW R, Kept(q, n, R)
  PROVE  /\ DOMAIN q = Places(n) /\ Cardinality(DOMAIN q) = n
         /\ (DOMAIN q = {} <=> n = 0)
         /\ {q[i] : i \in DOMAIN q} = R
         /\ IsFiniteSet(R) /\ Cardinality(R) = n
<1>1. /\ DOMAIN q = Places(n) /\ q \in [Places(n) -> R]
      /\ \A i \in Places(n) : q[i] \in R
  BY DEF Kept
<1>2. IsFiniteSet(Places(n)) /\ Cardinality(Places(n)) = n
  <2>1. /\ IsFiniteSet(1 .. n) /\ Cardinality(1 .. n) = IF 1 > n THEN 0 ELSE n - 1 + 1
    BY FS_Interval
  <2>2. n - 1 \in Int
    OBVIOUS
  <2>3. /\ IsFiniteSet(0 .. n - 1)
        /\ Cardinality(0 .. n - 1) = IF 0 > n - 1 THEN 0 ELSE n - 1 - 0 + 1
    BY <2>2, FS_Interval
  <2> QED
    BY <2>1, <2>3 DEF Places
<1>3. Places(n) = {} <=> n = 0
  BY DEF Places
<1>4. {q[i] : i \in DOMAIN q} = R
  BY <1>1 DEF Kept, Once
<1>5. q \in Bijection(Places(n), R)
  BY <1>1 DEF Kept, Once, Bijection, Injection, Surjection, IsInjective
<1>6. IsFiniteSet(R) /\ Cardinality(R) = n
  BY <1>2, <1>5, FS_Bijection DEF ExistsBijection
<1> QED
  BY <1>1, <1>2, <1>3, <1>4, <1>6

LEMMA PutKeeps ==
  ASSUME NEW n \in Nat, NEW R, Kept(ready_queue, n, R), NEW p, p \notin R, NEW TC,
         algorithm \in {"F", "L", "S", "R"}
  PROVE  Kept(PutIn(p, TC), n + 1, R \cup {p})
<1> DEFINE q == ready_queue
           F == R \cup {p}
<1>1. CASE algorithm = "S"
  <2>1. Cardinality(DOMAIN q) = n
    BY SlotsCount
  <2>2. Once(q, 0 .. n - 1, R)
    BY <1>1 DEF Kept, Places
  <2> DEFINE r == Put(TC, q, n, p)
  <2>3. r \in [0 .. n -> F] /\ Once(r, 0 .. n, F)
    BY <2>2, PutHolds
  <2>4. PutIn(p, TC) = r
    BY <1>1, <2>1 DEF PutIn, SJF_put
  <2> HIDE DEF r
  <2>5. Places(n + 1) = 0 .. n
    BY <1>1 DEF Places
  <2> QED
    BY <2>3, <2>4, <2>5 DEF Kept
<1>2. CASE algorithm # "S"
  <2>1. Holds(q, R) /\ Len(q) = n
    BY <1>2, KeptIsHeld
  <2>2. q \in Seq(R) /\ q \in Seq(F) /\ \A i \in 1 .. n : q[i] \in R /\ q[i] # p
    <3>1. q \in Seq(R) /\ \A i \in 1 .. n : q[i] \in R
      BY <2>1 DEF Holds
    <3>2. q \in [1 .. n -> F]
      BY <2>1, <3>1, LenProperties
    <3> QED
      BY <3>1, <3>2
  <2> DEFINE r == PutIn(p, TC)
  <2>3. CASE algorithm = "L"
    <3>1. r = << p >> \o q
      BY <2>3 DEF PutIn, LCFS_put
    <3>2. << p >> \in Seq(F) /\ Len(<< p >>) = 1 /\ << p >>[1] = p
      OBVIOUS
    <3> HIDE DEF r
    <3>3. /\ r \in Seq(F) /\ Len(r) = 1 + n
          /\ \A i \in 1 .. 1 + n : r[i] = IF i <= 1 THEN << p >>[i] ELSE q[i - 1]
      BY <2>1, <2>2, <3>1, <3>2, ConcatProperties
    <3>4. \A i \in 1 .. n + 1 : r[i] = IF i = 1 THEN p ELSE q[i - 1]
      BY <3>2, <3>3
    <3>5. \A e \in F : \E i \in 1 .. n + 1 : r[i] = e
      <4>1. r[1] = p /\ 1 \in 1 .. n + 1
        BY <3>4
      <4>2. ASSUME NEW e \in R PROVE \E i \in 1 .. n + 1 : r[i] = e
        <5>1. PICK i \in 1 .. n : q[i] = e
          BY <2>1 DEF Holds
        <5>2. i + 1 \in 1 .. n + 1 /\ r[i + 1] = e
          BY <3>4, <5>1
        <5> QED
          BY <5>2
      <4> QED
        BY <4>1, <4>2
    <3>6. \A i, j \in 1 .. n + 1 : r[i] = r[j] => i = j
      <4>1. \A i, j \in 1 .. n : q[i] = q[j] => i = j
        BY <2>1 DEF Holds
      <4>2. \A i \in 2 .. n + 1 : i - 1 \in 1 .. n /\ r[i] = q[i - 1]
        BY <3>4
      <4>3. \A i \in 1 .. n + 1 : i = 1 \/ i \in 2 .. n + 1
        OBVIOUS
      <4>4. r[1] = p
        BY <3>4
      <4> QED
        BY <2>2, <4>1, <4>2, <4>3, <4>4
    <3>7. Holds(r, F) /\ Len(r) = n + 1
      BY <3>3, <3>5, <3>6 DEF Holds
    <3> QED
      BY <1>2, <3>7, KeptIsHeld DEF r
  <2>4. CASE algorithm # "L"
    <3>1. r = Append(q, p)
      BY <1>2, <2>4 DEF PutIn, FCFS_put
    <3> HIDE DEF r
    <3>2. /\ r \in Seq(F) /\ Len(r) = n + 1
          /\ \A i \in 1 .. n : r[i] = q[i]
          /\ r[n + 1] = p
      BY <2>1, <2>2, <3>1, AppendProperties
    <3>3. \A i \in 1 .. n + 1 : i \in 1 .. n \/ i = n + 1
      OBVIOUS
    <3>4. n + 1 \in 1 .. n + 1 /\ \A i \in 1 .. n : i \in 1 .. n + 1
      OBVIOUS
    <3>5. \A e \in F : \E i \in 1 .. n + 1 : r[i] = e
      BY <2>1, <3>2, <3>4 DEF Holds
    <3>6. \A i, j \in 1 .. n + 1 : r[i] = r[j] => i = j
      BY <2>1, <2>2, <3>2, <3>3 DEF Holds
    <3>7. Holds(r, F) /\ Len(r) = n + 1
      BY <3>2, <3>5, <3>6 DEF Holds
    <3> QED
      BY <1>2, <3>7, KeptIsHeld DEF r
  <2> QED
    BY <2>3, <2>4
<1> QED
  BY <1>1, <1>2

LEMMA TakeKeeps ==
  ASSUME NEW n \in Nat \ {0}, NEW R, Kept(ready_queue, n, R),
         algorithm \in {"F", "L", "S", "R"}
  PROVE  Chosen \in R /\ Kept(Rest, n - 1, R \ {Chosen})
<1> DEFINE q == ready_queue
<1>1. CASE algorithm = "S"
  <2>1. Cardinality(DOMAIN q) = n
    BY SlotsCount
  <2>2. Once(q, 0 .. n - 1, R) /\ 0 \in 0 .. n - 1 /\ Chosen = q[0]
    BY <1>1 DEF Kept, Places, Chosen
  <2> DEFINE TC == [p \in DOMAIN proc |-> proc[p].TC]
  <2> HIDE DEF TC
  <2> DEFINE r == Sifted(TC, q, n, TRUE).a
             F == R \ {q[0]}
  <2>3. r \in [0 .. n - 2 -> F] /\ Once(r, 0 .. n - 2, F)
    BY <2>2, SiftedHolds
  <2>4. Rest = r
    BY <1>1, <2>1 DEF Rest, TC
  <2> HIDE DEF r
  <2>5. Places(n - 1) = 0 .. n - 2
    BY <1>1 DEF Places
  <2> QED
    BY <2>2, <2>3, <2>4, <2>5 DEF Kept, Once
<1>2. CASE algorithm # "S"
  <2>1. Holds(q, R) /\ Len(q) = n
    BY <1>2, KeptIsHeld
  <2>2. q # << >> /\ q \in Seq(R)
    BY <2>1 DEF Holds
  <2>3. Chosen = Head(q) /\ Rest = Tail(q)
    BY <1>2 DEF Chosen, Rest
  <2>4. Head(q) \in R /\ Holds(Tail(q), R \ {Head(q)})
    BY <2>1, <2>2, LeavesList
  <2>5. Len(Tail(q)) = n - 1 /\ n - 1 \in Nat
    BY <2>1, <2>2, HeadTailProperties
  <2> QED
    BY <1>2, <2>3, <2>4, <2>5, KeptIsHeld
<1> QED
  BY <1>1, <1>2

-----------------------------------------------------------------------------
(* The inductive invariant: each process that was read is in one place, is *)
(* sound, and the event queue is in order.                                 *)

Old == {oldproc} \ {NULL}

Types ==
  /\ algorithm \in {"F", "L", "S", "R"} /\ quantum \in Nat /\ input \in Seq(Lines)
  /\ maxpid \in Nat /\ size \in Nat /\ last_event \in Nat
  /\ process_running \in BOOLEAN
  /\ proc = [p \in DOMAIN proc |-> proc[p]]
  /\ \A p \in DOMAIN proc : p \in Nat /\ p < maxpid /\ Exists(p) /\ Sound(proc[p])

Placed(E, R) ==
  /\ Holds(event_queue, E) /\ Kept(ready_queue, size, R)
  /\ DOMAIN proc = Old \cup E \cup R
  /\ Old \cap (E \cup R) = {} /\ E \cap R = {}
  /\ \A p \in DOMAIN proc : proc[p].state = "READY" <=> p \in R
  /\ \A p \in Old : proc[p].state = "INIT"

AtMostOneRuns ==
  IF process_running
  THEN \E p \in DOMAIN proc : \A q \in DOMAIN proc : proc[q].state = "RUNNING" <=> q = p
  ELSE \A q \in DOMAIN proc : proc[q].state # "RUNNING"

SInv == /\ Types /\ Placed(Events, Ready) /\ AtMostOneRuns
        /\ Ascending(event_queue, Times(proc))

LEMMA PlacesAreSets ==
  ASSUME NEW E, NEW R, Placed(E, R), size \in Nat
  PROVE  E = Events /\ R = Ready
<1>1. {event_queue[i] : i \in DOMAIN event_queue} = E
  BY ListCounts DEF Placed
<1>2. {ready_queue[i] : i \in DOMAIN ready_queue} = R
  BY SlotsCount DEF Placed
<1> QED
  BY <1>1, <1>2 DEF Events, Ready

\* What the invariant says, without the sets that depend on the state.
SInvAt(E, R) == /\ Types /\ Placed(E, R) /\ AtMostOneRuns
                /\ Ascending(event_queue, Times(proc))

LEMMA SInvThen == (\A E, R : SInvAt(E, R) => SInv)'
<1>1. \A E, R : SInvAt(E, R) => SInv
  <2> SUFFICES ASSUME NEW E, NEW R, SInvAt(E, R) PROVE SInv
    OBVIOUS
  <2>1. E = Events /\ R = Ready
    BY PlacesAreSets DEF SInvAt, Types
  <2> HIDE DEF Events, Ready
  <2> QED
    BY <2>1 DEF SInvAt, SInv
<1> QED
  BY <1>1, PTL

LEMMA SInvImplies ==
  ASSUME SInv
  PROVE  EachInOnePlace /\ EventsInOrder /\ TimeIsUse
<1>1. /\ Types /\ Placed(Events, Ready) /\ AtMostOneRuns
      /\ Ascending(event_queue, Times(proc))
  BY DEF SInv
<1>2. \A p \in DOMAIN proc : Sound(proc[p]) /\ proc[p].FT \in Nat
  BY <1>1 DEF Types, Sound, Process
<1>3. TimeIsUse
  BY <1>2 DEF TimeIsUse, Sound, AddsUp
<1>4. EventsInOrder
  <2> SUFFICES ASSUME NEW p \in Events
               PROVE  proc[Head(event_queue)].FT <= proc[p].FT
    BY DEF EventsInOrder
  <2>1. Holds(event_queue, Events) /\ Events \subseteq DOMAIN proc
    BY <1>1 DEF Placed
  <2>2. event_queue # << >>
    BY <2>1 DEF Holds
  <2> DEFINE FT == Times(proc)
  <2>3. \A q \in DOMAIN proc : FT[q] = proc[q].FT
    BY DEF Times
  <2>4. Ascending(event_queue, FT)
    BY <1>1
  <2> HIDE DEF FT
  <2>5. /\ Head(event_queue) \in Events
        /\ \A e \in Events \ {Head(event_queue)} : FT[Head(event_queue)] <= FT[e]
    BY <2>1, <2>2, <2>4, LeavesList
  <2>6. CASE p = Head(event_queue)
    BY <1>2, <2>1, <2>6
  <2>7. CASE p # Head(event_queue)
    BY <2>1, <2>3, <2>5, <2>7
  <2> QED
    BY <2>6, <2>7
<1>5. EachInOnePlace
  <2>1. Len(event_queue) = Cardinality(Events)
    BY <1>1, ListCounts DEF Placed
  <2>2. size = Cardinality(Ready) /\ size = Cardinality(DOMAIN ready_queue)
    BY <1>1, SlotsCount DEF Placed, Types
  <2> DEFINE runs == {p \in DOMAIN proc : proc[p].state = "RUNNING"}
  <2>3. Cardinality(runs) = IF process_running THEN 1 ELSE 0
    <3>1. CASE process_running
      <4>1. PICK p \in DOMAIN proc : \A q \in DOMAIN proc : proc[q].state = "RUNNING" <=> q = p
        BY <1>1, <3>1 DEF AtMostOneRuns
      <4>2. runs = {p}
        BY <4>1
      <4> QED
        BY <3>1, <4>2, FS_Singleton
    <3>2. CASE ~process_running
      <4>1. runs = {}
        BY <1>1, <3>2 DEF AtMostOneRuns
      <4> QED
        BY <3>2, <4>1, FS_EmptySet
    <3> QED
      BY <3>1, <3>2
  <2> QED
    BY <1>1, <2>1, <2>2, <2>3 DEF EachInOnePlace, Placed, Old
<1> QED
  BY <1>3, <1>4, <1>5

-----------------------------------------------------------------------------
(* Reading: the lines read become processes of the event queue, but for    *)
(* the last, whose time has not come.                                      *)

New == maxpid .. maxpid + Arriving - 1

LEMMA ArrivingFound ==
  ASSUME maxpid \in Nat, input \in Seq(Lines)
  PROVE  Arriving \in Nat /\ \A p \in New : Exists(p)
<1> DEFINE Comes(p) == \/ input[p + 1].AT <= last_event
                       \/ p = maxpid /\ oldproc = NULL /\ event_queue = << >>
           Stops == {n \in 0 .. Len(input) : Exists(maxpid + n) => ~ Comes(maxpid + n)}
<1>0. Len(input) \in Nat
  OBVIOUS
<1>1. PICK n \in Stops : \A m \in Stops : n <= m
  <2>1. Stops \in SUBSET Nat /\ Len(input) \in Stops
    BY <1>0 DEF Exists
  <2> HIDE DEF Stops
  <2> QED
    BY <2>1, LeastNatural
<1> HIDE DEF Comes
<1>2. n \in 0 .. Len(input) /\ (Exists(maxpid + n) => ~ Comes(maxpid + n))
  BY <1>1
<1>3. \A p \in maxpid .. maxpid + n - 1 : Exists(p) /\ Comes(p)
  <2> SUFFICES ASSUME NEW p \in maxpid .. maxpid + n - 1, ~ (Exists(p) /\ Comes(p))
               PROVE  FALSE
    OBVIOUS
  <2> DEFINE m == p - maxpid
  <2>1. m \in 0 .. Len(input) /\ m < n /\ p = maxpid + m
    BY <1>0, <1>2
  <2> HIDE DEF m
  <2>2. m \in Stops
    BY <2>1
  <2> HIDE DEF Stops
  <2> QED
    BY <1>0, <1>1, <1>2, <2>1, <2>2
<1> DEFINE Fits(k) == /\ \A p \in maxpid .. maxpid + k - 1 : Exists(p) /\ Comes(p)
                      /\ Exists(maxpid + k) => ~ Comes(maxpid + k)
<1>4. Fits(n)
  BY <1>2, <1>3
<1>5. Arriving = CHOOSE k \in 0 .. Len(input) : Fits(k)
  BY DEF Arriving, Comes
<1> HIDE DEF Fits
<1>6. Arriving \in 0 .. Len(input) /\ Fits(Arriving)
  BY <1>2, <1>4, <1>5
<1> QED
  BY <1>0, <1>6 DEF Fits, New

LEMMA ComingHolds ==
  ASSUME maxpid \in Nat, input \in Seq(Lines), oldproc \notin New
  PROVE  Holds(Coming, Old \cup New)
<1> DEFINE a == IF oldproc = NULL THEN << >> ELSE << oldproc >>
           b == [i \in 1 .. Arriving |-> maxpid + i - 1]
           n == Arriving
           F == Old \cup New
<1>1. n \in Nat /\ New = maxpid .. maxpid + n - 1
  BY ArrivingFound DEF New
<1> HIDE DEF n
<1>2. /\ a \in Seq(Old)
      /\ oldproc = NULL => Old = {} /\ a = << >> /\ Len(a) = 0
      /\ oldproc # NULL => Old = {oldproc} /\ a = << oldproc >> /\ Len(a) = 1
                           /\ a[1] = oldproc
  <2>1. CASE oldproc = NULL
    <3>1. a = << >> /\ Old = {}
      BY <2>1 DEF Old
    <3> HIDE DEF a
    <3> QED
      BY <2>1, <3>1
  <2>2. CASE oldproc # NULL
    <3>1. a = << oldproc >> /\ Old = {oldproc}
      BY <2>2 DEF Old
    <3> HIDE DEF a
    <3> QED
      BY <2>2, <3>1
  <2> QED
    BY <2>1, <2>2
<1>3. \A i \in 1 .. n : maxpid + i - 1 \in New
  BY <1>1
<1>4. b \in Seq(New) /\ Len(b) = n /\ \A i \in 1 .. n : b[i] = maxpid + i - 1
  <2>1. b \in [1 .. n -> New]
    BY <1>3 DEF n
  <2>0. \A i \in 1 .. n : b[i] = maxpid + i - 1
    BY DEF n
  <2> HIDE DEF b
  <2>2. b \in Seq(New)
    BY <1>1, <2>1
  <2>3. Len(b) = n
    <3>1. Len(b) \in Nat /\ 1 .. Len(b) = 1 .. n
      BY <2>1, <2>2, LenProperties
    <3> QED
      BY <1>1, <3>1
  <2> QED
    BY <2>0, <2>2, <2>3
<1>5. Coming = a \o b
  BY DEF Coming
<1> HIDE DEF a, b
<1>6. Holds(a, Old)
  <2>1. CASE oldproc = NULL
    BY <1>2, <2>1 DEF Holds
  <2>2. CASE oldproc # NULL
    <3>0. Len(a) = 1
      BY <1>2, <2>2
    <3>1. 1 \in 1 .. Len(a) /\ \A i \in 1 .. Len(a) : i = 1
      BY <3>0
    <3> QED
      BY <1>2, <2>2, <3>1 DEF Holds
  <2> QED
    BY <2>1, <2>2
<1>7. Holds(b, New)
  <2>1. \A e \in New : \E i \in 1 .. Len(b) : b[i] = e
    <3> SUFFICES ASSUME NEW e \in New PROVE \E i \in 1 .. Len(b) : b[i] = e
      OBVIOUS
    <3>1. e - maxpid + 1 \in 1 .. n /\ maxpid + (e - maxpid + 1) - 1 = e
      BY <1>1
    <3> QED
      BY <1>4, <3>1
  <2>2. \A i, j \in 1 .. Len(b) : b[i] = b[j] => i = j
    BY <1>4
  <2> QED
    BY <1>4, <2>1, <2>2 DEF Holds
<1>8. Old \cap New = {}
  BY DEF Old
<1> HIDE DEF F
<1> DEFINE m == Len(a)
<1>9. /\ m \in Nat /\ a \in Seq(F) /\ b \in Seq(F)
      /\ \A i \in 1 .. m : a[i] \in Old
      /\ \A i \in 1 .. n : b[i] \in New
  <2>1. m \in Nat /\ a \in [1 .. m -> Old]
    BY <1>2, LenProperties
  <2>2. b \in [1 .. n -> New]
    BY <1>4, LenProperties
  <2>3. a \in [1 .. m -> F] /\ b \in [1 .. n -> F]
    BY <2>1, <2>2 DEF F
  <2>4. a \in Seq(F) /\ b \in Seq(F)
    BY <1>1, <2>1, <2>3
  <2> QED
    BY <2>1, <2>2, <2>4
<1> DEFINE c == Coming
<1> HIDE DEF m
<1>10. /\ c \in Seq(F) /\ Len(c) = m + n
       /\ \A i \in 1 .. m + n : c[i] = IF i <= m THEN a[i] ELSE b[i - m]
  BY <1>4, <1>5, <1>9, ConcatProperties DEF m
<1> HIDE DEF c
<1>11. \A e \in F : \E i \in 1 .. m + n : c[i] = e
  <2>1. ASSUME NEW e \in Old PROVE \E i \in 1 .. m + n : c[i] = e
    <3>1. PICK i \in 1 .. m : a[i] = e
      BY <1>6 DEF Holds, m
    <3> QED
      BY <1>1, <1>9, <1>10, <3>1
  <2>2. ASSUME NEW e \in New PROVE \E i \in 1 .. m + n : c[i] = e
    <3>1. PICK i \in 1 .. n : b[i] = e
      BY <1>4, <1>7 DEF Holds
    <3>2. m + i \in 1 .. m + n /\ ~ (m + i <= m) /\ (m + i) - m = i
      BY <1>1, <1>9
    <3> QED
      BY <1>10, <3>1, <3>2
  <2> QED
    BY <2>1, <2>2 DEF F
<1>12. \A i, j \in 1 .. m + n : c[i] = c[j] => i = j
  <2> SUFFICES ASSUME NEW i \in 1 .. m + n, NEW j \in 1 .. m + n, c[i] = c[j]
               PROVE  i = j
    OBVIOUS
  <2>1. \A k \in 1 .. m + n : \/ k \in 1 .. m /\ k <= m
                              \/ k - m \in 1 .. n /\ ~ (k <= m)
    BY <1>1, <1>9
  <2>2. CASE i <= m /\ j <= m
    BY <1>6, <1>9, <1>10, <2>1, <2>2 DEF Holds, m
  <2>3. CASE ~ (i <= m) /\ ~ (j <= m)
    <3>1. b[i - m] = b[j - m] /\ i - m \in 1 .. n /\ j - m \in 1 .. n
      BY <1>10, <2>1, <2>3
    <3>2. i - m = j - m
      BY <1>4, <1>7, <3>1 DEF Holds
    <3> QED
      BY <1>1, <1>9, <3>2
  <2>4. CASE i <= m /\ ~ (j <= m)
    <3>1. c[i] \in Old /\ c[j] \in New
      BY <1>9, <1>10, <2>1, <2>4
    <3> QED
      BY <1>8, <3>1
  <2>5. CASE ~ (i <= m) /\ j <= m
    <3>1. c[i] \in New /\ c[j] \in Old
      BY <1>9, <1>10, <2>1, <2>5
    <3> QED
      BY <1>8, <3>1
  <2> QED
    BY <2>2, <2>3, <2>4, <2>5
<1> QED
  BY <1>10, <1>11, <1>12 DEF Holds, c, F

LEMMA AscendingAgrees ==
  ASSUME NEW s, NEW E, Holds(s, E), NEW FT, NEW GT, \A e \in E : FT[e] = GT[e],
         Ascending(s, FT)
  PROVE  Ascending(s, GT)
<1>1. \A i \in 1 .. Len(s) : s[i] \in E
  BY DEF Holds
<1> QED
  BY <1>1 DEF Ascending

LEMMA Unmoved ==
  ASSUME SInv, UNCHANGED <<given, maxpid, proc, queues, process_running, last_event>>
  PROVE  SInv'
<1>1. /\ UNCHANGED <<algorithm, quantum, input, maxpid, proc, event_queue, ready_queue>>
      /\ UNCHANGED <<size, oldproc, process_running, last_event>>
  BY DEF given, queues
<1>2. Types'
  BY <1>1 DEF SInv, Types, Exists
<1>3. Events' = Events /\ Ready' = Ready /\ Old' = Old
  BY <1>1 DEF Events, Ready, Old
<1>4. Placed(Events, Ready)'
  BY <1>1, <1>3 DEF SInv, Placed, Kept, Places
<1>5. AtMostOneRuns' /\ Ascending(event_queue, Times(proc))'
  BY <1>1 DEF SInv, AtMostOneRuns, Times
<1> QED
  BY <1>2, <1>4, <1>5 DEF SInv

LEMMA ReadingKeeps ==
  ASSUME SInv, add_arriving_procs,
         UNCHANGED <<given, ready_queue, size, process_running, last_event>>
  PROVE  SInv'
<1>0. UNCHANGED <<algorithm, quantum, input, ready_queue, size, process_running, last_event>>
  BY DEF given
<1>1. CASE ~ TimeToRead
  <2>1. UNCHANGED <<proc, maxpid, event_queue, oldproc>>
    BY <1>1 DEF add_arriving_procs
  <2> QED
    BY <1>0, <2>1, Unmoved DEF given, queues
<1>2. CASE TimeToRead
  <2>1. PICK E, R : SInvAt(E, R)
    BY DEF SInv, SInvAt
  <2>2. /\ Types /\ Placed(E, R) /\ AtMostOneRuns
        /\ Ascending(event_queue, Times(proc))
    BY <2>1 DEF SInvAt
  <2> DEFINE next == maxpid + Arriving
             procs == Read(next)
             Far == {q \in maxpid .. next : Exists(q)}
             Ahead == {q \in {next} : Exists(q)}
  <2>0. PICK F : F = Old \cup New
    OBVIOUS
  <2>3. /\ proc' = procs /\ maxpid' = next + 1 /\ oldproc' = ReadAhead(next)
        /\ event_queue' = Joined(Coming, Times(procs))
    BY <1>2 DEF add_arriving_procs
  <2>4. /\ maxpid \in Nat /\ input \in Seq(Lines) /\ Arriving \in Nat
        /\ next \in Nat /\ maxpid <= next
        /\ \A p \in New : Exists(p)
    BY <2>2, ArrivingFound DEF Types
  <2>5. /\ DOMAIN procs = DOMAIN proc \cup Far
        /\ procs = [p \in DOMAIN procs |-> procs[p]]
        /\ \A p \in DOMAIN proc : procs[p] = proc[p]
        /\ \A p \in Far \ DOMAIN proc : procs[p] = NewProcess(p)
    BY DEF Read
  <2> HIDE DEF procs
  <2>6. Far = New \cup Ahead
    <3>1. New = maxpid .. next - 1
      BY <2>4 DEF New
    <3>2. maxpid .. next = (maxpid .. next - 1) \cup {next}
      BY <2>4
    <3> QED
      BY <2>4, <3>1, <3>2
  <2>7. \A p \in Far : p \in Nat /\ maxpid <= p /\ p <= next /\ p \notin DOMAIN proc /\ Exists(p)
    BY <2>2, <2>4 DEF Types
  <2> HIDE DEF next
  <2>8. next \notin New /\ New \subseteq Far
    BY <2>4, <2>6 DEF New, next
  <2> HIDE DEF Far
  <2>9. Old' = Ahead
    BY <2>3, <2>4 DEF Old, ReadAhead, NULL
  <2> HIDE DEF Ahead
  <2>10. \A p \in Far : Sound(procs[p]) /\ procs[p].state = "INIT"
    BY <2>4, <2>5, <2>7, NewIsSound
  <2>11. /\ Holds(event_queue, E) /\ Kept(ready_queue, size, R)
         /\ DOMAIN proc = Old \cup E \cup R
         /\ Old \cap (E \cup R) = {} /\ E \cap R = {}
         /\ \A p \in DOMAIN proc : proc[p].state = "READY" <=> p \in R
         /\ \A p \in Old : proc[p].state = "INIT"
    BY <2>2 DEF Placed
  <2>12. Holds(Coming, F) /\ E \cap F = {}
    <3>1. oldproc \notin New
      <4>1. CASE oldproc = NULL
        BY <2>7, <2>8, <4>1 DEF NULL
      <4>2. CASE oldproc # NULL
        BY <2>7, <2>8, <2>11, <4>2 DEF Old
      <4> QED
        BY <4>1, <4>2
    <3>2. Holds(Coming, F)
      BY <2>0, <2>4, <3>1, ComingHolds
    <3> QED
      BY <2>0, <2>7, <2>8, <2>11, <3>2
  <2>13. \A p \in DOMAIN procs : Sound(procs[p]) /\ procs[p].FT \in Int
    <3>1. \A p \in DOMAIN proc : Sound(proc[p])
      BY <2>2 DEF Types
    <3>2. \A p \in DOMAIN procs : Sound(procs[p])
      BY <2>5, <2>10, <3>1
    <3> QED
      BY <3>2 DEF Sound, Process
  <2>14. Types'
    <3>1. \A p \in DOMAIN procs : p \in Nat /\ p < next + 1 /\ Exists(p)
      BY <2>2, <2>4, <2>5, <2>7 DEF Types
    <3>2. next + 1 \in Nat
      BY <2>4
    <3>3. \A p \in DOMAIN procs : Exists(p)'
      BY <1>0, <3>1 DEF Exists
    <3> QED
      BY <1>0, <2>2, <2>3, <2>5, <2>13, <3>1, <3>2, <3>3 DEF Types
  <2> DEFINE FT == Times(procs)
  <2>15. Holds(event_queue', E \cup F) /\ Ascending(event_queue', FT)
    <3>1. \A e \in DOMAIN procs : FT[e] = procs[e].FT
      BY DEF Times
    <3>2. \A e \in E : Times(proc)[e] = FT[e]
      BY <2>5, <2>11, <3>1 DEF Times
    <3>3. Ascending(event_queue, FT)
      BY <2>2, <2>11, <3>2, AscendingAgrees
    <3>4. E \cup F \subseteq DOMAIN procs
      BY <2>0, <2>5, <2>8, <2>11
    <3> HIDE DEF FT
    <3>5. \A e \in E \cup F : FT[e] \in Int
      BY <2>13, <3>1, <3>4
    <3>6. Holds(Joined(Coming, FT), E \cup F) /\ Ascending(Joined(Coming, FT), FT)
      BY <2>11, <2>12, <3>3, <3>5, JoinsAll
    <3> QED
      BY <2>3, <3>6 DEF FT
  <2>16. Placed(E \cup F, R)'
    <3>1. Kept(ready_queue, size, R)'
      BY <1>0, <2>11 DEF Kept, Places
    <3>2. DOMAIN procs = Ahead \cup (E \cup F) \cup R
      BY <2>0, <2>5, <2>6, <2>11
    <3>3. Ahead \subseteq {next} /\ Ahead \subseteq Far
      BY <2>6 DEF Ahead
    <3>4. Ahead \cap (E \cup F \cup R) = {} /\ (E \cup F) \cap R = {}
      BY <2>0, <2>7, <2>8, <2>11, <3>3
    <3>5. \A p \in DOMAIN procs : procs[p].state = "READY" <=> p \in R
      BY <2>5, <2>7, <2>10, <2>11
    <3>6. \A p \in Ahead : procs[p].state = "INIT"
      BY <2>10, <3>3
    <3>7. /\ Holds(event_queue', E \cup F) /\ DOMAIN proc' = Old' \cup (E \cup F) \cup R
          /\ Old' \cap (E \cup F \cup R) = {}
      BY <2>3, <2>9, <2>15, <3>2, <3>4
    <3>8. /\ \A p \in DOMAIN proc' : proc'[p].state = "READY" <=> p \in R
          /\ \A p \in Old' : proc'[p].state = "INIT"
      BY <2>3, <2>9, <3>5, <3>6
    <3> QED
      BY <3>1, <3>4, <3>7, <3>8 DEF Placed
  <2>17. AtMostOneRuns'
    <3>1. \A q \in DOMAIN procs : procs[q].state = "RUNNING" =>
            q \in DOMAIN proc /\ proc[q].state = "RUNNING"
      BY <2>5, <2>10
    <3>2. CASE process_running
      <4>1. PICK p \in DOMAIN proc : \A q \in DOMAIN proc : proc[q].state = "RUNNING" <=> q = p
        BY <2>2, <3>2 DEF AtMostOneRuns
      <4>2. p \in DOMAIN procs /\ \A q \in DOMAIN procs : procs[q].state = "RUNNING" <=> q = p
        BY <2>5, <3>1, <4>1
      <4> QED
        BY <1>0, <2>3, <3>2, <4>2 DEF AtMostOneRuns
    <3>3. CASE ~ process_running
      BY <1>0, <2>2, <2>3, <3>1, <3>3 DEF AtMostOneRuns
    <3> QED
      BY <3>2, <3>3
  <2>18. SInvAt(E \cup F, R)'
    BY <2>3, <2>14, <2>15, <2>16, <2>17 DEF SInvAt
  <2> QED
    BY <2>18, SInvThen
<1> QED
  BY <1>1, <1>2

-----------------------------------------------------------------------------
(* Events: p, the process of the next one, changes, and goes to its next   *)
(* place.                                                                  *)

LEMMA TypesKept ==
  ASSUME Types, NEW p \in DOMAIN proc, Changed(proc, proc', p), Sound(proc'[p]),
         UNCHANGED <<given, maxpid, last_event>>, size' \in Nat, process_running' \in BOOLEAN
  PROVE  Types'
<1>1. /\ DOMAIN proc' = DOMAIN proc /\ proc' = [q \in DOMAIN proc' |-> proc'[q]]
      /\ \A q \in DOMAIN proc : q # p => proc'[q] = proc[q]
  BY DEF Changed
<1>2. \A q \in DOMAIN proc : Sound(proc'[q])
  BY <1>1 DEF Types
<1>3. UNCHANGED <<algorithm, quantum, input, maxpid, last_event>>
  BY DEF given
<1> QED
  BY <1>1, <1>2, <1>3 DEF Types, Exists

\* The times of the others are what they were: the list of them stays in order.
LEMMA OthersInOrder ==
  ASSUME Types, NEW p \in DOMAIN proc, NEW on, Changed(proc, on, p), Sound(on[p]),
         NEW s, NEW E, Holds(s, E), E \subseteq DOMAIN proc, p \notin E,
         Ascending(s, Times(proc))
  PROVE  /\ Ascending(s, Times(on))
         /\ Holds(Inserted(s, p, Times(on)), E \cup {p})
         /\ Ascending(Inserted(s, p, Times(on)), Times(on))
<1> DEFINE FT == Times(on)
<1>1. /\ \A q \in DOMAIN proc : FT[q] = on[q].FT
      /\ \A q \in DOMAIN proc : q # p => on[q] = proc[q]
  BY DEF Changed, Times
<1>2. \A q \in E : Times(proc)[q] = FT[q]
  BY <1>1 DEF Times
<1>3. \A q \in E \cup {p} : Sound(on[q])
  BY <1>1 DEF Types
<1>4. \A q \in E \cup {p} : FT[q] \in Int
  BY <1>1, <1>3 DEF Sound, Process
<1> HIDE DEF FT
<1>5. Ascending(s, FT)
  BY <1>2, AscendingAgrees
<1>6. /\ Holds(Inserted(s, p, FT), E \cup {p})
      /\ Ascending(Inserted(s, p, FT), FT)
  BY <1>4, <1>5, JoinsList
<1> QED
  BY <1>5, <1>6 DEF FT

LEMMA EventTaken ==
  ASSUME NEW E, NEW R, SInvAt(E, R), Due
  PROVE  LET p == Head(event_queue)
         IN  /\ p \in E /\ p \in DOMAIN proc /\ p \notin R /\ p \notin Old
             /\ Holds(Tail(event_queue), E \ {p})
             /\ Ascending(Tail(event_queue), Times(proc))
<1>1. Holds(event_queue, E) /\ event_queue # << >> /\ Ascending(event_queue, Times(proc))
  BY DEF SInvAt, Placed, Due
<1> DEFINE p == Head(event_queue)
<1>2. /\ p \in E /\ Holds(Tail(event_queue), E \ {p})
      /\ Ascending(Tail(event_queue), Times(proc))
  BY <1>1, LeavesList
<1> HIDE DEF p
<1>3. p \in DOMAIN proc /\ p \notin R /\ p \notin Old
  BY <1>2 DEF SInvAt, Placed
<1> QED
  BY <1>2, <1>3 DEF p

LEMMA LeavingKeeps ==
  ASSUME SInv, Due, leave_cpu(Head(event_queue)),
         UNCHANGED <<given, maxpid, oldproc, last_event>>
  PROVE  SInv'
<1>1. PICK E, R : SInvAt(E, R)
  BY DEF SInv, SInvAt
<1>2. PICK p : p = Head(event_queue)
  OBVIOUS
<1>3. /\ p \in E /\ p \in DOMAIN proc /\ p \notin R /\ p \notin Old
      /\ Holds(Tail(event_queue), E \ {p})
      /\ Ascending(Tail(event_queue), Times(proc))
  BY <1>1, <1>2, EventTaken
<1>4. /\ proc[p].state = "RUNNING" /\ process_running' = FALSE
      /\ UNCHANGED <<ready_queue, size, algorithm, quantum, input, maxpid, oldproc, last_event>>
  BY <1>2 DEF leave_cpu, given
<1>5. /\ Types /\ Placed(E, R)
      /\ \A q \in DOMAIN proc : q # p => proc[q].state # "RUNNING"
  <2>1. Types /\ Placed(E, R) /\ AtMostOneRuns
    BY <1>1 DEF SInvAt
  <2> QED
    BY <1>3, <1>4, <2>1 DEF AtMostOneRuns
<1>6. /\ proc = [q \in DOMAIN proc |-> proc[q]] /\ Sound(proc[p]) /\ size \in Nat
      /\ UNCHANGED <<given, maxpid, last_event>>
  BY <1>3, <1>5 DEF Types
<1>7. Old' = Old /\ Kept(ready_queue, size, R)'
  BY <1>4, <1>5 DEF Old, Placed, Kept, Places
<1>8. CASE finish(p)
  <2>1. /\ proc' = [q \in DOMAIN proc \ {p} |-> proc[q]]
        /\ event_queue' = Tail(event_queue)
    BY <1>8 DEF finish
  <2>2. /\ DOMAIN proc' = DOMAIN proc \ {p} /\ proc' = [q \in DOMAIN proc' |-> proc'[q]]
        /\ \A q \in DOMAIN proc' : proc'[q] = proc[q]
    BY <2>1
  <2>3. Types'
    BY <1>4, <1>5, <2>2 DEF Types, Exists
  <2>4. Placed(E \ {p}, R)'
    BY <1>3, <1>5, <1>7, <2>1, <2>2 DEF Placed
  <2>5. AtMostOneRuns'
    BY <1>4, <1>5, <2>2 DEF AtMostOneRuns
  <2>6. Ascending(event_queue, Times(proc))'
    <3> DEFINE FT == Times(proc)
               GT == Times(proc')
    <3>1. \A q \in E \ {p} : FT[q] = GT[q]
      BY <1>5, <2>2 DEF Times, Placed
    <3> HIDE DEF FT, GT
    <3>2. Ascending(Tail(event_queue), GT)
      BY <1>3, <3>1, AscendingAgrees DEF FT
    <3> QED
      BY <2>1, <3>2 DEF GT
  <2>7. SInvAt(E \ {p}, R)'
    BY <2>3, <2>4, <2>5, <2>6 DEF SInvAt
  <2> QED
    BY <2>7, SInvThen
<1>9. CASE ~ finish(p)
  <2>1. /\ event_queue' = Inserted(Tail(event_queue), p, Times(proc'))
        /\ \/ proc' = Preempted(p)
           \/ \E drawn \in Draws(proc[p].IO) : proc' = Blocked(p, drawn)
    BY <1>2, <1>9 DEF leave_cpu
  <2>2. /\ Changed(proc, proc', p) /\ Sound(proc'[p])
        /\ proc'[p].state \in {"PREEMPTED", "BLOCKED"}
    <3>1. CASE proc' = Preempted(p)
      BY <1>3, <1>4, <1>6, <3>1, StopsSoundly
    <3>2. CASE \E drawn \in Draws(proc[p].IO) : proc' = Blocked(p, drawn)
      BY <1>3, <1>4, <1>6, <3>2, StopsSoundly
    <3> QED
      BY <2>1, <3>1, <3>2
  <2>3. Types'
    BY <1>3, <1>4, <1>5, <1>6, <2>2, TypesKept
  <2>4. /\ DOMAIN proc' = DOMAIN proc
        /\ \A q \in DOMAIN proc : q # p => proc'[q] = proc[q]
    BY <2>2 DEF Changed
  <2>5. Holds(event_queue', E) /\ Ascending(event_queue', Times(proc'))
    <3>1. E \ {p} \subseteq DOMAIN proc /\ (E \ {p}) \cup {p} = E
      BY <1>3, <1>5 DEF Placed
    <3>2. PICK on : on = proc'
      OBVIOUS
    <3>3. /\ Holds(Inserted(Tail(event_queue), p, Times(on)), (E \ {p}) \cup {p})
          /\ Ascending(Inserted(Tail(event_queue), p, Times(on)), Times(on))
      BY <1>3, <1>5, <2>2, <3>1, <3>2, OthersInOrder
    <3> QED
      BY <2>1, <3>1, <3>2, <3>3
  <2>6. Placed(E, R)'
    <3>1. \A q \in DOMAIN proc : proc'[q].state = "READY" <=> q \in R
      BY <1>3, <1>5, <2>2, <2>4 DEF Placed
    <3>2. \A q \in Old : proc'[q].state = "INIT"
      BY <1>3, <1>5, <2>4 DEF Placed
    <3> QED
      BY <1>5, <1>7, <2>4, <2>5, <3>1, <3>2 DEF Placed
  <2>7. AtMostOneRuns'
    BY <1>4, <1>5, <2>2, <2>4 DEF AtMostOneRuns
  <2>8. SInvAt(E, R)'
    BY <2>3, <2>5, <2>6, <2>7 DEF SInvAt
  <2> QED
    BY <2>8, SInvThen
<1> QED
  BY <1>8, <1>9

LEMMA ReadyingKeeps ==
  ASSUME SInv, Due, become_ready(Head(event_queue)),
         UNCHANGED <<given, maxpid, oldproc, last_event>>
  PROVE  SInv'
<1>1. PICK E, R : SInvAt(E, R)
  BY DEF SInv, SInvAt
<1>2. PICK p : p = Head(event_queue)
  OBVIOUS
<1>3. /\ p \in E /\ p \in DOMAIN proc /\ p \notin R /\ p \notin Old
      /\ Holds(Tail(event_queue), E \ {p})
      /\ Ascending(Tail(event_queue), Times(proc))
  BY <1>1, <1>2, EventTaken
<1>4. PICK TC : /\ ready_queue' = PutIn(p, TC) /\ size' = size + 1
                /\ proc' = IF algorithm = "R" THEN RR_quantum(p, AfterIO(p)) ELSE AfterIO(p)
  BY <1>2 DEF become_ready, put_event, PutIn
<1>5. /\ proc[p].state \in {"BLOCKED", "PREEMPTED", "INIT"}
      /\ event_queue' = Tail(event_queue)
      /\ UNCHANGED <<process_running, algorithm, quantum, input, maxpid, oldproc, last_event>>
  BY <1>2 DEF become_ready, given
<1>6. /\ Types /\ Placed(E, R) /\ AtMostOneRuns
      /\ proc = [q \in DOMAIN proc |-> proc[q]] /\ Sound(proc[p]) /\ quantum \in Nat
      /\ size \in Nat /\ size' \in Nat /\ process_running' \in BOOLEAN
      /\ algorithm \in {"F", "L", "S", "R"}
  BY <1>1, <1>3, <1>4, <1>5 DEF SInvAt, Types
<1>7. Changed(proc, proc', p) /\ Sound(proc'[p]) /\ proc'[p].state = "READY"
  BY <1>3, <1>4, <1>5, <1>6, WaitsSoundly
<1>8. Types'
  BY <1>3, <1>5, <1>6, <1>7, TypesKept DEF given
<1>9. /\ DOMAIN proc' = DOMAIN proc
      /\ \A q \in DOMAIN proc : q # p => proc'[q] = proc[q]
  BY <1>7 DEF Changed
<1>10. Kept(ready_queue, size, R \cup {p})'
  <2>1. Kept(PutIn(p, TC), size + 1, R \cup {p})
    BY <1>3, <1>6, PutKeeps DEF Placed
  <2> QED
    BY <1>4, <1>5, <2>1 DEF Kept, Places
<1>11. Placed(E \ {p}, R \cup {p})'
  <2>1. Old' = Old
    BY <1>5 DEF Old
  <2>2. \A q \in DOMAIN proc : proc'[q].state = "READY" <=> q \in R \cup {p}
    BY <1>6, <1>7, <1>9 DEF Placed
  <2>3. \A q \in Old : proc'[q].state = "INIT"
    BY <1>3, <1>6, <1>9 DEF Placed
  <2>4. /\ Old \cap ((E \ {p}) \cup (R \cup {p})) = {}
        /\ (E \ {p}) \cap (R \cup {p}) = {}
        /\ DOMAIN proc = Old \cup (E \ {p}) \cup (R \cup {p})
    BY <1>3, <1>6 DEF Placed
  <2> QED
    BY <1>3, <1>5, <1>9, <1>10, <2>1, <2>2, <2>3, <2>4 DEF Placed
<1>12. AtMostOneRuns'
  <2>1. \A q \in DOMAIN proc : proc'[q].state = "RUNNING" <=> proc[q].state = "RUNNING"
    BY <1>5, <1>7, <1>9
  <2> QED
    BY <1>5, <1>6, <1>9, <2>1 DEF AtMostOneRuns
<1>13. Ascending(event_queue, Times(proc))'
  <2>1. PICK on : on = proc'
    OBVIOUS
  <2>2. E \ {p} \subseteq DOMAIN proc
    BY <1>6 DEF Placed
  <2>3. Ascending(Tail(event_queue), Times(on))
    BY <1>3, <1>6, <1>7, <2>1, <2>2, OthersInOrder
  <2> QED
    BY <1>5, <2>1, <2>3
<1>14. SInvAt(E \ {p}, R \cup {p})'
  BY <1>8, <1>11, <1>12, <1>13 DEF SInvAt
<1> QED
  BY <1>14, SInvThen

LEMMA DispatchKeeps ==
  ASSUME SInv, Idle, run_process, UNCHANGED <<given, maxpid, last_event>>
  PROVE  SInv'
<1>1. PICK E, R : SInvAt(E, R)
  BY DEF SInv, SInvAt
<1>2. /\ Types /\ Placed(E, R) /\ AtMostOneRuns /\ Ascending(event_queue, Times(proc))
      /\ size \in Nat /\ Kept(ready_queue, size, R)
  BY <1>1 DEF SInvAt, Types, Placed
<1>3. CASE DOMAIN ready_queue = {}
  <2>1. UNCHANGED <<proc, queues, process_running>>
    BY <1>3 DEF run_process
  <2> QED
    BY <2>1, Unmoved
<1>4. CASE DOMAIN ready_queue # {}
  <2>1. size \in Nat \ {0}
    BY <1>2, <1>4, SlotsCount
  <2>2. PICK p : p = Chosen
    OBVIOUS
  <2>3. PICK drawn \in Draws(proc[p].CB) :
          /\ proc' = Running(p, drawn) /\ ready_queue' = Rest
          /\ size' = IF size > 0 THEN size - 1 ELSE 0
          /\ event_queue' = Inserted(event_queue, p, Times(Running(p, drawn)))
          /\ process_running' = TRUE /\ UNCHANGED oldproc
    BY <1>4, <2>2 DEF run_process
  <2>4. p \in R /\ Kept(Rest, size - 1, R \ {p})
    BY <1>2, <2>1, <2>2, TakeKeeps DEF Types
  <2>5. /\ size' = size - 1 /\ size' \in Nat /\ process_running' \in BOOLEAN
        /\ UNCHANGED <<algorithm, quantum, input, maxpid, last_event, oldproc>>
    BY <2>1, <2>3 DEF given
  <2>6. /\ p \in DOMAIN proc /\ p \notin E /\ p \notin Old /\ proc[p].state = "READY"
        /\ \A q \in DOMAIN proc : proc[q].state # "RUNNING"
    BY <1>2, <2>4 DEF Placed, AtMostOneRuns, Idle
  <2>7. /\ proc = [q \in DOMAIN proc |-> proc[q]] /\ Sound(proc[p])
        /\ last_event \in Nat
    BY <1>2, <2>6 DEF Types
  <2>8. PICK on : on = Running(p, drawn)
    OBVIOUS
  <2>9. Changed(proc, on, p) /\ Sound(on[p]) /\ on[p].state = "RUNNING" /\ proc' = on
    BY <2>3, <2>6, <2>7, <2>8, RunsSoundly
  <2>10. Types'
    BY <1>2, <2>5, <2>6, <2>9, TypesKept
  <2>11. /\ DOMAIN on = DOMAIN proc
         /\ \A q \in DOMAIN proc : q # p => on[q] = proc[q]
    BY <2>9 DEF Changed
  <2>12. Holds(event_queue', E \cup {p}) /\ Ascending(event_queue', Times(proc'))
    <3>1. Holds(event_queue, E) /\ E \subseteq DOMAIN proc
      BY <1>2 DEF Placed
    <3>2. /\ Holds(Inserted(event_queue, p, Times(on)), E \cup {p})
          /\ Ascending(Inserted(event_queue, p, Times(on)), Times(on))
      BY <1>2, <2>6, <2>9, <3>1, OthersInOrder
    <3> QED
      BY <2>3, <2>8, <2>9, <3>2
  <2>13. Placed(E \cup {p}, R \ {p})'
    <3>1. Old' = Old
      BY <2>5 DEF Old
    <3>2. Kept(ready_queue, size, R \ {p})'
      BY <2>3, <2>4, <2>5 DEF Kept, Places
    <3>3. \A q \in DOMAIN proc : on[q].state = "READY" <=> q \in R \ {p}
      BY <1>2, <2>9, <2>11 DEF Placed
    <3>4. \A q \in Old : on[q].state = "INIT"
      BY <1>2, <2>6, <2>11 DEF Placed
    <3>5. /\ Old \cap ((E \cup {p}) \cup (R \ {p})) = {}
          /\ (E \cup {p}) \cap (R \ {p}) = {}
          /\ DOMAIN proc = Old \cup (E \cup {p}) \cup (R \ {p})
      BY <1>2, <2>4, <2>6 DEF Placed
    <3> QED
      BY <2>9, <2>11, <2>12, <3>1, <3>2, <3>3, <3>4, <3>5 DEF Placed
  <2>14. AtMostOneRuns'
    BY <2>3, <2>6, <2>9, <2>11 DEF AtMostOneRuns
  <2>15. SInvAt(E \cup {p}, R \ {p})'
    BY <2>10, <2>12, <2>13, <2>14 DEF SInvAt
  <2> QED
    BY <2>15, SInvThen
<1> QED
  BY <1>3, <1>4
-----------------------------------------------------------------------------
LEMMA StartsSound ==
  ASSUME Init
  PROVE  SInv
<1>1. /\ maxpid = 0 /\ proc = << >> /\ oldproc = NULL
      /\ event_queue = << >> /\ ready_queue = << >> /\ size = 0
      /\ process_running = FALSE /\ last_event = 0
  BY DEF Init
<1>2. algorithm \in {"F", "L", "S", "R"} /\ quantum \in Nat
  BY SchedulerAssumption DEF Init
<1>3. input \in Seq(Lines)
  <2>1. PICK n \in 0 .. MaxProcs : input \in [1 .. n -> Lines]
    BY DEF Init, Inputs
  <2>2. n \in Nat
    BY SchedulerAssumption
  <2> QED
    BY <2>1, <2>2
<1>4. DOMAIN << >> = {} /\ << >> = [p \in {} |-> << >>[p]] /\ << >> \in [{} -> {}]
  OBVIOUS
<1>5. Types
  BY <1>1, <1>2, <1>3, <1>4 DEF Types
<1>6. Holds(event_queue, {}) /\ Kept(ready_queue, size, {})
  <2>1. << >> \in Seq({}) /\ Len(<< >>) = 0
    OBVIOUS
  <2>2. Holds(<< >>, {})
    BY <2>1 DEF Holds
  <2>3. Places(0) = {}
    BY DEF Places
  <2> QED
    BY <1>1, <1>4, <2>2, <2>3 DEF Kept, Once
<1>7. Placed({}, {})
  BY <1>1, <1>4, <1>6 DEF Placed, Old
<1>8. Placed(Events, Ready)
  BY <1>1, <1>7, PlacesAreSets
<1>9. AtMostOneRuns /\ Ascending(event_queue, Times(proc))
  BY <1>1, <1>4 DEF AtMostOneRuns, Ascending
<1> QED
  BY <1>5, <1>8, <1>9 DEF SInv

LEMMA StaysSound ==
  ASSUME SInv, [Next]_svars
  PROVE  SInv'
<1>1. CASE Begin
  BY <1>1, ReadingKeeps DEF Begin, clock
<1>2. CASE Advance
  <2>1. /\ UNCHANGED <<algorithm, quantum, input, maxpid, proc, event_queue, ready_queue>>
        /\ UNCHANGED <<size, oldproc, process_running>>
        /\ last_event' = IF event_queue = << >> THEN last_event
                         ELSE proc[Head(event_queue)].FT
    BY <1>2 DEF Advance, given, queues
  <2>2. PICK E, R : SInvAt(E, R)
    BY DEF SInv, SInvAt
  <2>3. last_event' \in Nat
    <3>1. CASE event_queue = << >>
      BY <2>1, <3>1 DEF SInv, Types
    <3>2. CASE event_queue # << >>
      <4>1. Holds(event_queue, E) /\ E \subseteq DOMAIN proc
        BY <2>2 DEF SInvAt, Placed
      <4>2. Head(event_queue) \in DOMAIN proc
        BY <3>2, <4>1, LeavesList
      <4>3. proc[Head(event_queue)].FT \in Nat
        BY <4>2 DEF SInv, Types, Sound, Process
      <4> QED
        BY <2>1, <3>2, <4>3
    <3> QED
      BY <3>1, <3>2
  <2>4. Types'
    BY <2>1, <2>3 DEF SInv, Types, Exists
  <2>5. Placed(E, R)' /\ AtMostOneRuns' /\ Ascending(event_queue, Times(proc))'
    BY <2>1, <2>2 DEF SInvAt, Placed, Old, Kept, Places, AtMostOneRuns, Times
  <2>6. SInvAt(E, R)'
    BY <2>4, <2>5 DEF SInvAt
  <2> QED
    BY <2>6, SInvThen
<1>3. CASE transition_process
  <2>1. /\ Due /\ UNCHANGED <<given, maxpid, oldproc, last_event>>
        /\ leave_cpu(Head(event_queue)) \/ become_ready(Head(event_queue))
    BY <1>3 DEF transition_process
  <2>2. CASE leave_cpu(Head(event_queue))
    BY <2>1, <2>2, LeavingKeeps
  <2>3. CASE become_ready(Head(event_queue))
    BY <2>1, <2>3, ReadyingKeeps
  <2> QED
    BY <2>1, <2>2, <2>3
<1>4. CASE Dispatch
  <2>1. UNCHANGED <<given, maxpid, last_event>>
    BY <1>4 DEF Dispatch, clock
  <2>2. CASE Idle
    BY <1>4, <2>1, <2>2, DispatchKeeps DEF Dispatch
  <2>3. CASE ~ Idle
    BY <1>4, <2>1, <2>3, Unmoved DEF Dispatch
  <2> QED
    BY <2>2, <2>3
<1>5. CASE Arrivals
  <2>1. UNCHANGED <<given, ready_queue, size, process_running, last_event>>
    BY <1>5 DEF Arrivals, clock
  <2>2. CASE reading_input
    BY <1>5, <2>1, <2>2, ReadingKeeps DEF Arrivals
  <2>3. CASE ~ reading_input
    <3>1. UNCHANGED <<maxpid, proc, event_queue, oldproc>>
      BY <1>5, <2>3 DEF Arrivals
    <3> QED
      BY <2>1, <3>1, Unmoved DEF queues
  <2> QED
    BY <2>2, <2>3
<1>6. CASE UNCHANGED svars
  BY <1>6, Unmoved DEF svars, clock
<1> QED
  BY <1>1, <1>2, <1>3, <1>4, <1>5, <1>6 DEF Next, Ended

LEMMA SchedulerSound == Spec => []SInv
<1>1. Init => SInv
  BY StartsSound
<1>2. SInv /\ [Next]_svars => SInv'
  BY StaysSound
<1> QED
  BY <1>1, <1>2, PTL DEF Spec

(* Every process that was read and has not finished is in exactly one      *)
(* place: read ahead, in the event queue or in the ready queue, whichever  *)
(* of the four policies keeps that one, the heap of SJF whose get runs     *)
(* behind its last place included; and at most one process runs.           *)
THEOREM EachAlwaysInOnePlace == Spec => []EachInOnePlace
<1>1. SInv => EachInOnePlace
  BY SInvImplies
<1> QED
  BY <1>1, SchedulerSound, PTL

(* The event taken next is always one of the earliest: the list is in the  *)
(* order of finishing times whatever changes them, and nothing changes     *)
(* that of a process while it is in the list.                              *)
THEOREM EventsAlwaysInOrder == Spec => []EventsInOrder
<1>1. SInv => EventsInOrder
  BY SInvImplies
<1> QED
  BY <1>1, SchedulerSound, PTL

(* A process never gets more of the CPU than its total, and its time is    *)
(* its arrival plus what it used of the CPU and of IO.                     *)
THEOREM TimeIsAlwaysUse == Spec => []TimeIsUse
<1>1. SInv => TimeIsUse
  BY SInvImplies
<1> QED
  BY <1>1, SchedulerSound, PTL

-----------------------------------------------------------------------------
(* What is left of each process: while the loop runs, those read are in    *)
(* proc or have printed their line; the loop cannot end while one is left. *)

Entry == [pid : Nat, AT : Nat, TC : Nat, FT : Nat, IT : Nat, CW : Int]

Names(lines) == [i \in 1 .. Len(lines) |-> lines[i].pid]

\* A line says what the input says of the process, and that its time is use.
TrueLine(l) == /\ l.FT = l.AT + l.TC + l.IT
               /\ l.AT = input[l.pid + 1].AT /\ l.TC = input[l.pid + 1].TC

Told(P) ==
  /\ printed \in Seq(Entry) /\ Holds(Names(printed), P)
  /\ \A i \in 1 .. Len(printed) : TrueLine(printed[i])
  /\ P \cap DOMAIN proc = {}
  /\ P \cup DOMAIN proc = {p \in 0 .. maxpid - 1 : Exists(p)}

AsRead == \A p \in DOMAIN proc :
            proc[p].AT = input[p + 1].AT /\ proc[p].TC = input[p + 1].TC

ReadsOn ==
  /\ maxpid = IF oldproc # NULL THEN oldproc + 1
              ELSE IF pc = "first" THEN 0 ELSE Len(input) + 1
  /\ pc # "first" => (reading_input <=> oldproc # NULL)

GoesOnToTheEnd ==
  /\ pc = "first" => event_queue = << >> /\ oldproc = NULL
  /\ pc = "arrivals" /\ event_queue = << >> => size = 0
  /\ pc = "end" => event_queue = << >> /\ size = 0 /\ oldproc = NULL

TInv == /\ SInv /\ AsRead /\ ReadsOn /\ GoesOnToTheEnd
        /\ \E P : Told(P)

LEMMA OthersAreEvents ==
  (SInv => \A p \in DOMAIN proc :
             p # oldproc /\ proc[p].state # "READY" => event_queue # << >>)'
<1>1. SInv => \A p \in DOMAIN proc :
                p # oldproc /\ proc[p].state # "READY" => event_queue # << >>
  <2> SUFFICES ASSUME SInv, NEW p \in DOMAIN proc, p # oldproc, proc[p].state # "READY",
                      event_queue = << >>
               PROVE  FALSE
    OBVIOUS
  <2>1. PICK E, R : SInvAt(E, R)
    BY DEF SInv, SInvAt
  <2>2. p \in E /\ Holds(<< >>, E)
    BY <2>1 DEF SInvAt, Placed, Old
  <2> QED
    BY <2>2 DEF Holds
<1> QED
  BY <1>1, PTL

LEMMA RunningIsEvent == (SInv /\ process_running => event_queue # << >>)'
<1>1. SInv /\ process_running => event_queue # << >>
  <2> SUFFICES ASSUME SInv, process_running, event_queue = << >>
               PROVE  FALSE
    OBVIOUS
  <2>1. PICK E, R : SInvAt(E, R)
    BY DEF SInv, SInvAt
  <2>2. PICK p \in DOMAIN proc : proc[p].state = "RUNNING"
    BY <2>1 DEF SInvAt, AtMostOneRuns
  <2>3. p \in E /\ Holds(<< >>, E)
    BY <2>1, <2>2 DEF SInvAt, Placed
  <2> QED
    BY <2>3 DEF Holds
<1> QED
  BY <1>1, PTL

\* One more line: its process joins those that have printed theirs.
LEMMA OneMoreTold ==
  ASSUME NEW s \in Seq(Entry), NEW P, Holds(Names(s), P), NEW l \in Entry, l.pid \notin P
  PROVE  LET t == Append(s, l)
         IN  /\ t \in Seq(Entry) /\ Holds(Names(t), P \cup {l.pid})
             /\ Len(t) = Len(s) + 1 /\ t[Len(s) + 1] = l
             /\ \A i \in 1 .. Len(s) : t[i] = s[i]
<1> DEFINE t == Append(s, l)
           n == Len(s)
           F == P \cup {l.pid}
           a == Names(s)
           b == Names(t)
<1>1. /\ t \in Seq(Entry) /\ Len(t) = n + 1 /\ n \in Nat /\ t[n + 1] = l
      /\ \A i \in 1 .. n : t[i] = s[i]
  BY AppendProperties, LenProperties
<1> HIDE DEF t
<1>2. a = [i \in 1 .. n |-> s[i].pid] /\ b = [i \in 1 .. n + 1 |-> t[i].pid]
  BY <1>1 DEF Names
<1>3. /\ \A i \in 1 .. n : b[i] = a[i] /\ i \in 1 .. n + 1
      /\ b[n + 1] = l.pid /\ n + 1 \in 1 .. n + 1
      /\ \A i \in 1 .. n + 1 : i \in 1 .. n \/ i = n + 1
  BY <1>1, <1>2
<1>4. /\ Len(a) = n
      /\ \A i \in 1 .. n : a[i] \in P
      /\ \A e \in P : \E i \in 1 .. n : a[i] = e
      /\ \A i, j \in 1 .. n : a[i] = a[j] => i = j
  <2> HIDE DEF a
  <2>1. a \in Seq(P)
    BY DEF Holds, a
  <2>2. Len(a) \in Nat /\ DOMAIN a = 1 .. Len(a)
    BY <2>1, LenProperties
  <2>3. Len(a) = n
    BY <1>1, <1>2, <2>2
  <2>4. \A i \in 1 .. n : a[i] \in P
    BY <2>1, <2>3
  <2> QED
    BY <2>3, <2>4 DEF Holds, a
<1> HIDE DEF a, b, n
<1>5. b \in [1 .. n + 1 -> F]
  BY <1>2, <1>3, <1>4
<1>6. b \in Seq(F) /\ Len(b) = n + 1
  <2>1. b \in Seq(F)
    BY <1>1, <1>5
  <2>2. Len(b) \in Nat /\ DOMAIN b = 1 .. Len(b)
    BY <2>1, LenProperties
  <2> QED
    BY <1>1, <1>5, <2>1, <2>2
<1>7. \A e \in F : \E i \in 1 .. n + 1 : b[i] = e
  BY <1>3, <1>4
<1>8. \A i, j \in 1 .. n + 1 : b[i] = b[j] => i = j
  BY <1>3, <1>4
<1>9. Holds(b, F)
  BY <1>6, <1>7, <1>8 DEF Holds
<1> QED
  BY <1>1, <1>9 DEF t, n, b

LEMMA SameInput ==
  ASSUME NEW p \in DOMAIN proc, Sound(proc[p])
  PROVE  /\ \A drawn : /\ Running(p, drawn)[p].AT = proc[p].AT
                       /\ Running(p, drawn)[p].TC = proc[p].TC
                       /\ Blocked(p, drawn)[p].AT = proc[p].AT
                       /\ Blocked(p, drawn)[p].TC = proc[p].TC
         /\ Preempted(p)[p].AT = proc[p].AT /\ Preempted(p)[p].TC = proc[p].TC
         /\ LET on == IF algorithm = "R" THEN RR_quantum(p, AfterIO(p)) ELSE AfterIO(p)
            IN  on[p].AT = proc[p].AT /\ on[p].TC = proc[p].TC
<1> DEFINE r == proc[p]
<1>0. DOMAIN r = DOMAIN [AT |-> 0, TC |-> 0, CB |-> 0, IO |-> 0, FT |-> 0, IT |-> 0,
                         CW |-> 0, cpu_time |-> 0, runtime |-> 0, preempt_after |-> 0,
                         preempted |-> 0, state |-> 0]
  BY DEF Sound, Process
<1>1. ASSUME NEW drawn
      PROVE  /\ Running(p, drawn)[p].AT = r.AT /\ Running(p, drawn)[p].TC = r.TC
             /\ Blocked(p, drawn)[p].AT = r.AT /\ Blocked(p, drawn)[p].TC = r.TC
  <2>1. Running(p, drawn)[p].AT = r.AT /\ Running(p, drawn)[p].TC = r.TC
    BY <1>0 DEF Running
  <2>2. Blocked(p, drawn)[p].AT = r.AT /\ Blocked(p, drawn)[p].TC = r.TC
    BY <1>0 DEF Blocked
  <2> QED
    BY <2>1, <2>2
<1>2. Preempted(p)[p].AT = r.AT /\ Preempted(p)[p].TC = r.TC
  BY <1>0 DEF Preempted
<1> DEFINE on == AfterIO(p)
<1>3. /\ p \in DOMAIN on /\ "AT" \in DOMAIN on[p] /\ "TC" \in DOMAIN on[p]
      /\ on[p].AT = r.AT /\ on[p].TC = r.TC
  BY <1>0 DEF AfterIO
<1> HIDE DEF on, r
<1>4. RR_quantum(p, on)[p].AT = r.AT /\ RR_quantum(p, on)[p].TC = r.TC
  BY <1>3 DEF RR_quantum
<1> QED
  BY <1>1, <1>2, <1>3, <1>4 DEF on, r

LEMMA NothingTold ==
  ASSUME NEW P, AsRead, Told(P),
         UNCHANGED <<given, maxpid, printed>>,
         DOMAIN proc' = DOMAIN proc,
         \A q \in DOMAIN proc : proc'[q].AT = proc[q].AT /\ proc'[q].TC = proc[q].TC
  PROVE  AsRead' /\ Told(P)'
<1>1. input' = input /\ maxpid' = maxpid /\ printed' = printed
  BY DEF given
<1>2. AsRead'
  BY <1>1 DEF AsRead
<1>3. {p \in 0 .. maxpid - 1 : Exists(p)}' = {p \in 0 .. maxpid - 1 : Exists(p)}
  BY <1>1 DEF Exists
<1>4. \A i \in 1 .. Len(printed) : TrueLine(printed[i])'
  BY <1>1 DEF Told, TrueLine
<1>5. /\ printed' \in Seq(Entry) /\ Holds(Names(printed'), P)
      /\ P \cap DOMAIN proc' = {}
      /\ P \cup DOMAIN proc' = {p \in 0 .. maxpid - 1 : Exists(p)}'
      /\ \A i \in 1 .. Len(printed') : TrueLine(printed[i])'
  BY <1>1, <1>3, <1>4 DEF Told
<1> QED
  BY <1>2, <1>5 DEF Told

LEMMA LineIsTrue ==
  ASSUME NEW p \in DOMAIN proc, Types, AsRead, Finishing(p), proc[p].state = "RUNNING"
  PROVE  Line(p) \in Entry /\ TrueLine(Line(p)) /\ Line(p).pid = p
<1> DEFINE r == proc[p]
<1>1. p \in Nat /\ r \in Process /\ AddsUp(r)
  BY DEF Types, Sound
<1>2. /\ r.cpu_time = r.TC /\ r.state # "BLOCKED"
      /\ r.AT = input[p + 1].AT /\ r.TC = input[p + 1].TC
  BY DEF Finishing, AsRead
<1> HIDE DEF r
<1>3. r.FT = r.AT + r.TC + r.IT
  BY <1>1, <1>2 DEF AddsUp, Process
<1>4. Line(p) = [pid |-> p, AT |-> r.AT, TC |-> r.TC, FT |-> r.FT, IT |-> r.IT, CW |-> r.CW]
  BY DEF Line, r
<1> QED
  BY <1>1, <1>2, <1>3, <1>4 DEF Process, Entry, TrueLine

LEMMA EventTells ==
  ASSUME TInv, transition_process
  PROVE  AsRead' /\ \E P : Told(P)'
<1>1. PICK E, R : SInvAt(E, R)
  BY DEF TInv, SInv, SInvAt
<1>2. PICK P : Told(P)
  BY DEF TInv
<1>3. PICK p : p = Head(event_queue)
  OBVIOUS
<1>4. /\ Types /\ AsRead /\ p \in DOMAIN proc /\ Sound(proc[p])
      /\ proc = [q \in DOMAIN proc |-> proc[q]] /\ quantum \in Nat
  <2>1. p \in DOMAIN proc
    BY <1>1, <1>3, EventTaken DEF transition_process
  <2> QED
    BY <2>1 DEF TInv, SInv, Types
<1>5. UNCHANGED <<given, maxpid, oldproc>> /\ (leave_cpu(p) \/ become_ready(p))
  BY <1>3 DEF transition_process
<1>6. ASSUME Changed(proc, proc', p), UNCHANGED printed,
             proc'[p].AT = proc[p].AT /\ proc'[p].TC = proc[p].TC
      PROVE  AsRead' /\ \E Q : Told(Q)'
  <2>1. /\ DOMAIN proc' = DOMAIN proc
        /\ \A q \in DOMAIN proc : proc'[q].AT = proc[q].AT /\ proc'[q].TC = proc[q].TC
    BY <1>6 DEF Changed
  <2>2. AsRead' /\ Told(P)'
    BY <1>2, <1>4, <1>5, <1>6, <2>1, NothingTold
  <2> QED
    BY <2>2
<1>7. CASE leave_cpu(p) /\ Finishing(p) /\ finish(p)
  <2>1. /\ proc' = [q \in DOMAIN proc \ {p} |-> proc[q]]
        /\ printed' = Append(printed, Line(p))
        /\ input' = input /\ maxpid' = maxpid
    BY <1>5, <1>7 DEF finish, given
  <2>2. Line(p) \in Entry /\ TrueLine(Line(p)) /\ Line(p).pid = p
    BY <1>4, <1>7, LineIsTrue DEF leave_cpu
  <2>3. /\ printed \in Seq(Entry) /\ Holds(Names(printed), P) /\ p \notin P
        /\ P \cap DOMAIN proc = {}
        /\ P \cup DOMAIN proc = {q \in 0 .. maxpid - 1 : Exists(q)}
        /\ \A i \in 1 .. Len(printed) : TrueLine(printed[i])
    BY <1>2, <1>4 DEF Told
  <2> DEFINE n == Len(printed)
  <2>4. /\ printed' \in Seq(Entry) /\ Holds(Names(printed'), P \cup {p})
        /\ Len(printed') = n + 1 /\ printed'[n + 1] = Line(p)
        /\ \A i \in 1 .. n : printed'[i] = printed[i]
    BY <2>1, <2>2, <2>3, OneMoreTold
  <2>5. n \in Nat
    BY <2>3, LenProperties
  <2> HIDE DEF n
  <2>6. \A l : TrueLine(l)' <=> TrueLine(l)
    BY <2>1 DEF TrueLine
  <2>7. \A i \in 1 .. Len(printed') : TrueLine(printed[i])'
    <3> SUFFICES ASSUME NEW i \in 1 .. n + 1
                 PROVE  TrueLine(printed'[i])
      BY <2>1, <2>4 DEF TrueLine
    <3>1. i \in 1 .. n \/ i = n + 1
      BY <2>5
    <3> QED
      BY <2>2, <2>3, <2>4, <3>1 DEF n
  <2>8. AsRead'
    BY <1>4, <2>1 DEF AsRead
  <2>9. /\ (P \cup {p}) \cap DOMAIN proc' = {}
        /\ (P \cup {p}) \cup DOMAIN proc' = {q \in 0 .. maxpid - 1 : Exists(q)}'
    BY <1>4, <2>1, <2>3 DEF Exists
  <2>10. Told(P \cup {p})'
    BY <2>4, <2>7, <2>9 DEF Told
  <2> QED
    BY <2>8, <2>10
<1>8. CASE leave_cpu(p) /\ ~ (Finishing(p) /\ finish(p))
  <2>1. /\ proc[p].state = "RUNNING" /\ UNCHANGED printed
        /\ \/ proc' = Preempted(p)
           \/ \E drawn \in Draws(proc[p].IO) : proc' = Blocked(p, drawn)
    BY <1>8 DEF leave_cpu
  <2>2. Changed(proc, proc', p)
    BY <1>4, <2>1, StopsSoundly
  <2>3. proc'[p].AT = proc[p].AT /\ proc'[p].TC = proc[p].TC
    BY <1>4, <2>1, SameInput
  <2> QED
    BY <1>6, <2>1, <2>2, <2>3
<1>9. CASE become_ready(p)
  <2>1. /\ proc[p].state \in {"BLOCKED", "PREEMPTED", "INIT"} /\ UNCHANGED printed
        /\ proc' = IF algorithm = "R" THEN RR_quantum(p, AfterIO(p)) ELSE AfterIO(p)
    BY <1>9 DEF become_ready, put_event
  <2>2. Changed(proc, proc', p)
    BY <1>4, <2>1, WaitsSoundly
  <2>3. proc'[p].AT = proc[p].AT /\ proc'[p].TC = proc[p].TC
    BY <1>4, <2>1, SameInput
  <2> QED
    BY <1>6, <2>1, <2>2, <2>3
<1> QED
  BY <1>5, <1>7, <1>8, <1>9

LEMMA DispatchTells ==
  ASSUME TInv, SInv', Dispatch
  PROVE  /\ AsRead' /\ \E P : Told(P)'
         /\ event_queue' = << >> => size' = 0
<1>1. PICK E, R : SInvAt(E, R)
  BY DEF TInv, SInv, SInvAt
<1>2. PICK P : Told(P)
  BY DEF TInv
<1>3. UNCHANGED <<given, maxpid, printed>>
  BY DEF Dispatch
<1>4. CASE UNCHANGED <<proc, queues, process_running>>
             /\ (process_running \/ DOMAIN ready_queue = {})
  <2>1. AsRead' /\ Told(P)'
    BY <1>2, <1>3, <1>4, NothingTold DEF TInv
  <2>2. CASE process_running
    BY <1>4, <2>1, <2>2, RunningIsEvent
  <2>3. CASE DOMAIN ready_queue = {}
    <3>1. size = 0
      BY <1>1, <2>3, SlotsCount DEF SInvAt, Types, Placed
    <3> QED
      BY <1>4, <2>1, <3>1 DEF queues
  <2> QED
    BY <1>4, <2>2, <2>3
<1>5. CASE ~ process_running /\ DOMAIN ready_queue # {}
  <2>1. PICK p : p = Chosen
    OBVIOUS
  <2>2. PICK drawn \in Draws(proc[p].CB) :
          proc' = Running(p, drawn) /\ process_running' = TRUE
    BY <1>5, <2>1 DEF Dispatch, Idle, run_process
  <2>3. p \in R
    <3>1. size \in Nat \ {0} /\ Kept(ready_queue, size, R)
      BY <1>1, <1>5, SlotsCount DEF SInvAt, Types, Placed
    <3> QED
      BY <1>1, <2>1, <3>1, TakeKeeps DEF SInvAt, Types
  <2>4. /\ p \in DOMAIN proc /\ Sound(proc[p]) /\ proc[p].state = "READY"
        /\ proc = [q \in DOMAIN proc |-> proc[q]] /\ last_event \in Nat
    BY <1>1, <2>3 DEF SInvAt, Placed, Types
  <2>5. Changed(proc, proc', p)
    BY <2>2, <2>4, RunsSoundly
  <2>6. proc'[p].AT = proc[p].AT /\ proc'[p].TC = proc[p].TC
    BY <2>2, <2>4, SameInput
  <2>7. /\ DOMAIN proc' = DOMAIN proc
        /\ \A q \in DOMAIN proc : proc'[q].AT = proc[q].AT /\ proc'[q].TC = proc[q].TC
    BY <2>5, <2>6 DEF Changed
  <2>8. AsRead' /\ Told(P)'
    BY <1>2, <1>3, <2>7, NothingTold DEF TInv
  <2> QED
    BY <2>2, <2>8, RunningIsEvent
<1> QED
  BY <1>4, <1>5 DEF Dispatch, Idle, run_process

\* Reading goes on where it stopped, and only the end of the input ends it.
LEMMA ReadingTells ==
  ASSUME TInv, SInv', add_arriving_procs, UNCHANGED <<given, printed>>,
         pc = "first" \/ reading_input, pc' # "first"
  PROVE  /\ AsRead' /\ ReadsOn' /\ \E P : Told(P)'
         /\ pc # "first" => event_queue' # << >>
<1>1. PICK P : Told(P)
  BY DEF TInv
<1>2. input' = input /\ UNCHANGED <<given, printed>>
  BY DEF given
<1>3. PICK E, R : SInvAt(E, R)
  BY DEF TInv, SInv, SInvAt
<1>4. /\ Types /\ AsRead /\ Len(input) \in Nat
      /\ maxpid \in Nat /\ maxpid <= Len(input)
      /\ pc # "first" => oldproc # NULL
      /\ oldproc # NULL => oldproc \in DOMAIN proc /\ maxpid = oldproc + 1
      /\ oldproc = NULL => event_queue = << >>
  <2>1. /\ Types /\ AsRead /\ ReadsOn /\ GoesOnToTheEnd
        /\ maxpid \in Nat /\ Len(input) \in Nat
        /\ DOMAIN proc = Old \cup E \cup R
    BY <1>3 DEF TInv, SInvAt, Placed, Types
  <2>2. pc # "first" => oldproc # NULL
    BY <2>1 DEF ReadsOn
  <2>3. oldproc = NULL => pc = "first" /\ maxpid = 0 /\ event_queue = << >>
    BY <2>1, <2>2 DEF ReadsOn, GoesOnToTheEnd
  <2>4. oldproc # NULL => /\ oldproc \in DOMAIN proc /\ maxpid = oldproc + 1
                          /\ maxpid <= Len(input)
    BY <2>1 DEF ReadsOn, Old, Types, Exists
  <2> QED
    BY <2>1, <2>2, <2>3, <2>4
<1>5. CASE ~ TimeToRead
  <2>1. UNCHANGED <<proc, maxpid, event_queue, oldproc>> /\ reading_input' = (oldproc # NULL)
    BY <1>5 DEF add_arriving_procs
  <2>2. AsRead' /\ Told(P)'
    BY <1>1, <1>2, <1>4, <2>1, NothingTold
  <2>3. event_queue # << >> /\ oldproc # NULL
    BY <1>4, <1>5 DEF TimeToRead
  <2>4. ReadsOn'
    BY <1>4, <2>1, <2>3 DEF ReadsOn
  <2> QED
    BY <2>1, <2>2, <2>3, <2>4
<1>6. CASE TimeToRead
  <2> DEFINE next == maxpid + Arriving
             Far == {q \in maxpid .. next : Exists(q)}
  <2>1. /\ proc' = Read(next) /\ maxpid' = next + 1 /\ oldproc' = ReadAhead(next)
        /\ reading_input' = Exists(next)
    BY <1>6 DEF add_arriving_procs
  <2>2. /\ next \in Nat /\ maxpid <= next /\ next <= Len(input)
    <3>1. Arriving \in Nat /\ \A p \in New : Exists(p)
      BY <1>4, ArrivingFound DEF Types
    <3>2. CASE Arriving = 0
      BY <1>4, <3>1, <3>2
    <3>3. CASE Arriving # 0
      <4>1. next - 1 \in New /\ next \in Nat /\ maxpid <= next
        BY <1>4, <3>1, <3>3 DEF New
      <4>2. Exists(next - 1)
        BY <3>1, <4>1
      <4> QED
        BY <1>4, <4>1, <4>2 DEF Exists
    <3> QED
      BY <3>2, <3>3
  <2>3. /\ DOMAIN proc' = DOMAIN proc \cup Far
        /\ \A p \in DOMAIN proc : proc'[p] = proc[p]
        /\ \A p \in Far \ DOMAIN proc : proc'[p] = NewProcess(p)
    BY <2>1 DEF Read
  <2> HIDE DEF next
  <2>4. AsRead'
    <3>1. \A p : NewProcess(p).AT = input[p + 1].AT /\ NewProcess(p).TC = input[p + 1].TC
      BY DEF NewProcess
    <3> QED
      BY <1>2, <1>4, <2>3, <3>1 DEF AsRead
  <2>5. ReadsOn'
    <3>1. CASE Exists(next)
      BY <2>1, <2>2, <3>1 DEF ReadsOn, ReadAhead, NULL
    <3>2. CASE ~ Exists(next)
      <4>1. next = Len(input)
        BY <1>4, <2>2, <3>2 DEF Exists
      <4> QED
        BY <1>2, <2>1, <3>2, <4>1 DEF ReadsOn, ReadAhead, NULL
    <3> QED
      BY <3>1, <3>2
  <2>6. Told(P)'
    <3>1. /\ P \cap DOMAIN proc = {}
          /\ P \cup DOMAIN proc = {p \in 0 .. maxpid - 1 : Exists(p)}
      BY <1>1 DEF Told
    <3>2. \A p : p \in 0 .. maxpid' - 1 <=> p \in 0 .. maxpid - 1 \/ p \in maxpid .. next
      BY <1>4, <2>1, <2>2
    <3>3. \A p \in Far : p \notin 0 .. maxpid - 1 /\ Exists(p)
      BY <1>4, <2>2
    <3>4. /\ P \cap DOMAIN proc' = {}
          /\ P \cup DOMAIN proc' = {p \in 0 .. maxpid' - 1 : Exists(p)}
      BY <2>3, <3>1, <3>2, <3>3
    <3>5. {p \in 0 .. maxpid' - 1 : Exists(p)} = {p \in 0 .. maxpid - 1 : Exists(p)}'
      BY <1>2 DEF Exists
    <3>6. \A i \in 1 .. Len(printed) : TrueLine(printed[i])'
      BY <1>1, <1>2 DEF Told, TrueLine
    <3> QED
      BY <1>1, <1>2, <3>4, <3>5, <3>6 DEF Told
  <2>7. ASSUME pc # "first" PROVE event_queue' # << >>
    <3>1. oldproc \in DOMAIN proc' /\ proc'[oldproc].state # "READY"
      <4>1. oldproc \in Old /\ oldproc \in DOMAIN proc
        BY <1>4, <2>7 DEF Old
      <4> QED
        BY <1>3, <2>3, <4>1 DEF SInvAt, Placed
    <3>2. oldproc # oldproc'
      BY <1>4, <2>1, <2>2, <2>7 DEF ReadAhead
    <3> QED
      BY <3>1, <3>2, OthersAreEvents
  <2> QED
    BY <2>4, <2>5, <2>6, <2>7
<1> QED
  BY <1>5, <1>6

LEMMA TInvStep ==
  ASSUME TInv, [Next]_svars
  PROVE  TInv'
<1>1. SInv'
  BY StaysSound DEF TInv
<1>2. PICK P : Told(P)
  BY DEF TInv
<1>3. AsRead /\ ReadsOn /\ GoesOnToTheEnd
  BY DEF TInv
<1>4. CASE Begin
  <2>1. /\ AsRead' /\ ReadsOn' /\ \E Q : Told(Q)'
    BY <1>1, <1>4, ReadingTells DEF Begin
  <2>2. GoesOnToTheEnd'
    BY <1>4 DEF Begin, GoesOnToTheEnd
  <2> QED
    BY <1>1, <2>1, <2>2 DEF TInv
<1>5. CASE Advance
  <2>1. UNCHANGED <<given, maxpid, proc, queues, reading_input, printed>>
        /\ pc = "loop" /\ pc' = "events"
    BY <1>5 DEF Advance
  <2>2. AsRead' /\ Told(P)'
    BY <1>2, <1>3, <2>1, NothingTold
  <2>3. ReadsOn' /\ GoesOnToTheEnd'
    BY <1>3, <2>1 DEF ReadsOn, GoesOnToTheEnd, queues, given
  <2> QED
    BY <1>1, <2>2, <2>3 DEF TInv
<1>6. CASE transition_process
  <2>1. AsRead' /\ \E Q : Told(Q)'
    BY <1>6, EventTells
  <2>2. ReadsOn' /\ GoesOnToTheEnd'
    BY <1>3, <1>6 DEF transition_process, ReadsOn, GoesOnToTheEnd, given
  <2> QED
    BY <1>1, <2>1, <2>2 DEF TInv
<1>7. CASE Dispatch
  <2>1. /\ AsRead' /\ \E Q : Told(Q)'
        /\ event_queue' = << >> => size' = 0
    BY <1>1, <1>7, DispatchTells
  <2>2. /\ pc = "events" /\ pc' = "arrivals" /\ UNCHANGED <<given, maxpid, reading_input>>
        /\ UNCHANGED oldproc
    BY <1>7 DEF Dispatch, run_process, queues
  <2>3. ReadsOn' /\ GoesOnToTheEnd'
    BY <1>3, <2>1, <2>2 DEF ReadsOn, GoesOnToTheEnd, given
  <2> QED
    BY <1>1, <2>1, <2>3 DEF TInv
<1>8. CASE Arrivals
  <2>1. /\ pc = "arrivals" /\ pc' = (IF event_queue' # << >> THEN "loop" ELSE "end")
        /\ UNCHANGED <<given, size, printed>>
    BY <1>8 DEF Arrivals
  <2>2. CASE reading_input
    <3>1. /\ AsRead' /\ ReadsOn' /\ \E Q : Told(Q)'
          /\ event_queue' # << >>
      BY <1>1, <1>8, <2>1, <2>2, ReadingTells DEF Arrivals
    <3>2. GoesOnToTheEnd'
      BY <2>1, <3>1 DEF GoesOnToTheEnd
    <3> QED
      BY <1>1, <3>1, <3>2 DEF TInv
  <2>3. CASE ~ reading_input
    <3>1. UNCHANGED <<maxpid, proc, event_queue, oldproc, reading_input>>
      BY <1>8, <2>3 DEF Arrivals
    <3>2. AsRead' /\ Told(P)'
      BY <1>2, <1>3, <2>1, <3>1, NothingTold
    <3>3. oldproc = NULL /\ (event_queue = << >> => size = 0)
      BY <1>3, <2>1, <2>3 DEF ReadsOn, GoesOnToTheEnd
    <3>4. ReadsOn' /\ GoesOnToTheEnd'
      BY <1>3, <2>1, <3>1, <3>3 DEF ReadsOn, GoesOnToTheEnd, given
    <3> QED
      BY <1>1, <3>2, <3>4 DEF TInv
  <2> QED
    BY <2>2, <2>3
<1>9. CASE UNCHANGED svars
  <2>1. UNCHANGED <<given, maxpid, proc, queues, reading_input, printed, pc>>
    BY <1>9 DEF svars
  <2>2. AsRead' /\ Told(P)'
    BY <1>2, <1>3, <2>1, NothingTold
  <2>3. ReadsOn' /\ GoesOnToTheEnd'
    BY <1>3, <2>1 DEF ReadsOn, GoesOnToTheEnd, queues, given
  <2> QED
    BY <1>1, <2>2, <2>3 DEF TInv
<1> QED
  BY <1>4, <1>5, <1>6, <1>7, <1>8, <1>9 DEF Next, Ended

LEMMA TInvStarts == Init => TInv
<1> SUFFICES ASSUME Init PROVE TInv
  OBVIOUS
<1>1. /\ printed = << >> /\ maxpid = 0 /\ proc = << >> /\ oldproc = NULL /\ pc = "first"
      /\ event_queue = << >>
  BY DEF Init
<1>2. Told({})
  <2>1. << >> \in Seq(Entry) /\ Len(<< >>) = 0 /\ DOMAIN << >> = {} /\ << >> \in Seq({})
    OBVIOUS
  <2>2. Names(<< >>) = << >>
    BY <2>1 DEF Names
  <2>3. Holds(<< >>, {})
    BY <2>1 DEF Holds
  <2>4. 0 .. maxpid - 1 = {}
    BY <1>1
  <2> QED
    BY <1>1, <2>1, <2>2, <2>3, <2>4 DEF Told
<1>3. AsRead /\ ReadsOn /\ GoesOnToTheEnd
  BY <1>1 DEF AsRead, ReadsOn, GoesOnToTheEnd
<1> QED
  BY <1>2, <1>3, StartsSound DEF TInv

LEMMA TInvAlways == Spec => []TInv
<1>1. Init => TInv
  BY TInvStarts
<1>2. TInv /\ [Next]_svars => TInv'
  BY TInvStep
<1> QED
  BY <1>1, <1>2, PTL DEF Spec

(* The loop ends only when every process of the input has run for its      *)
(* total and has printed its line, each once: none is left in a queue, and *)
(* none is unread, although the loop ends when the event queue is empty    *)
(* and looks at nothing else.                                              *)
THEOREM AllAreServedOnce == Spec => [](pc = "end" => ServedOnce)
<1>1. TInv => (pc = "end" => ServedOnce)
  <2> SUFFICES ASSUME TInv, pc = "end" PROVE ServedOnce
    OBVIOUS
  <2>1. PICK E, R : SInvAt(E, R)
    BY DEF TInv, SInv, SInvAt
  <2>2. PICK P : Told(P)
    BY DEF TInv
  <2>3. /\ event_queue = << >> /\ size = 0 /\ oldproc = NULL
        /\ maxpid = Len(input) + 1 /\ Len(input) \in Nat
    BY DEF TInv, ReadsOn, GoesOnToTheEnd, SInv, Types
  <2>4. E = {} /\ R = {}
    <3>1. Holds(<< >>, E) /\ Kept(ready_queue, 0, R) /\ 0 \in Nat
      BY <2>1, <2>3 DEF SInvAt, Placed
    <3>2. E = {}
      BY <3>1 DEF Holds
    <3>3. Places(0) = {}
      BY DEF Places
    <3>4. R = {}
      BY <3>1, <3>3 DEF Kept, Once
    <3> QED
      BY <3>2, <3>4
  <2>5. DOMAIN proc = {}
    BY <2>1, <2>3, <2>4 DEF SInvAt, Placed, Old
  <2>6. P = 0 .. Len(input) - 1
    <3>1. \A p : p \in 0 .. maxpid - 1 /\ Exists(p) <=> p \in 0 .. Len(input) - 1
      BY <2>3 DEF Exists
    <3> QED
      BY <2>2, <2>5, <3>1 DEF Told
  <2> DEFINE s == Names(printed)
             n == Len(printed)
  <2>7. n \in Nat /\ s = [i \in 1 .. n |-> printed[i].pid] /\ DOMAIN printed = 1 .. n
    BY <2>2, LenProperties DEF Told, Names
  <2>8. Holds(s, P)
    BY <2>2 DEF Told
  <2> HIDE DEF s, n
  <2>9. /\ IsFiniteSet(P) /\ Cardinality(P) = Len(s) /\ {s[i] : i \in DOMAIN s} = P
    BY <2>8, ListCounts
  <2>10. Len(s) = n
    <3>1. Len(s) \in Nat /\ DOMAIN s = 1 .. Len(s)
      BY <2>8, LenProperties DEF Holds
    <3> QED
      BY <2>7, <3>1
  <2>11. Cardinality(P) = Len(input)
    <3>1. Len(input) - 1 \in Int
      BY <2>3
    <3>2. Cardinality(0 .. Len(input) - 1)
            = IF 0 > Len(input) - 1 THEN 0 ELSE Len(input) - 1 - 0 + 1
      BY <3>1, FS_Interval
    <3> QED
      BY <2>3, <2>6, <3>2
  <2>12. {printed[i].pid : i \in DOMAIN printed} = P
    BY <2>7, <2>9
  <2> QED
    BY <2>3, <2>5, <2>6, <2>9, <2>10, <2>11, <2>12 DEF ServedOnce, n
<1> QED
  BY <1>1, TInvAlways, PTL

(* A line printed for a process has the arrival and the total of its line  *)
(* of input, and its turnaround is this total and its IO: the time it was  *)
(* ready is not in it, for any input and any policy, which is why          *)
(* TurnaroundIsSpent is not kept.                                          *)
THEOREM LinesAreTrue ==
  Spec => [](\A i \in DOMAIN printed : TrueLine(printed[i]))
<1>1. TInv => \A i \in DOMAIN printed : TrueLine(printed[i])
  <2> SUFFICES ASSUME TInv PROVE \A i \in DOMAIN printed : TrueLine(printed[i])
    OBVIOUS
  <2>1. PICK P : Told(P)
    BY DEF TInv
  <2>2. DOMAIN printed = 1 .. Len(printed)
    BY <2>1, LenProperties DEF Told
  <2> QED
    BY <2>1, <2>2 DEF Told
<1> QED
  BY <1>1, TInvAlways, PTL

-----------------------------------------------------------------------------
(* Arrivals: those in the event queue whose time has not come, the members *)
(* of T, stand there in the order they were read.                          *)

Ordered(s, T) == \A i, j \in 1 .. Len(s) :
                   i < j /\ s[i] \in T /\ s[j] \in T => s[i] < s[j]

\* o finishes last of those in T that are in E, and was read last.
Follows(o, E, T, FT) == \A e \in E \cap T : e < o /\ FT[e] <= FT[o]

LEMMA JoinsOrdered ==
  ASSUME NEW s, NEW E, Holds(s, E), NEW o, NEW FT,
         \A e \in E \cup {o} : FT[e] \in Int, Ascending(s, FT),
         NEW T, Ordered(s, T), o \in T => Follows(o, E, T, FT)
  PROVE  Ordered(Inserted(s, o, FT), T)
<1> DEFINE n == Place(s, o, FT)
           r == Inserted(s, o, FT)
           F == E \cup {o}
           m == Len(s)
<1>1. /\ s \in Seq(F) /\ m \in Nat /\ o \in F
      /\ \A i \in 1 .. m : s[i] \in E /\ FT[s[i]] \in Int
  <2>1. s \in Seq(E) /\ m \in Nat /\ \A i \in 1 .. m : s[i] \in E
    BY DEF Holds
  <2>2. s = [i \in 1 .. m |-> s[i]]
    BY <2>1, LenProperties
  <2> HIDE DEF m
  <2>3. s \in Seq(F)
    BY <2>1, <2>2, IsASeq
  <2> QED
    BY <2>1, <2>3
<1>2. n \in 0 .. m /\ (n < m => FT[s[n + 1]] > FT[o])
  BY <1>1, PlaceFound
<1> HIDE DEF n
<1>3. /\ Len(r) = m + 1
      /\ \A j \in 1 .. m + 1 :
           r[j] = IF j <= n THEN s[j] ELSE IF j = n + 1 THEN o ELSE s[j - 1]
  <2> DEFINE q == InsertAt(s, n + 1, o)
  <2>1. /\ Len(q) = m + 1
        /\ \A j \in 1 .. m + 1 :
             q[j] = IF j <= n THEN s[j] ELSE IF j = n + 1 THEN o ELSE s[j - 1]
    <3> HIDE DEF F
    <3> QED
      BY <1>1, <1>2, InsertedAt
  <2>2. q = r
    BY DEF Inserted, n
  <2> QED
    BY ONLY <2>1, <2>2
<1> HIDE DEF r, F
<1>4. ASSUME NEW i \in n + 1 .. m PROVE ~ (o \in T /\ s[i] \in T)
  <2>1. n < m /\ n + 1 \in 1 .. m /\ i \in 1 .. m /\ n + 1 <= i
    BY <1>1, <1>2
  <2>2. FT[s[n + 1]] <= FT[s[i]]
    <3>1. CASE i = n + 1
      BY <1>1, <2>1, <3>1
    <3>2. CASE i # n + 1
      BY <2>1, <3>2 DEF Ascending
    <3> QED
      BY <3>1, <3>2
  <2>3. FT[o] < FT[s[n + 1]] /\ FT[s[n + 1]] \in Int /\ FT[s[i]] \in Int /\ FT[o] \in Int
    BY <1>1, <1>2, <2>1
  <2>4. ~ (FT[s[i]] <= FT[o])
    BY <2>2, <2>3
  <2> QED
    BY <1>1, <2>1, <2>4 DEF Follows
<1>5. \A i \in 1 .. n : s[i] \in T /\ o \in T => s[i] < o
  BY <1>1, <1>2 DEF Follows
<1>6. \A i, j \in 1 .. m : i < j /\ s[i] \in T /\ s[j] \in T => s[i] < s[j]
  BY DEF Ordered
<1> HIDE DEF m
<1>7. \A k \in 1 .. m + 1 : \/ k \in 1 .. n /\ k \in 1 .. m /\ r[k] = s[k]
                            \/ k = n + 1 /\ r[k] = o
                            \/ /\ k - 1 \in n + 1 .. m /\ k - 1 \in 1 .. m
                               /\ r[k] = s[k - 1]
  BY <1>1, <1>2, <1>3
<1> SUFFICES ASSUME NEW i \in 1 .. m + 1, NEW j \in 1 .. m + 1, i < j,
                    r[i] \in T, r[j] \in T
             PROVE  r[i] < r[j]
  BY <1>3 DEF Ordered, r
<1>8. CASE i \in 1 .. n /\ j \in 1 .. n
  BY <1>2, <1>6, <1>7, <1>8
<1>9. CASE i \in 1 .. n /\ j = n + 1
  BY <1>2, <1>5, <1>7, <1>9
<1>10. CASE i \in 1 .. n /\ j > n + 1
  BY <1>2, <1>6, <1>7, <1>10
<1>11. CASE i = n + 1
  BY <1>2, <1>4, <1>7, <1>11
<1>12. CASE i > n + 1
  <2>1. /\ r[i] = s[i - 1] /\ r[j] = s[j - 1] /\ i - 1 \in 1 .. m /\ j - 1 \in 1 .. m
        /\ i - 1 < j - 1
    BY <1>2, <1>7, <1>12
  <2> QED
    BY <1>6, <2>1
<1> QED
  BY <1>1, <1>2, <1>7, <1>8, <1>9, <1>10, <1>11, <1>12

LEMMA OrderedStays ==
  ASSUME NEW s, NEW E, Holds(s, E), NEW T, Ordered(s, T)
  PROVE  /\ \A U : E \cap U \subseteq T => Ordered(s, U)
         /\ s # << >> => Ordered(Tail(s), T)
<1>1. s \in Seq(E) /\ Len(s) \in Nat /\ \A i \in 1 .. Len(s) : s[i] \in E
  BY DEF Holds
<1>2. ASSUME s # << >> PROVE Ordered(Tail(s), T)
  <2>1. Len(Tail(s)) = Len(s) - 1 /\ \A i \in 1 .. Len(s) - 1 : Tail(s)[i] = s[i + 1]
    BY <1>1, <1>2, HeadTailProperties
  <2>2. \A i \in 1 .. Len(s) - 1 : i + 1 \in 1 .. Len(s)
    BY <1>1
  <2>3. \A i, j \in 1 .. Len(s) - 1 : i < j => i + 1 < j + 1
    BY <1>1
  <2> QED
    BY <2>1, <2>2, <2>3 DEF Ordered
<1>3. \A U : E \cap U \subseteq T => Ordered(s, U)
  BY <1>1 DEF Ordered
<1> QED
  BY <1>2, <1>3

LEMMA JoinsAllOrdered ==
  ASSUME NEW E, Holds(event_queue, E), NEW F, NEW s, Holds(s, F), E \cap F = {},
         NEW FT, \A e \in E \cup F : FT[e] \in Int, Ascending(event_queue, FT),
         NEW T, Ordered(event_queue, T),
         \A k \in 1 .. Len(s) : /\ Follows(s[k], E, T, FT)
                                /\ \A j \in 1 .. k - 1 : s[j] < s[k] /\ FT[s[j]] <= FT[s[k]]
  PROVE  Ordered(Joined(s, FT), T)
<1> DEFINE n == Len(s)
           G(k) == E \cup {s[j] : j \in 1 .. k}
           Good(q, k) == Holds(q, G(k)) /\ Ascending(q, FT) /\ Ordered(q, T)
           Q == Seq(E \cup F)
           TT == [k \in 0 .. n |-> {q \in Q : Good(q, k)}]
<1>1. n \in Nat /\ s \in Seq(F) /\ \A k \in 1 .. n : s[k] \in F
  BY DEF Holds
<1>2. ASSUME NEW k \in 1 .. n, NEW q, Good(q, k - 1)
      PROVE  Good(Inserted(q, s[k], FT), k)
  <2>0. \A j \in 1 .. k - 1 : j \in 1 .. n /\ j # k
    BY <1>1
  <2>1. s[k] \notin G(k - 1)
    <3>1. s[k] \notin E
      BY <1>1
    <3>2. \A j \in 1 .. k - 1 : s[j] # s[k]
      BY <2>0 DEF Holds
    <3> QED
      BY <3>1, <3>2
  <2>2. G(k) = G(k - 1) \cup {s[k]}
    <3>1. 1 .. k = (1 .. k - 1) \cup {k}
      BY <1>1
    <3> QED
      BY <3>1
  <2>3. \A e \in G(k - 1) \cup {s[k]} : FT[e] \in Int
    <3>1. \A j \in 1 .. k : s[j] \in F
      BY <1>1
    <3>2. G(k) \subseteq E \cup F
      BY <3>1
    <3> QED
      BY <2>2, <3>2
  <2>4. Follows(s[k], G(k - 1), T, FT)
    BY <2>0 DEF Follows
  <2> DEFINE o == s[k]
             A == G(k - 1)
  <2>5. /\ o \notin A /\ (\A e \in A \cup {o} : FT[e] \in Int) /\ Holds(q, A)
        /\ Ascending(q, FT) /\ Ordered(q, T) /\ Follows(o, A, T, FT)
    BY <1>2, <2>1, <2>3, <2>4
  <2> HIDE DEF o, A
  <2>6. /\ Holds(Inserted(q, o, FT), A \cup {o}) /\ Ascending(Inserted(q, o, FT), FT)
    BY <2>5, JoinsList
  <2>7. Ordered(Inserted(q, o, FT), T)
    BY <2>5, JoinsOrdered
  <2> QED
    BY <2>2, <2>6, <2>7 DEF o, A
<1>3. Good(event_queue, 0)
  <2>1. G(0) = E
    OBVIOUS
  <2> QED
    BY <2>1
<1>4. ASSUME NEW k \in 0 .. n, NEW q, Good(q, k)
      PROVE  q \in Q
  <2>1. \A j \in 1 .. k : j \in 1 .. n
    BY <1>1
  <2>2. G(k) \subseteq E \cup F
    BY <1>1, <2>1
  <2>3. q \in Seq(G(k))
    BY <1>4 DEF Holds
  <2> QED
    BY <2>2, <2>3, SeqMonotonic
<1> HIDE DEF Good, Q
<1>5. /\ \A k \in 0 .. n : TT[k] \subseteq Q
      /\ event_queue \in TT[0]
      /\ \A k \in 1 .. n : \A q \in TT[k - 1] : Inserted(q, s[k], FT) \in TT[k]
  <2>1. 0 \in 0 .. n /\ \A k \in 1 .. n : k - 1 \in 0 .. n /\ k \in 0 .. n
    BY <1>1
  <2>2. \A k \in 0 .. n : TT[k] = {q \in Q : Good(q, k)}
    OBVIOUS
  <2> HIDE DEF TT
  <2> QED
    BY <1>2, <1>3, <1>4, <2>1, <2>2
<1> HIDE DEF TT
<1>6. Joined(s, FT) \in TT[n]
  BY <1>1, <1>5, JoinsStepwise
<1> QED
  BY <1>1, <1>6 DEF TT, Good

\* The processes that join, in the order of their pids.
LEMMA ComingAscends ==
  ASSUME maxpid \in Nat, input \in Seq(Lines),
         oldproc # NULL => oldproc \in Nat /\ maxpid = oldproc + 1
  PROVE  \A i, j \in 1 .. Len(Coming) : i < j => Coming[i] < Coming[j]
<1> DEFINE b == [i \in 1 .. Arriving |-> maxpid + i - 1]
           n == Arriving
<1>1. n \in Nat
  BY ArrivingFound
<1> HIDE DEF n
<1>2. b \in Seq(Int) /\ Len(b) = n /\ \A i \in 1 .. n : b[i] = maxpid + i - 1
  <2>1. b \in [1 .. n -> Int] /\ \A i \in 1 .. n : b[i] = maxpid + i - 1
    BY DEF n
  <2> HIDE DEF b
  <2>2. b \in Seq(Int) /\ DOMAIN b = 1 .. n
    BY <1>1, <2>1
  <2>3. Len(b) \in Nat /\ 1 .. Len(b) = 1 .. n
    BY <2>2, LenProperties
  <2> QED
    BY <1>1, <2>1, <2>2, <2>3
<1>3. CASE oldproc = NULL
  <2>1. Coming = << >> \o b
    BY <1>3 DEF Coming
  <2> HIDE DEF b
  <2>2. Coming = b
    BY <1>2, <2>1
  <2> QED
    BY <1>1, <1>2, <2>2
<1>4. CASE oldproc # NULL
  <2>1. Coming = <<oldproc>> \o b
    BY <1>4 DEF Coming
  <2>2. oldproc \in Int /\ maxpid = oldproc + 1
    BY <1>4
  <2> HIDE DEF b
  <2>3. /\ Len(Coming) = n + 1
        /\ \A i \in 1 .. n + 1 : Coming[i] = IF i = 1 THEN oldproc ELSE b[i - 1]
    <3>1. /\ <<oldproc>> \in Seq(Int) /\ Len(<<oldproc>>) = 1
          /\ <<oldproc>>[1] = oldproc
      BY <2>2
    <3> DEFINE a == <<oldproc>>
    <3> HIDE DEF a
    <3>2. /\ Len(a \o b) = 1 + n
          /\ \A i \in 1 .. 1 + n : (a \o b)[i] = IF i <= 1 THEN a[i] ELSE b[i - 1]
      BY <1>2, <3>1, ConcatProperties DEF a
    <3>3. \A i \in 1 .. n + 1 : i \in 1 .. 1 + n /\ (i <= 1 <=> i = 1)
      BY <1>1
    <3>4. Coming = a \o b /\ a[1] = oldproc
      BY <2>1, <3>1 DEF a
    <3> QED
      BY <1>1, <3>2, <3>3, <3>4
  <2>4. \A i \in 1 .. n + 1 : Coming[i] = oldproc + i - 1
    BY <1>1, <1>2, <2>2, <2>3
  <2> QED
    BY <1>1, <2>2, <2>3, <2>4
<1> QED
  BY <1>3, <1>4

-----------------------------------------------------------------------------
(* One process: its burst is cut where the policy says, and nowhere else.  *)

Fit(r) ==
  /\ r.CB \in 1 .. UINT_MAX
  /\ r.state = "INIT" => r.cpu_time = 0 /\ r.FT = r.AT
  /\ r.state # "RUNNING" => ~ r.preempted /\ (r.cpu_time < r.TC \/ r.cpu_time = 0)
  /\ algorithm # "R" => r.preempt_after = UINT_MAX
  /\ algorithm = "R" /\ r.state = "READY" => r.preempt_after = quantum
  /\ r.state = "RUNNING" /\ r.preempted =>
       r.cpu_time = r.TC \/ (algorithm = "R" /\ r.runtime = quantum)

LEMMA LargestUnsigned == UINT_MAX \in Nat \ {0}
  BY SMT DEF UINT_MAX

LEMMA NewFits ==
  ASSUME NEW p \in Nat, Exists(p), input \in Seq(Lines)
  PROVE  Fit(NewProcess(p))
<1>1. p + 1 \in 1 .. Len(input)
  BY DEF Exists
<1>2. input[p + 1] \in Lines
  BY <1>1
<1> DEFINE l == input[p + 1]
<1>3. l.CB \in 1 .. UINT_MAX /\ l.AT \in Nat /\ l.TC \in Nat
  BY <1>2, BurstAssumption, SchedulerAssumption DEF Lines
<1> HIDE DEF l
<1>4. NewProcess(p) =
        [AT |-> l.AT, TC |-> l.TC, CB |-> l.CB, IO |-> l.IO,
         FT |-> l.AT, IT |-> 0, CW |-> 0, cpu_time |-> 0, runtime |-> 0,
         preempt_after |-> UINT_MAX, preempted |-> FALSE, state |-> "INIT"]
  BY DEF NewProcess, l
<1> QED
  BY <1>3, <1>4 DEF Fit

\* What run_process makes of p.
LEMMA RunsFit ==
  ASSUME NEW p \in DOMAIN proc, Sound(proc[p]), Fit(proc[p]), proc[p].state = "READY",
         NEW drawn \in Draws(proc[p].CB), quantum \in Nat, algorithm = "R" => quantum # 0,
         NEW on, on = Running(p, drawn)[p]
  PROVE  /\ Fit(on) /\ on.state = "RUNNING"
         /\ on.cpu_time = proc[p].cpu_time + on.runtime
         /\ on.runtime \in 0 .. proc[p].TC - proc[p].cpu_time
         /\ on.runtime = 0 => proc[p].TC = 0
         /\ algorithm = "R" => on.runtime <= quantum
<1> DEFINE r == proc[p]
           time == Burst(p, drawn)
           cut == drawn > r.preempt_after
<1>1. r \in Process /\ r.cpu_time \in 0 .. r.TC
  BY DEF Sound, AddsUp
<1>2. /\ r.CB \in 1 .. UINT_MAX /\ ~ r.preempted /\ (r.cpu_time < r.TC \/ r.cpu_time = 0)
      /\ algorithm # "R" => r.preempt_after = UINT_MAX
      /\ algorithm = "R" => r.preempt_after = quantum
  BY DEF Fit
<1>3. drawn \in 1 .. UINT_MAX /\ r.preempt_after \in Nat \ {0}
  BY <1>1, <1>2, LargestUnsigned DEF Draws, Process
<1>4. cut => algorithm = "R"
  BY <1>2, <1>3, LargestUnsigned
<1>5. /\ time \in 0 .. r.TC - r.cpu_time
      /\ time = 0 => r.TC = 0
      /\ algorithm = "R" => time <= quantum
      /\ cut => time = quantum \/ r.cpu_time + time = r.TC
  <2>1. /\ r.TC \in Nat /\ r.cpu_time \in Nat /\ r.cpu_time <= r.TC
        /\ r.TC - r.cpu_time \in Nat
    BY <1>1 DEF Process
  <2> DEFINE left == r.TC - r.cpu_time
             c == IF cut THEN r.preempt_after ELSE drawn
  <2>2. time = IF c > left THEN left ELSE c
    BY DEF Burst
  <2>3. /\ c \in Nat \ {0} /\ (cut => c = quantum)
        /\ algorithm = "R" => c <= quantum
    BY <1>2, <1>3, <1>4
  <2> HIDE DEF r, c, cut, time
  <2> QED
    BY <1>2, <2>1, <2>2, <2>3
<1>6. on = [r EXCEPT !.CW = unsigned(@ + last_event - r.FT),
                     !.preempted = @ \/ cut,
                     !.runtime = time, !.cpu_time = @ + time, !.FT = @ + time,
                     !.state = "RUNNING"]
  BY DEF Running
<1> HIDE DEF time, cut
<1>7. /\ on.state = "RUNNING" /\ on.cpu_time = r.cpu_time + time /\ on.runtime = time
      /\ on.CB = r.CB /\ on.TC = r.TC /\ on.preempt_after = r.preempt_after
      /\ on.preempted = (r.preempted \/ cut)
  <2>1. DOMAIN r = DOMAIN [AT |-> 0, TC |-> 0, CB |-> 0, IO |-> 0, FT |-> 0, IT |-> 0,
                           CW |-> 0, cpu_time |-> 0, runtime |-> 0, preempt_after |-> 0,
                           preempted |-> 0, state |-> 0]
    BY <1>1 DEF Process
  <2> HIDE DEF r
  <2> QED
    BY <1>6, <2>1
<1>8. Fit(on)
  BY <1>1, <1>2, <1>4, <1>5, <1>7 DEF Fit, Process
<1> QED
  BY <1>5, <1>7, <1>8

\* What leave_cpu makes of p, if it goes on.
LEMMA StopsFit ==
  ASSUME NEW p \in DOMAIN proc, Sound(proc[p]), Fit(proc[p]), proc[p].state = "RUNNING",
         ~ Finishing(p)
  PROVE  /\ LET on == Preempted(p)[p]
            IN  Fit(on) /\ on.state = "PREEMPTED" /\ on.cpu_time = proc[p].cpu_time
         /\ \A drawn : ~ proc[p].preempted =>
              LET on == Blocked(p, drawn)[p]
              IN  Fit(on) /\ on.state = "BLOCKED" /\ on.cpu_time = proc[p].cpu_time
<1> DEFINE r == proc[p]
<1>1. /\ r \in Process /\ r.cpu_time < r.TC
      /\ DOMAIN r = DOMAIN [AT |-> 0, TC |-> 0, CB |-> 0, IO |-> 0, FT |-> 0, IT |-> 0,
                            CW |-> 0, cpu_time |-> 0, runtime |-> 0, preempt_after |-> 0,
                            preempted |-> 0, state |-> 0]
  BY DEF Sound, AddsUp, Finishing, Process
<1>2. /\ r.CB \in 1 .. UINT_MAX /\ (algorithm # "R" => r.preempt_after = UINT_MAX)
  BY DEF Fit
<1>3. PICK s : s = Preempted(p)[p]
  OBVIOUS
<1>4. s = [r EXCEPT !.state = "PREEMPTED", !.preempted = FALSE]
  BY <1>3 DEF Preempted
<1>5. /\ s.state = "PREEMPTED" /\ ~ s.preempted /\ s.cpu_time = r.cpu_time /\ s.TC = r.TC
      /\ s.CB = r.CB /\ s.preempt_after = r.preempt_after
  BY <1>1, <1>4
<1>6. Fit(s)
  BY <1>1, <1>2, <1>5 DEF Fit
<1>7. ASSUME NEW drawn, ~ r.preempted, NEW b, b = Blocked(p, drawn)[p]
      PROVE  Fit(b) /\ b.state = "BLOCKED" /\ b.cpu_time = r.cpu_time
  <2>1. b = [r EXCEPT !.state = "BLOCKED", !.runtime = drawn, !.FT = @ + drawn]
    BY <1>7 DEF Blocked
  <2> HIDE DEF r
  <2>2. /\ b.state = "BLOCKED" /\ ~ b.preempted /\ b.cpu_time = r.cpu_time /\ b.TC = r.TC
        /\ b.CB = r.CB /\ b.preempt_after = r.preempt_after
    BY <1>1, <1>7, <2>1
  <2> QED
    BY <1>1, <1>2, <2>2 DEF Fit
<1> QED
  BY <1>3, <1>5, <1>6, <1>7

\* What become_ready makes of p.
LEMMA WaitsFit ==
  ASSUME NEW p \in DOMAIN proc, Sound(proc[p]), Fit(proc[p]),
         proc[p].state \in {"BLOCKED", "PREEMPTED", "INIT"},
         NEW on, on = (IF algorithm = "R" THEN RR_quantum(p, AfterIO(p)) ELSE AfterIO(p))[p]
  PROVE  Fit(on) /\ on.state = "READY" /\ on.cpu_time = proc[p].cpu_time
<1> DEFINE r == proc[p]
<1>1. /\ r \in Process
      /\ DOMAIN r = DOMAIN [AT |-> 0, TC |-> 0, CB |-> 0, IO |-> 0, FT |-> 0, IT |-> 0,
                            CW |-> 0, cpu_time |-> 0, runtime |-> 0, preempt_after |-> 0,
                            preempted |-> 0, state |-> 0]
  BY DEF Sound, Process
<1>2. /\ r.CB \in 1 .. UINT_MAX /\ ~ r.preempted /\ (r.cpu_time < r.TC \/ r.cpu_time = 0)
      /\ algorithm # "R" => r.preempt_after = UINT_MAX
  BY DEF Fit
<1>3. PICK procs : procs = AfterIO(p)
  OBVIOUS
<1>4. PICK s : s = procs[p]
  OBVIOUS
<1>5. p \in DOMAIN procs
  BY <1>3 DEF AfterIO
<1>6. s = IF r.state = "BLOCKED" THEN [r EXCEPT !.state = "READY", !.IT = @ + r.runtime]
          ELSE [r EXCEPT !.state = "READY"]
  BY <1>3, <1>4 DEF AfterIO
<1> HIDE DEF r
<1>7. /\ s.state = "READY" /\ s.preempted = r.preempted /\ s.cpu_time = r.cpu_time
      /\ s.TC = r.TC /\ s.CB = r.CB /\ s.preempt_after = r.preempt_after
      /\ DOMAIN s = DOMAIN r
  BY <1>1, <1>6
<1>8. on = IF algorithm = "R" THEN [s EXCEPT !.preempt_after = quantum] ELSE s
  BY <1>3, <1>4, <1>5 DEF RR_quantum
<1>9. /\ on.state = "READY" /\ on.preempted = r.preempted /\ on.cpu_time = r.cpu_time
      /\ on.TC = r.TC /\ on.CB = r.CB
      /\ on.preempt_after = IF algorithm = "R" THEN quantum ELSE r.preempt_after
  BY <1>1, <1>7, <1>8
<1>10. Fit(on)
  BY <1>2, <1>9 DEF Fit
<1> QED
  BY <1>9, <1>10 DEF r

-----------------------------------------------------------------------------
(* What the policies need, beyond the invariant above.                     *)

Fresh(procs) == {p \in DOMAIN procs : procs[p].state = "INIT"}

LinesAscend == \A i, j \in 1 .. Len(input) : i < j => input[i].AT <= input[j].AT

PInv == /\ algorithm = "R" => quantum # 0
        /\ LinesAscend
        /\ \A p \in DOMAIN proc : Fit(proc[p])
        /\ Ordered(event_queue, Fresh(proc))

LEMMA StartsFit ==
  ASSUME Init
  PROVE  PInv
<1>1. algorithm = "R" => quantum # 0
  BY SchedulerAssumption DEF Init
<1>2. LinesAscend
  <2>1. PICK n \in 0 .. MaxProcs : input \in [1 .. n -> Lines]
    BY DEF Init, Inputs
  <2>2. n \in Nat /\ input \in Seq(Lines)
    BY <2>1, SchedulerAssumption
  <2>3. Len(input) \in Nat /\ \A i \in 1 .. Len(input) : input[i].AT \in Nat
    <3>1. Len(input) \in Nat /\ \A i \in 1 .. Len(input) : input[i] \in Lines
      BY <2>2
    <3> QED
      BY <3>1, SchedulerAssumption DEF Lines
  <2>4. \A i \in 1 .. Len(input) - 1 : input[i].AT <= input[i + 1].AT
    BY DEF Init, Inputs
  <2> SUFFICES ASSUME NEW i \in 1 .. Len(input)
               PROVE  \A j \in 1 .. Len(input) : i < j => input[i].AT <= input[j].AT
    BY DEF LinesAscend
  <2> DEFINE Bad == {j \in 1 .. Len(input) : i < j /\ ~ (input[i].AT <= input[j].AT)}
  <2> SUFFICES ASSUME Bad # {} PROVE FALSE
    OBVIOUS
  <2>5. PICK j \in Bad : \A k \in Bad : j <= k
    <3>1. Bad \in SUBSET Nat
      BY <2>3
    <3> HIDE DEF Bad
    <3> QED
      BY <3>1, LeastNatural
  <2>6. /\ j \in 1 .. Len(input) /\ i < j /\ ~ (input[i].AT <= input[j].AT)
        /\ j - 1 \in 1 .. Len(input) - 1 /\ j - 1 \in 1 .. Len(input) /\ (j - 1) + 1 = j
    BY <2>3, <2>5
  <2>7. j - 1 \notin Bad
    <3> HIDE DEF Bad
    <3> QED
      BY <2>5, <2>6
  <2>8. input[j - 1].AT <= input[j].AT
    BY <2>4, <2>6
  <2>9. input[i].AT <= input[j - 1].AT
    <3>1. CASE i = j - 1
      BY <2>3, <3>1
    <3>2. CASE i # j - 1
      BY <2>6, <2>7, <3>2
    <3> QED
      BY <3>1, <3>2
  <2> QED
    BY <2>3, <2>6, <2>8, <2>9
<1>3. /\ \A p \in DOMAIN proc : Fit(proc[p])
      /\ Ordered(event_queue, Fresh(proc))
  <2>1. proc = << >> /\ event_queue = << >> /\ DOMAIN << >> = {} /\ Len(<< >>) = 0
    BY DEF Init
  <2> QED
    BY <2>1 DEF Ordered
<1> QED
  BY <1>1, <1>2, <1>3 DEF PInv

\* p changes, and is not among those whose time has not come, after it.
LEMMA OneFits ==
  ASSUME PInv, Types, UNCHANGED given, NEW p \in DOMAIN proc, Changed(proc, proc', p),
         Fit(proc'[p]), proc'[p].state # "INIT",
         NEW E, Holds(event_queue, E), p \in E => p = Head(event_queue),
         NEW T, T = Fresh(proc'),
         \/ event_queue' = Tail(event_queue) /\ event_queue # << >>
         \/ /\ event_queue # << >> /\ Holds(Tail(event_queue), E \ {p})
            /\ event_queue' = Inserted(Tail(event_queue), p, Times(proc'))
            /\ E \subseteq DOMAIN proc /\ Sound(proc'[p])
            /\ Ascending(Tail(event_queue), Times(proc))
         \/ /\ p \notin E /\ event_queue' = Inserted(event_queue, p, Times(proc'))
            /\ E \subseteq DOMAIN proc /\ Sound(proc'[p])
            /\ Ascending(event_queue, Times(proc))
  PROVE  PInv'
<1>1. /\ DOMAIN proc' = DOMAIN proc
      /\ \A q \in DOMAIN proc : q # p => proc'[q] = proc[q]
  BY DEF Changed
<1>2. /\ algorithm' = algorithm /\ quantum' = quantum /\ input' = input
  BY DEF given
<1>3. \A q \in DOMAIN proc : Fit(proc'[q])
  BY <1>1 DEF PInv
<1>4. \A q \in DOMAIN proc' : Fit(proc[q])'
  BY <1>1, <1>2, <1>3 DEF Fit
<1>5. T \subseteq Fresh(proc) /\ p \notin T
  BY <1>1 DEF Fresh
<1>6. Ordered(event_queue, T) /\ (event_queue # << >> => Ordered(Tail(event_queue), T))
  BY <1>5, OrderedStays DEF PInv
<1>7. ASSUME NEW s, NEW F, Holds(s, F), F \subseteq DOMAIN proc, p \notin F,
             Ascending(s, Times(proc)), Ordered(s, T), Sound(proc'[p])
      PROVE  Ordered(Inserted(s, p, Times(proc')), T)
  <2>1. PICK on : on = proc'
    OBVIOUS
  <2>2. Ascending(s, Times(on))
    BY <1>7, <2>1, OthersInOrder
  <2>3. \A e \in F \cup {p} : Times(on)[e] \in Int
    <3>1. \A e \in F \cup {p} : Sound(on[e]) /\ e \in DOMAIN on
      BY <1>1, <1>7, <2>1 DEF Types
    <3> QED
      BY <3>1 DEF Times, Sound, Process
  <2>4. Ordered(Inserted(s, p, Times(on)), T)
    BY <1>5, <1>7, <2>2, <2>3, JoinsOrdered
  <2> QED
    BY <2>1, <2>4
<1>8. Ordered(event_queue', T)
  <2>1. p \notin E \ {p} /\ E \ {p} \subseteq E
    OBVIOUS
  <2>2. CASE event_queue' = Tail(event_queue) /\ event_queue # << >>
    BY <1>6, <2>2
  <2>3. CASE /\ event_queue # << >> /\ Holds(Tail(event_queue), E \ {p})
             /\ event_queue' = Inserted(Tail(event_queue), p, Times(proc'))
             /\ E \subseteq DOMAIN proc /\ Sound(proc'[p])
             /\ Ascending(Tail(event_queue), Times(proc))
    <3>1. E \ {p} \subseteq DOMAIN proc
      BY <2>3
    <3>2. PICK F : F = E \ {p}
      OBVIOUS
    <3> QED
      BY <1>6, <1>7, <2>1, <2>3, <3>1, <3>2
  <2>4. CASE /\ p \notin E /\ event_queue' = Inserted(event_queue, p, Times(proc'))
             /\ E \subseteq DOMAIN proc /\ Sound(proc'[p])
             /\ Ascending(event_queue, Times(proc))
    BY <1>6, <1>7, <2>4
  <2> QED
    BY <2>2, <2>3, <2>4
<1>9. LinesAscend'
  BY <1>2 DEF PInv, LinesAscend
<1> QED
  BY <1>2, <1>4, <1>8, <1>9 DEF PInv

LEMMA EventFits ==
  ASSUME TInv, PInv, transition_process
  PROVE  PInv'
<1>1. PICK E, R : SInvAt(E, R)
  BY DEF TInv, SInv, SInvAt
<1>2. PICK p : p = Head(event_queue)
  OBVIOUS
<1>3. /\ Due /\ UNCHANGED given /\ event_queue # << >>
      /\ leave_cpu(p) \/ become_ready(p)
  BY <1>2 DEF transition_process, Due
<1>4. /\ p \in E /\ p \in DOMAIN proc
      /\ Holds(Tail(event_queue), E \ {p}) /\ Ascending(Tail(event_queue), Times(proc))
  BY <1>1, <1>2, <1>3, EventTaken
<1>5. /\ Types /\ Holds(event_queue, E) /\ E \subseteq DOMAIN proc
      /\ proc = [q \in DOMAIN proc |-> proc[q]] /\ Sound(proc[p]) /\ Fit(proc[p])
      /\ quantum \in Nat
  BY <1>1, <1>4 DEF SInvAt, Placed, Types, PInv
<1>6. CASE leave_cpu(p) /\ Finishing(p) /\ finish(p)
  <2>1. proc' = [q \in DOMAIN proc \ {p} |-> proc[q]] /\ event_queue' = Tail(event_queue)
    BY <1>6 DEF finish
  <2>2. \A q \in DOMAIN proc' : q \in DOMAIN proc /\ Fit(proc[q])'
    <3>1. \A q \in DOMAIN proc' : q \in DOMAIN proc /\ proc'[q] = proc[q]
      BY <2>1
    <3>2. \A q \in DOMAIN proc' : Fit(proc'[q])
      BY <3>1 DEF PInv
    <3> QED
      BY <1>3, <3>1, <3>2 DEF Fit, given
  <2>3. PICK T : T = Fresh(proc')
    OBVIOUS
  <2>4. T \subseteq Fresh(proc)
    BY <2>1, <2>3 DEF Fresh
  <2>5. Ordered(event_queue', T)
    <3>1. Ordered(event_queue, T)
      BY <1>5, <2>4, OrderedStays DEF PInv
    <3> QED
      BY <1>3, <1>5, <2>1, <3>1, OrderedStays
  <2>6. LinesAscend' /\ (algorithm = "R" => quantum # 0)'
    BY <1>3 DEF PInv, LinesAscend, given
  <2> QED
    BY <2>2, <2>3, <2>5, <2>6 DEF PInv
<1>7. CASE leave_cpu(p) /\ ~ (Finishing(p) /\ finish(p))
  <2>1. /\ proc[p].state = "RUNNING" /\ ~ Finishing(p)
        /\ \/ proc' = Preempted(p)
           \/ ~ proc[p].preempted /\ \E drawn \in Draws(proc[p].IO) : proc' = Blocked(p, drawn)
        /\ event_queue' = Inserted(Tail(event_queue), p, Times(proc'))
    BY <1>2, <1>7 DEF leave_cpu
  <2>2. Changed(proc, proc', p) /\ Sound(proc'[p])
    BY <1>4, <1>5, <2>1, StopsSoundly
  <2>3. Fit(proc'[p]) /\ proc'[p].state # "INIT"
    BY <1>4, <1>5, <2>1, StopsFit
  <2> QED
    BY <1>2, <1>3, <1>4, <1>5, <2>1, <2>2, <2>3, OneFits
<1>8. CASE become_ready(p)
  <2>1. /\ proc[p].state \in {"BLOCKED", "PREEMPTED", "INIT"}
        /\ proc' = IF algorithm = "R" THEN RR_quantum(p, AfterIO(p)) ELSE AfterIO(p)
        /\ event_queue' = Tail(event_queue)
    BY <1>8 DEF become_ready, put_event
  <2>2. Changed(proc, proc', p)
    BY <1>4, <1>5, <2>1, WaitsSoundly
  <2>3. Fit(proc'[p]) /\ proc'[p].state # "INIT"
    BY <1>4, <1>5, <2>1, WaitsFit
  <2> QED
    BY <1>2, <1>3, <1>4, <1>5, <2>1, <2>2, <2>3, OneFits
<1> QED
  BY <1>3, <1>6, <1>7, <1>8

LEMMA NothingFits ==
  ASSUME PInv, UNCHANGED <<given, proc, event_queue>>
  PROVE  PInv'
BY DEF PInv, given, LinesAscend, Fit, Fresh

\* The process run is known by what run_process does.
LEMMA ProcessRun ==
  ASSUME TInv, PInv, Idle, run_process, DOMAIN ready_queue # {}, UNCHANGED given
  PROVE  \E E, R, p, drawn :
           /\ SInvAt(E, R) /\ p = Chosen /\ p \in R /\ p \in DOMAIN proc /\ p \notin E
           /\ drawn \in Draws(proc[p].CB) /\ proc' = Running(p, drawn)
           /\ proc[p].state = "READY" /\ Sound(proc[p]) /\ Fit(proc[p])
           /\ Changed(proc, proc', p) /\ Sound(proc'[p])
           /\ ready_queue' = Rest
           /\ event_queue' = Inserted(event_queue, p, Times(proc'))
<1>1. PICK E, R : SInvAt(E, R)
  BY DEF TInv, SInv, SInvAt
<1>2. PICK p : p = Chosen
  OBVIOUS
<1>3. PICK drawn \in Draws(proc[p].CB) :
        /\ proc' = Running(p, drawn) /\ ready_queue' = Rest
        /\ event_queue' = Inserted(event_queue, p, Times(Running(p, drawn)))
  BY <1>2 DEF run_process
<1>4. p \in R
  <2>1. size \in Nat \ {0} /\ Kept(ready_queue, size, R)
    BY <1>1, SlotsCount DEF SInvAt, Types, Placed
  <2> QED
    BY <1>1, <1>2, <2>1, TakeKeeps DEF SInvAt, Types
<1>5. /\ p \in DOMAIN proc /\ p \notin E /\ proc[p].state = "READY"
      /\ Sound(proc[p]) /\ Fit(proc[p])
      /\ proc = [q \in DOMAIN proc |-> proc[q]] /\ last_event \in Nat
  BY <1>1, <1>4 DEF SInvAt, Placed, Types, PInv
<1>6. Changed(proc, proc', p) /\ Sound(proc'[p])
  BY <1>3, <1>5, RunsSoundly
<1> QED
  BY <1>1, <1>2, <1>3, <1>4, <1>5, <1>6

LEMMA DispatchFits ==
  ASSUME TInv, PInv, Dispatch
  PROVE  PInv'
<1>1. UNCHANGED given
  BY DEF Dispatch
<1>2. CASE Idle /\ DOMAIN ready_queue # {}
  <2>1. PICK E, R, p, drawn :
           /\ SInvAt(E, R) /\ p \in DOMAIN proc /\ p \notin E
           /\ drawn \in Draws(proc[p].CB) /\ proc' = Running(p, drawn)
           /\ proc[p].state = "READY" /\ Sound(proc[p]) /\ Fit(proc[p])
           /\ Changed(proc, proc', p) /\ Sound(proc'[p])
           /\ event_queue' = Inserted(event_queue, p, Times(proc'))
    BY <1>1, <1>2, ProcessRun DEF Dispatch
  <2>2. /\ Types /\ Holds(event_queue, E) /\ E \subseteq DOMAIN proc
        /\ Ascending(event_queue, Times(proc)) /\ quantum \in Nat
        /\ algorithm = "R" => quantum # 0
    BY <2>1 DEF SInvAt, Placed, Types, PInv
  <2>3. PICK r : r = Running(p, drawn)[p]
    OBVIOUS
  <2>4. Fit(r) /\ r.state = "RUNNING"
    BY <2>1, <2>2, <2>3, RunsFit
  <2>5. Fit(proc'[p]) /\ proc'[p].state # "INIT"
    BY <2>1, <2>3, <2>4
  <2> QED
    BY <1>1, <2>1, <2>2, <2>5, OneFits
<1>3. CASE ~ (Idle /\ DOMAIN ready_queue # {})
  BY <1>1, <1>3, NothingFits DEF Dispatch, run_process, queues
<1> QED
  BY <1>2, <1>3

LEMMA ReadingFits ==
  ASSUME TInv, PInv, add_arriving_procs, UNCHANGED given
  PROVE  PInv'
<1>1. PICK E, R : SInvAt(E, R)
  BY DEF TInv, SInv, SInvAt
<1>2. CASE ~ TimeToRead
  BY <1>2, NothingFits DEF add_arriving_procs
<1>3. CASE TimeToRead
  <2> DEFINE next == maxpid + Arriving
             Far == {q \in maxpid .. next : Exists(q)}
  <2>1. PICK procs : procs = Read(next)
    OBVIOUS
  <2>2. proc' = procs /\ event_queue' = Joined(Coming, Times(procs))
    BY <1>3, <2>1 DEF add_arriving_procs
  <2>3. /\ maxpid \in Nat /\ input \in Seq(Lines) /\ Len(input) \in Nat
        /\ Holds(event_queue, E) /\ Ascending(event_queue, Times(proc))
        /\ DOMAIN proc = Old \cup E \cup R /\ Old \cap E = {}
        /\ \A p \in Old : proc[p].state = "INIT"
        /\ \A p \in DOMAIN proc : /\ p \in Nat /\ p < maxpid /\ Exists(p)
                                  /\ Sound(proc[p]) /\ Fit(proc[p])
    BY <1>1 DEF SInvAt, Placed, Types, PInv
  <2>4. /\ Arriving \in Nat /\ next \in Nat /\ maxpid <= next /\ New = maxpid .. next - 1
        /\ \A p \in New : Exists(p)
    BY <2>3, ArrivingFound DEF New
  <2>5. /\ DOMAIN procs = DOMAIN proc \cup Far
        /\ \A p \in DOMAIN proc : procs[p] = proc[p]
        /\ \A p \in Far \ DOMAIN proc : procs[p] = NewProcess(p)
    BY <2>1 DEF Read
  <2> HIDE DEF next
  <2>6. /\ New \subseteq Far
        /\ \A p \in Far : p \in Nat /\ maxpid <= p /\ Exists(p) /\ p \notin DOMAIN proc
    BY <2>3, <2>4
  <2>7. oldproc # NULL => oldproc \in Nat /\ maxpid = oldproc + 1 /\ oldproc \in Old
    <3>1. oldproc # NULL => oldproc \in Old
      BY DEF Old
    <3> QED
      BY <2>3, <3>1 DEF TInv, ReadsOn
  <2>8. /\ Old \cap New = {} /\ oldproc \notin New
        /\ \A p \in Old : oldproc # NULL /\ p = oldproc
    BY <2>3, <2>4, <2>7 DEF Old, NULL
  <2>9. \A p \in DOMAIN procs : Fit(procs[p]) /\ Sound(procs[p]) /\ p \in Nat /\ Exists(p)
    <3>1. \A p \in Far : Fit(NewProcess(p)) /\ Sound(NewProcess(p))
      BY <2>3, <2>6, NewFits, NewIsSound
    <3> HIDE DEF Far
    <3> QED
      BY <2>3, <2>5, <2>6, <3>1
  <2>10. PICK F : F = Old \cup New
    OBVIOUS
  <2>11. Holds(Coming, F) /\ E \cap F = {}
    <3>1. Holds(Coming, F)
      BY <2>3, <2>8, <2>10, ComingHolds
    <3> QED
      BY <2>3, <2>6, <2>10, <3>1
  <2> DEFINE FT == Times(procs)
             T == Fresh(procs)
  <2>12. \A p \in DOMAIN procs : FT[p] = procs[p].FT /\ FT[p] \in Int
    <3>1. \A p \in DOMAIN procs : procs[p].FT \in Int
      BY <2>9 DEF Sound, Process
    <3> QED
      BY <3>1 DEF Times
  <2>13. F \subseteq DOMAIN procs /\ E \subseteq DOMAIN procs
    BY <2>3, <2>5, <2>6, <2>10
  <2>14. Ascending(event_queue, FT)
    <3>1. \A e \in E : Times(proc)[e] = FT[e]
      BY <2>3, <2>5, <2>12, <2>13 DEF Times
    <3> QED
      BY <2>3, <3>1, AscendingAgrees
  <2>15. Ordered(event_queue, T)
    <3>1. E \cap T \subseteq Fresh(proc)
      BY <2>3, <2>5 DEF Fresh
    <3> QED
      BY <2>3, <3>1, OrderedStays DEF PInv
  <2>16. \A p \in T : p \in DOMAIN procs /\ FT[p] = input[p + 1].AT
    <3>1. \A p \in DOMAIN procs : procs[p].AT = input[p + 1].AT
      <4>1. \A p \in Far : NewProcess(p).AT = input[p + 1].AT
        BY DEF NewProcess
      <4> QED
        BY <2>5, <4>1 DEF TInv, AsRead
    <3>2. \A p \in T : p \in DOMAIN procs /\ procs[p].FT = procs[p].AT
      BY <2>9 DEF Fresh, Fit
    <3> HIDE DEF FT, T
    <3> QED
      BY <2>12, <3>1, <3>2
  <2>17. F \subseteq T
    <3>1. \A p \in Far : NewProcess(p).state = "INIT"
      BY DEF NewProcess
    <3>2. \A p \in F : procs[p].state = "INIT"
      BY <2>3, <2>5, <2>6, <2>10, <3>1
    <3> QED
      BY <2>13, <3>2 DEF Fresh
  <2>18. \A p, q \in T : p < q => FT[p] <= FT[q]
    <3>1. \A p \in DOMAIN procs : p + 1 \in 1 .. Len(input) /\ p \in Nat
      BY <2>3, <2>9 DEF Exists
    <3>2. \A p, q \in T : p < q => p + 1 < q + 1
      BY <2>16, <3>1
    <3> HIDE DEF FT, T
    <3> QED
      BY <2>16, <3>1, <3>2 DEF PInv, LinesAscend
  <2> HIDE DEF FT, T
  <2>19. \A e \in E, o \in F : e < o
    <3>1. \A e \in E : e \in Nat /\ e < maxpid /\ e \notin Old
      BY <2>3
    <3>2. \A o \in New : o \in Nat /\ maxpid <= o
      BY <2>6
    <3>3. \A e \in E, o \in New : e < o
      BY <2>3, <3>1, <3>2
    <3>4. \A e \in E, o \in Old : e < o
      BY <2>3, <2>7, <2>8, <3>1
    <3> QED
      BY <2>10, <3>3, <3>4
  <2> DEFINE s == Coming
  <2>20. s \in Seq(F) /\ Len(s) \in Nat /\ \A k \in 1 .. Len(s) : s[k] \in F
    BY <2>11 DEF Holds
  <2>21. \A i, j \in 1 .. Len(s) : i < j => s[i] < s[j]
    BY <2>3, <2>7, ComingAscends
  <2> HIDE DEF s
  <2>22. \A k \in 1 .. Len(s) :
           /\ Follows(s[k], E, T, FT)
           /\ \A j \in 1 .. k - 1 : s[j] < s[k] /\ FT[s[j]] <= FT[s[k]]
    <3> SUFFICES ASSUME NEW k \in 1 .. Len(s)
                 PROVE  /\ Follows(s[k], E, T, FT)
                        /\ \A j \in 1 .. k - 1 : s[j] < s[k] /\ FT[s[j]] <= FT[s[k]]
      OBVIOUS
    <3>1. Follows(s[k], E, T, FT)
      BY <2>17, <2>18, <2>19, <2>20 DEF Follows
    <3>2. \A j \in 1 .. k - 1 : j \in 1 .. Len(s) /\ j < k
      BY <2>20
    <3> QED
      BY <2>17, <2>18, <2>20, <2>21, <3>1, <3>2
  <2>23. Ordered(Joined(s, FT), T)
    <3>1. \A e \in E \cup F : FT[e] \in Int
      BY <2>12, <2>13
    <3>2. Holds(s, F)
      BY <2>11 DEF s
    <3> QED
      BY <2>3, <2>11, <2>14, <2>15, <2>22, <3>1, <3>2, JoinsAllOrdered
  <2>24. Ordered(event_queue, Fresh(proc))'
    BY <2>2, <2>23 DEF s, FT, T
  <2>25. /\ \A p \in DOMAIN proc' : Fit(proc[p])'
    BY <2>2, <2>9 DEF Fit, given
  <2> QED
    BY <2>24, <2>25 DEF PInv, LinesAscend, given
<1> QED
  BY <1>2, <1>3

LEMMA PInvStep ==
  ASSUME TInv, PInv, [Next]_svars
  PROVE  PInv'
<1>1. CASE Begin
  BY <1>1, ReadingFits DEF Begin
<1>2. CASE Advance
  BY <1>2, NothingFits DEF Advance, queues
<1>3. CASE transition_process
  BY <1>3, EventFits
<1>4. CASE Dispatch
  BY <1>4, DispatchFits
<1>5. CASE Arrivals
  <2>1. UNCHANGED given
    BY <1>5 DEF Arrivals
  <2>2. CASE reading_input
    BY <1>5, <2>1, <2>2, ReadingFits DEF Arrivals
  <2>3. CASE ~ reading_input
    BY <1>5, <2>1, <2>3, NothingFits DEF Arrivals
  <2> QED
    BY <2>2, <2>3
<1>6. CASE UNCHANGED svars
  BY <1>6, NothingFits DEF svars, queues
<1> QED
  BY <1>1, <1>2, <1>3, <1>4, <1>5, <1>6 DEF Next, Ended

-----------------------------------------------------------------------------
(* What the state of Processor does when that of the scheduler changes.    *)

LEMMA PrintedIs ==
  ASSUME NEW P, Told(P)
  PROVE  Printed = P
<1> DEFINE s == Names(printed)
           n == Len(printed)
<1>1. n \in Nat /\ s = [i \in 1 .. n |-> printed[i].pid] /\ DOMAIN printed = 1 .. n
  BY LenProperties DEF Told, Names
<1> HIDE DEF s, n
<1>2. {s[i] : i \in DOMAIN s} = P
  BY ListCounts DEF Told, s
<1> QED
  BY <1>1, <1>2 DEF Printed

\* Those in proc are jobs that are not done; the others are done or unread.
LEMMA JobsAre ==
  ASSUME TInv
  PROVE  /\ Len(input) \in Nat /\ Jobs = {p \in Nat : Exists(p)}
         /\ DOMAIN proc \subseteq Jobs /\ Printed \subseteq Jobs
         /\ Printed \cap DOMAIN proc = {}
         /\ \A p \in Jobs : p \notin Printed /\ p \notin DOMAIN proc => maxpid <= p
         /\ maxpid \in Nat
<1>1. PICK P : Told(P)
  BY DEF TInv
<1>2. Printed = P
  BY <1>1, PrintedIs
<1>3. /\ Types /\ input \in Seq(Lines) /\ Len(input) \in Nat /\ maxpid \in Nat
      /\ \A p \in DOMAIN proc : p \in Nat /\ Exists(p)
  BY DEF TInv, SInv, Types
<1>4. Jobs = {p \in Nat : Exists(p)}
  BY <1>3 DEF Jobs, Exists
<1>5. /\ P \cap DOMAIN proc = {}
      /\ P \cup DOMAIN proc = {p \in 0 .. maxpid - 1 : Exists(p)}
  BY <1>1 DEF Told
<1> QED
  BY <1>2, <1>3, <1>4, <1>5

\* No job moves: those read are coming, and so is what was not read.
LEMMA NoJobMoves ==
  ASSUME TInv, input' = input, printed' = printed,
         DOMAIN proc \subseteq DOMAIN proc',
         \A p \in DOMAIN proc : proc'[p] = proc[p],
         \A p \in DOMAIN proc' \ DOMAIN proc : proc'[p].state = "INIT" /\ proc'[p].cpu_time = 0
  PROVE  UNCHANGED <<JobNeed, JobPhase, JobGot, JobBurst>>
<1>1. Jobs' = Jobs /\ Printed' = Printed /\ JobNeed' = JobNeed
  BY DEF Jobs, Printed, JobNeed
<1>2. \A p : Phase(p)' = Phase(p) /\ Given(p)' = Given(p)
  <2>1. PhaseOf["INIT"] = "coming" /\ PhaseOf' = PhaseOf
    BY DEF PhaseOf
  <2> SUFFICES ASSUME NEW p PROVE Phase(p)' = Phase(p) /\ Given(p)' = Given(p)
    OBVIOUS
  <2>2. CASE p \in Printed
    BY <1>1, <2>2 DEF Phase, Given
  <2>3. CASE p \notin Printed /\ p \in DOMAIN proc
    BY <1>1, <2>1, <2>3 DEF Phase, Given
  <2>4. CASE p \notin Printed /\ p \notin DOMAIN proc
    BY <1>1, <2>1, <2>4 DEF Phase, Given
  <2> QED
    BY <2>2, <2>3, <2>4
<1>3. JobPhase' = JobPhase /\ JobGot' = JobGot
  BY <1>1, <1>2 DEF JobPhase, JobGot
<1>4. OnCPU' = OnCPU
  BY DEF OnCPU
<1>5. JobBurst' = JobBurst
  <2>1. CASE OnCPU = {}
    BY <1>4, <2>1 DEF JobBurst
  <2>2. CASE OnCPU # {}
    <3>1. (CHOOSE p \in OnCPU : TRUE) \in OnCPU /\ OnCPU \subseteq DOMAIN proc
      BY <2>2 DEF OnCPU
    <3> QED
      BY <1>4, <2>2, <3>1 DEF JobBurst
  <2> QED
    BY <2>1, <2>2
<1> QED
  BY <1>1, <1>3, <1>5

\* The job p moves, and no other.
LEMMA OneJobMoves ==
  ASSUME TInv, input' = input, printed' = printed,
         NEW p \in DOMAIN proc, Changed(proc, proc', p)
  PROVE  /\ JobNeed' = JobNeed /\ p \in Jobs /\ Jobs' = Jobs
         /\ JobPhase[p] = PhaseOf[proc[p].state] /\ JobGot[p] = proc[p].cpu_time
         /\ JobPhase' = [JobPhase EXCEPT ![p] = PhaseOf[proc'[p].state]]
         /\ JobGot' = [JobGot EXCEPT ![p] = proc'[p].cpu_time]
<1>1. Jobs' = Jobs /\ Printed' = Printed /\ JobNeed' = JobNeed /\ PhaseOf' = PhaseOf
  BY DEF Jobs, Printed, JobNeed, PhaseOf
<1>2. p \in Jobs /\ p \notin Printed
  BY JobsAre
<1>3. /\ p \in DOMAIN proc' /\ DOMAIN proc' = DOMAIN proc
      /\ \A q \in DOMAIN proc : q # p => proc'[q] = proc[q]
  BY DEF Changed
<1>4. /\ Phase(p) = PhaseOf[proc[p].state] /\ Given(p) = proc[p].cpu_time
      /\ Phase(p)' = PhaseOf[proc'[p].state] /\ Given(p)' = proc'[p].cpu_time
  BY <1>1, <1>2, <1>3 DEF Phase, Given
<1>5. ASSUME NEW q, q # p
      PROVE  Phase(q)' = Phase(q) /\ Given(q)' = Given(q)
  <2>1. CASE q \in Printed
    BY <1>1, <2>1 DEF Phase, Given
  <2>2. CASE q \notin Printed /\ q \in DOMAIN proc
    BY <1>1, <1>3, <1>5, <2>2 DEF Phase, Given
  <2>3. CASE q \notin Printed /\ q \notin DOMAIN proc
    BY <1>1, <1>3, <2>3 DEF Phase, Given
  <2> QED
    BY <2>1, <2>2, <2>3
<1>6. /\ JobPhase = [q \in Jobs |-> Phase(q)] /\ JobGot = [q \in Jobs |-> Given(q)]
      /\ JobPhase' = [q \in Jobs |-> Phase(q)'] /\ JobGot' = [q \in Jobs |-> Given(q)']
  BY <1>1 DEF JobPhase, JobGot
<1>7. JobPhase' = [JobPhase EXCEPT ![p] = PhaseOf[proc'[p].state]]
  BY <1>2, <1>4, <1>5, <1>6
<1>8. JobGot' = [JobGot EXCEPT ![p] = proc'[p].cpu_time]
  BY <1>2, <1>4, <1>5, <1>6
<1> QED
  BY <1>1, <1>2, <1>4, <1>6, <1>7, <1>8

\* The job p is done: it got what it needs.
LEMMA OneJobEnds ==
  ASSUME TInv, TInv', input' = input, NEW p \in DOMAIN proc,
         printed' = Append(printed, Line(p)), Finishing(p),
         proc' = [q \in DOMAIN proc \ {p} |-> proc[q]]
  PROVE  /\ JobNeed' = JobNeed /\ p \in Jobs
         /\ JobPhase[p] = PhaseOf[proc[p].state] /\ JobGot[p] = JobNeed[p]
         /\ JobPhase' = [JobPhase EXCEPT ![p] = "done"]
         /\ JobGot' = JobGot
<1>1. Jobs' = Jobs /\ JobNeed' = JobNeed
  BY DEF Jobs, JobNeed
<1>2. p \in Jobs /\ p \notin Printed
  BY JobsAre
<1>3. Printed' = Printed \cup {p}
  <2>1. PICK P : Told(P)
    BY DEF TInv
  <2>2. printed \in Seq(Entry) /\ Len(printed) \in Nat /\ DOMAIN printed = 1 .. Len(printed)
    BY <2>1, LenProperties DEF Told
  <2> DEFINE n == Len(printed)
             t == Append(printed, Line(p))
  <2>3. /\ DOMAIN t = 1 .. n + 1 /\ t[n + 1] = Line(p)
        /\ \A i \in 1 .. n : t[i] = printed[i]
    BY <2>2
  <2>4. Line(p).pid = p
    BY DEF Line
  <2> HIDE DEF t, n
  <2>5. {t[i].pid : i \in DOMAIN t} = {printed[i].pid : i \in 1 .. n} \cup {t[n + 1].pid}
    <3>1. \A i : i \in 1 .. n + 1 <=> i \in 1 .. n \/ i = n + 1
      BY <2>2 DEF n
    <3> QED
      BY <2>3, <3>1
  <2>6. Printed' = {t[i].pid : i \in DOMAIN t}
    BY DEF Printed, t
  <2> QED
    BY <2>2, <2>3, <2>4, <2>5, <2>6 DEF Printed, n
<1>4. proc[p].cpu_time = proc[p].TC /\ proc[p].TC = input[p + 1].TC
  BY DEF Finishing, TInv, AsRead
<1>5. /\ Phase(p) = PhaseOf[proc[p].state] /\ Given(p) = input[p + 1].TC
      /\ Phase(p)' = "done" /\ Given(p)' = input[p + 1].TC
  BY <1>2, <1>3, <1>4 DEF Phase, Given
<1>6. ASSUME NEW q, q # p
      PROVE  Phase(q)' = Phase(q) /\ Given(q)' = Given(q)
  <2>1. PhaseOf' = PhaseOf
    BY DEF PhaseOf
  <2>2. CASE q \in Printed
    <3>1. q \in Printed' /\ q \notin DOMAIN proc /\ q \notin DOMAIN proc'
      BY <1>3, <2>2, JobsAre
    <3> QED
      BY <2>2, <3>1 DEF Phase, Given
  <2>3. CASE q \notin Printed /\ q \in DOMAIN proc
    BY <1>3, <1>6, <2>1, <2>3 DEF Phase, Given
  <2>4. CASE q \notin Printed /\ q \notin DOMAIN proc
    BY <1>3, <1>6, <2>4 DEF Phase, Given
  <2> QED
    BY <2>2, <2>3, <2>4
<1>7. /\ JobPhase = [q \in Jobs |-> Phase(q)] /\ JobGot = [q \in Jobs |-> Given(q)]
      /\ JobPhase' = [q \in Jobs |-> Phase(q)'] /\ JobGot' = [q \in Jobs |-> Given(q)']
  BY <1>1 DEF JobPhase, JobGot
<1>8. JobNeed[p] = input[p + 1].TC
  BY <1>2 DEF JobNeed
<1>9. JobPhase' = [JobPhase EXCEPT ![p] = "done"]
  BY <1>2, <1>5, <1>6, <1>7
<1>10. JobGot' = JobGot
  <2>1. \A q \in Jobs : Given(q)' = Given(q)
    BY <1>5, <1>6
  <2> QED
    BY <1>7, <2>1
<1> QED
  BY <1>1, <1>2, <1>5, <1>7, <1>8, <1>9, <1>10

\* Who runs, and for how long.
LEMMA WhoRuns ==
  ASSUME SInv
  PROVE  /\ ~ process_running => OnCPU = {} /\ JobBurst = 0
         /\ \A p \in DOMAIN proc : proc[p].state = "RUNNING" =>
              process_running /\ OnCPU = {p} /\ JobBurst = proc[p].runtime
<1>1. AtMostOneRuns
  BY DEF SInv
<1>2. ~ process_running => OnCPU = {}
  BY <1>1 DEF AtMostOneRuns, OnCPU
<1>3. ASSUME NEW p \in DOMAIN proc, proc[p].state = "RUNNING"
      PROVE  process_running /\ OnCPU = {p}
  BY <1>1, <1>3 DEF AtMostOneRuns, OnCPU
<1>4. \A p : OnCPU = {p} => JobBurst = proc[p].runtime
  <2> SUFFICES ASSUME NEW p, OnCPU = {p} PROVE JobBurst = proc[p].runtime
    OBVIOUS
  <2>1. OnCPU # {} /\ (CHOOSE q \in OnCPU : TRUE) = p
    OBVIOUS
  <2> QED
    BY <2>1 DEF JobBurst
<1> QED
  BY <1>2, <1>3, <1>4 DEF JobBurst

LEMMA WhoRunsThen ==
  (SInv => /\ ~ process_running => OnCPU = {} /\ JobBurst = 0
           /\ \A p \in DOMAIN proc : proc[p].state = "RUNNING" =>
                process_running /\ OnCPU = {p} /\ JobBurst = proc[p].runtime)'
<1>1. (SInv => /\ ~ process_running => OnCPU = {} /\ JobBurst = 0
               /\ \A p \in DOMAIN proc : proc[p].state = "RUNNING" =>
                process_running /\ OnCPU = {p} /\ JobBurst = proc[p].runtime)
  BY WhoRuns
<1> QED
  BY <1>1, PTL

\* Under LCFS the order is the ready queue's, from its end.
LEMMA Backwards ==
  ASSUME NEW S, NEW s \in Seq(S), NEW p \in S
  PROVE  /\ Reverse(<<p>> \o s) = Append(Reverse(s), p)
         /\ s # << >> => /\ Reverse(s)[Len(Reverse(s))] = Head(s)
                         /\ SubSeq(Reverse(s), 1, Len(Reverse(s)) - 1) = Reverse(Tail(s))
<1> DEFINE n == Len(s)
           r == Reverse(s)
<1>1. n \in Nat /\ \A i \in 1 .. n : n - i + 1 \in 1 .. n /\ s[i] \in S
  OBVIOUS
<1>2. r = [i \in 1 .. n |-> s[n - i + 1]]
  BY DEF Reverse
<1> HIDE DEF n
<1>3. \A i \in 1 .. n : s[n - i + 1] \in S
  BY <1>1
<1>4. r \in Seq(S) /\ Len(r) = n /\ \A i \in 1 .. n : r[i] = s[n - i + 1]
  <2>1. r \in [1 .. n -> S] /\ \A i \in 1 .. n : r[i] = s[n - i + 1]
    BY <1>2, <1>3
  <2> HIDE DEF r
  <2>2. r \in Seq(S) /\ DOMAIN r = 1 .. n
    BY <1>1, <2>1
  <2>3. Len(r) \in Nat /\ 1 .. Len(r) = 1 .. n
    BY <2>2, LenProperties
  <2> QED
    BY <1>1, <2>1, <2>2, <2>3
<1>5. Reverse(<<p>> \o s) = Append(r, p)
  <2> DEFINE a == <<p>>
             c == a \o s
  <2>1. a \in Seq(S) /\ Len(a) = 1 /\ a[1] = p
    OBVIOUS
  <2> HIDE DEF a
  <2>2. /\ c \in Seq(S) /\ Len(c) = n + 1
        /\ \A i \in 1 .. n + 1 : c[i] = IF i <= 1 THEN p ELSE s[i - 1]
    <3>0. /\ c \in Seq(S) /\ Len(c) = Len(a) + n
          /\ \A i \in 1 .. Len(a) + n :
               c[i] = IF i <= Len(a) THEN a[i] ELSE s[i - Len(a)]
      BY <2>1, ConcatProperties DEF n
    <3>1. /\ c \in Seq(S) /\ Len(c) = 1 + n
          /\ \A i \in 1 .. 1 + n : c[i] = IF i <= 1 THEN a[i] ELSE s[i - 1]
      BY <2>1, <3>0
    <3> HIDE DEF c
    <3>2. \A i \in 1 .. n + 1 : i <= 1 => i = 1
      BY <1>1
    <3> QED
      BY <1>1, <2>1, <3>1, <3>2
  <2> HIDE DEF c, r
  <2>3. Reverse(c) = [i \in 1 .. n + 1 |-> c[(n + 1) - i + 1]]
    BY <2>2 DEF Reverse
  <2>4. /\ Append(r, p) \in Seq(S) /\ Len(Append(r, p)) = n + 1
        /\ \A i \in 1 .. n + 1 : Append(r, p)[i] = IF i <= n THEN r[i] ELSE p
    <3>1. /\ Append(r, p) \in Seq(S) /\ Len(Append(r, p)) = Len(r) + 1
          /\ \A i \in 1 .. Len(r) : Append(r, p)[i] = r[i]
          /\ Append(r, p)[Len(r) + 1] = p
      BY <1>4, AppendProperties
    <3> QED
      BY <1>1, <1>4, <3>1
  <2>5. Append(r, p) = [i \in 1 .. n + 1 |-> Append(r, p)[i]]
    BY <2>4, LenProperties
  <2>6. \A i \in 1 .. n + 1 : Append(r, p)[i] = c[(n + 1) - i + 1]
    <3> SUFFICES ASSUME NEW i \in 1 .. n + 1
                 PROVE  Append(r, p)[i] = c[(n + 1) - i + 1]
      OBVIOUS
    <3>1. CASE i <= n
      <4>1. /\ i \in 1 .. n /\ (n + 1) - i + 1 \in 1 .. n + 1 /\ ~ ((n + 1) - i + 1 <= 1)
            /\ ((n + 1) - i + 1) - 1 = n - i + 1
        BY <1>1, <3>1
      <4> QED
        BY <1>4, <2>2, <2>4, <3>1, <4>1
    <3>2. CASE ~ (i <= n)
      <4>1. (n + 1) - i + 1 = 1 /\ 1 \in 1 .. n + 1
        BY <1>1, <3>2
      <4>2. c[1] = p
        BY <2>2, <4>1
      <4>3. c[(n + 1) - i + 1] = p
        BY <4>1, <4>2
      <4> QED
        BY <2>4, <3>2, <4>3
    <3> QED
      BY <3>1, <3>2
  <2> QED
    BY <2>3, <2>5, <2>6 DEF c, a
<1>6. ASSUME s # << >>
      PROVE  /\ r[Len(r)] = Head(s)
             /\ SubSeq(r, 1, Len(r) - 1) = Reverse(Tail(s))
  <2>1. n \in Nat \ {0} /\ Head(s) = s[1]
    BY <1>6 DEF n
  <2>2. n \in 1 .. n /\ n - n + 1 = 1
    BY <2>1
  <2>3. r[Len(r)] = Head(s)
    BY <1>4, <2>1, <2>2
  <2> DEFINE t == Tail(s)
             m == n - 1
             b == SubSeq(r, 1, m)
  <2>4. Len(t) = m /\ \A i \in 1 .. m : t[i] = s[i + 1]
    BY <1>6, HeadTailProperties DEF n
  <2> HIDE DEF t, r
  <2>5. Reverse(t) = [i \in 1 .. m |-> t[m - i + 1]]
    BY <2>4 DEF Reverse
  <2>6. \A i \in 1 .. m : /\ i \in 1 .. n /\ m - i + 1 \in 1 .. m
                          /\ (m - i + 1) + 1 = n - i + 1
    BY <2>1
  <2>7. b = [i \in 1 .. m |-> r[i]]
    <3>1. \A i \in 1 .. m : r[i] \in S
      BY <1>3, <1>4, <2>6
    <3>2. /\ b \in Seq(S) /\ Len(b) = IF 1 <= m THEN m - 1 + 1 ELSE 0
          /\ \A i \in 1 .. m - 1 + 1 : b[i] = r[1 + i - 1]
      BY <2>1, <3>1, SubSeqProperties
    <3> HIDE DEF b
    <3>3. Len(b) = m /\ \A i \in 1 .. m : b[i] = r[i]
      BY <2>1, <3>2
    <3> QED
      BY <3>2, <3>3, LenProperties
  <2>8. \A i \in 1 .. m : r[i] = t[m - i + 1]
    <3> SUFFICES ASSUME NEW i \in 1 .. m PROVE r[i] = t[m - i + 1]
      OBVIOUS
    <3>1. r[i] = s[n - i + 1]
      BY <1>4, <2>6
    <3>2. t[m - i + 1] = s[(m - i + 1) + 1]
      BY <2>4, <2>6
    <3> QED
      BY <2>6, <3>1, <3>2
  <2>9. b = Reverse(t)
    BY <2>5, <2>7, <2>8
  <2> QED
    BY <1>4, <2>3, <2>9 DEF t
<1> QED
  BY <1>5, <1>6

-----------------------------------------------------------------------------
(* The heap of SJF with no more than three elements: its misplaced first   *)
(* comparison makes it a list in the order of the keys.                    *)

Descending(key, a, n) == \A i \in 1 .. n - 1 : key[a[i]] <= key[a[i - 1]]

LEMMA SmallPut ==
  ASSUME NEW n \in Nat, n <= 2, NEW a, NEW E, Once(a, 0 .. n - 1, E), NEW x, x \notin E,
         NEW key, \A e \in E \cup {x} : key[e] \in Int, Descending(key, a, n)
  PROVE  Descending(key, Put(key, a, n, x), n + 1)
<1>0. n \in Nat /\ \A i \in 0 .. n - 1 : a[i] \in E
  BY DEF Once
<1>1. PICK g : Rising(g, key, a, n, x) /\ Put(key, a, n, x) = g[n].a
  <2>1. HasRisen(key, a, n, x)
    BY PutHolds
  <2> QED
    BY <2>1 DEF HasRisen
<1> DEFINE added == [i \in 0 .. n |-> IF i = n THEN x ELSE a[i]]
<1>2. g[0] = [a |-> added, i |-> n]
  BY <1>1 DEF Rising
<1>3. CASE n = 0
  BY <1>1, <1>3 DEF Descending
<1>4. CASE n = 1
  <2>1. Parent(1) = 0
    BY DEF Parent
  <2>2. /\ DOMAIN added = {0, 1} /\ added[0] = a[0] /\ added[1] = x
        /\ key[a[0]] \in Int /\ key[x] \in Int
    <3>1. 0 .. 1 = {0, 1} /\ 0 \in 0 .. n - 1
      BY <1>4
    <3> QED
      BY <1>0, <1>4, <3>1
  <2> HIDE DEF added
  <2>3. g[1] = Raised(key, x, g[0])
    <3>1. 1 \in 1 .. n /\ 1 - 1 = 0
      BY <1>4
    <3> QED
      BY <1>1, <3>1 DEF Rising
  <2>4. g[0].a = added /\ g[0].i = 1
    BY <1>2, <1>4
  <2>5. CASE key[x] > key[a[0]]
    <3>1. g[1].a = Exchanged(added, 1, 0)
      BY <2>1, <2>2, <2>3, <2>4, <2>5 DEF Raised, Rises, Before
    <3>2. g[1].a[0] = x /\ g[1].a[1] = a[0]
      BY <2>2, <3>1 DEF Exchanged
    <3>3. \A i \in 1 .. (n + 1) - 1 : i = 1 /\ i - 1 = 0
      BY <1>4
    <3> QED
      BY <1>1, <1>4, <2>2, <2>5, <3>2, <3>3 DEF Descending
  <2>6. CASE ~ (key[x] > key[a[0]])
    <3>1. g[1].a = added
      BY <2>1, <2>2, <2>3, <2>4, <2>6 DEF Raised, Rises, Before
    <3>3. \A i \in 1 .. (n + 1) - 1 : i = 1 /\ i - 1 = 0
      BY <1>4
    <3> QED
      BY <1>1, <1>4, <2>2, <2>6, <3>1, <3>3 DEF Descending
  <2> QED
    BY <2>5, <2>6
<1>5. CASE n = 2
  <2>1. Parent(1) = 0 /\ Parent(2) = 1
    BY DEF Parent
  <2>2. /\ DOMAIN added = {0, 1, 2} /\ added[0] = a[0] /\ added[1] = a[1] /\ added[2] = x
        /\ key[a[0]] \in Int /\ key[a[1]] \in Int /\ key[x] \in Int
    <3>1. 0 .. 2 = {0, 1, 2} /\ 0 \in 0 .. n - 1 /\ 1 \in 0 .. n - 1
      BY <1>5
    <3> QED
      BY <1>0, <1>5, <3>1
  <2> HIDE DEF added
  <2>3. g[1] = Raised(key, x, g[0]) /\ g[2] = Raised(key, x, g[1])
    <3>1. 1 \in 1 .. n /\ 1 - 1 = 0 /\ 2 \in 1 .. n /\ 2 - 1 = 1
      BY <1>5
    <3> QED
      BY <1>1, <3>1 DEF Rising
  <2>4. g[0].a = added /\ g[0].i = 2
    BY <1>2, <1>5
  <2>5. key[a[1]] <= key[a[0]]
    <3>1. 1 \in 1 .. n - 1 /\ 1 - 1 = 0
      BY <1>5
    <3> QED
      BY <3>1 DEF Descending
  <2>6. \A i \in 1 .. (n + 1) - 1 : (i = 1 /\ i - 1 = 0) \/ (i = 2 /\ i - 1 = 1)
    BY <1>5
  <2>7. CASE ~ (key[x] > key[a[1]])
    <3>1. g[1] = g[0]
      BY <2>1, <2>2, <2>3, <2>4, <2>7 DEF Raised, Rises, Before
    <3>2. g[2].a = added
      BY <2>1, <2>2, <2>3, <2>4, <2>7, <3>1 DEF Raised, Rises, Before
    <3> QED
      BY <1>1, <1>5, <2>2, <2>5, <2>6, <2>7, <3>2 DEF Descending
  <2>8. CASE key[x] > key[a[1]]
    <3>1. g[1].a = Exchanged(added, 2, 1) /\ g[1].i = 1
      BY <2>1, <2>2, <2>3, <2>4, <2>8 DEF Raised, Rises, Before
    <3> DEFINE b == Exchanged(added, 2, 1)
    <3>2. DOMAIN b = {0, 1, 2} /\ b[0] = a[0] /\ b[1] = x /\ b[2] = a[1]
      BY <2>2 DEF Exchanged
    <3> HIDE DEF b
    <3>3. g[1].a = b
      BY <3>1 DEF b
    <3>4. CASE ~ (key[x] > key[a[0]])
      <4>1. g[2].a = b
        BY <2>1, <2>3, <3>1, <3>2, <3>3, <3>4 DEF Raised, Rises, Before
      <4> QED
        BY <1>1, <1>5, <2>2, <2>6, <2>8, <3>2, <3>4, <4>1 DEF Descending
    <3>5. CASE key[x] > key[a[0]]
      <4>1. g[2].a = Exchanged(b, 1, 0)
        BY <2>1, <2>3, <3>1, <3>2, <3>3, <3>5 DEF Raised, Rises, Before
      <4>2. g[2].a[0] = x /\ g[2].a[1] = a[0] /\ g[2].a[2] = a[1]
        BY <3>2, <4>1 DEF Exchanged
      <4> QED
        BY <1>1, <1>5, <2>2, <2>5, <2>6, <3>5, <4>2 DEF Descending
    <3> QED
      BY <3>4, <3>5
  <2> QED
    BY <2>7, <2>8
<1> QED
  BY <1>3, <1>4, <1>5

LEMMA SmallSifted ==
  ASSUME NEW n \in Nat \ {0}, n <= 3, NEW a, NEW E, Once(a, 0 .. n - 1, E), NEW key,
         \A e \in E : key[e] \in Int, Descending(key, a, n)
  PROVE  Descending(key, Sifted(key, a, n, TRUE).a, n - 1)
<1>0. n \in Nat \ {0} /\ \A i \in 0 .. n - 1 : a[i] \in E
  BY DEF Once
<1>1. PICK g : /\ Sinking(g, key, a, n - 1, TRUE, n)
               /\ Sifted(key, a, n, TRUE).a =
                    [i \in 0 .. n - 2 |-> Settled(key, n - 1, g[n])[i]]
  <2>1. HasSunk(key, a, n, TRUE)
    BY SiftedHolds
  <2> QED
    BY <2>1 DEF HasSunk
<1> DEFINE front == [i \in 0 .. n - 1 |-> IF i = 0 THEN a[n - 1] ELSE a[i]]
<1>2. g[0] = [a |-> front, i |-> 1, done |-> FALSE, strayed |-> FALSE]
  BY <1>1 DEF Sinking
<1>3. CASE n \in {1, 2}
  <2>1. \A i \in 1 .. (n - 1) - 1 : FALSE
    BY <1>3
  <2> QED
    BY <2>1 DEF Descending
<1>4. CASE n = 3
  <2>1. \A s : s.i = 1 => Lowered(key, 2, TRUE, s) = s
    BY DEF Lowered, GoesOn
  <2>2. g[1] = g[0] /\ g[2] = g[0] /\ g[3] = g[0]
    <3>1. /\ 1 \in 1 .. n /\ 1 - 1 = 0 /\ 2 \in 1 .. n /\ 2 - 1 = 1 /\ 3 \in 1 .. n
          /\ 3 - 1 = 2 /\ n - 1 = 2
      BY <1>4
    <3>2. /\ g[1] = Lowered(key, 2, TRUE, g[0]) /\ g[2] = Lowered(key, 2, TRUE, g[1])
          /\ g[3] = Lowered(key, 2, TRUE, g[2])
      BY <1>1, <3>1 DEF Sinking
    <3>3. g[0].i = 1
      BY <1>2
    <3> QED
      BY <2>1, <3>2, <3>3
  <2>3. Parent(1) = 0
    BY DEF Parent
  <2>4. /\ DOMAIN front = {0, 1, 2} /\ front[0] = a[2] /\ front[1] = a[1] /\ front[2] = a[2]
        /\ key[a[2]] \in Int /\ key[a[1]] \in Int
    <3>1. 0 .. 2 = {0, 1, 2} /\ 2 \in 0 .. n - 1 /\ 1 \in 0 .. n - 1 /\ n - 1 = 2
      BY <1>4
    <3> QED
      BY <1>0, <3>1
  <2> HIDE DEF front
  <2>5. key[a[2]] <= key[a[1]]
    <3>1. 2 \in 1 .. n - 1 /\ 2 - 1 = 1
      BY <1>4
    <3> QED
      BY <3>1 DEF Descending
  <2>6. g[3].a = front /\ g[3].i = 1
    BY <1>2, <2>2
  <2>7. /\ Sifted(key, a, n, TRUE).a = [i \in 0 .. 1 |-> Settled(key, 2, g[3])[i]]
    <3>1. n - 1 = 2 /\ n - 2 = 1
      BY <1>4
    <3> QED
      BY <1>1, <1>4, <3>1
  <2> DEFINE r == Sifted(key, a, n, TRUE).a
             l == Settled(key, 2, g[3])
  <2> HIDE DEF l
  <2>8. r[0] = l[0] /\ r[1] = l[1]
    <3>1. r = [i \in 0 .. 1 |-> l[i]]
      BY <2>7 DEF l
    <3> HIDE DEF r
    <3> QED
      BY <3>1
  <2> USE DEF l
  <2> HIDE DEF r
  <2>9. \A i \in 1 .. (n - 1) - 1 : i = 1 /\ i - 1 = 0
    BY <1>4
  <2>10. CASE key[a[1]] > key[a[2]]
    <3>1. l = Exchanged(front, 0, 1)
      BY <2>3, <2>4, <2>6, <2>10 DEF Settled, Before
    <3>2. l[0] = a[1] /\ l[1] = a[2]
      BY <2>4, <3>1 DEF Exchanged
    <3> QED
      BY <2>5, <2>8, <2>9, <3>2 DEF Descending, r
  <2>11. CASE ~ (key[a[1]] > key[a[2]])
    <3>1. l = front
      BY <2>3, <2>4, <2>6, <2>11 DEF Settled, Before
    <3>2. l[0] = a[2] /\ l[1] = a[1] /\ key[a[1]] <= key[a[2]]
      BY <2>4, <2>11, <3>1
    <3> QED
      BY <2>8, <2>9, <3>2 DEF Descending, r
  <2> QED
    BY <2>10, <2>11
<1>5. n \in {1, 2} \/ n = 3
  OBVIOUS
<1> QED
  BY <1>3, <1>4, <1>5
LEMMA DescendingAgrees ==
  ASSUME NEW n \in Nat, NEW a, NEW key, NEW other,
         \A i \in 0 .. n - 1 : other[a[i]] = key[a[i]], Descending(key, a, n)
  PROVE  Descending(other, a, n)
<1>1. \A i \in 1 .. n - 1 : i \in 0 .. n - 1 /\ i - 1 \in 0 .. n - 1
  OBVIOUS
<1> QED
  BY <1>1 DEF Descending

\* Three at most are ready under SJF; they are in the order of their totals.
Few    == algorithm = "S" => size <= 3
Sorted == algorithm = "S" => Descending(JobNeed, ready_queue, size)

LEMMA NeedsAreTotals ==
  ASSUME TInv, NEW p \in DOMAIN proc
  PROVE  JobNeed[p] = proc[p].TC /\ JobNeed[p] \in Int
<1>1. p \in Jobs
  BY JobsAre
<1>2. proc[p].TC \in Nat
  BY DEF TInv, SInv, Types, Sound, Process
<1>3. JobNeed[p] = proc[p].TC
  BY <1>1 DEF JobNeed, TInv, AsRead
<1> QED
  BY <1>2, <1>3

LEMMA PutSorts ==
  ASSUME TInv, Sorted, Few', transition_process, NEW p, p = Head(event_queue), become_ready(p)
  PROVE  Sorted'
<1> SUFFICES ASSUME algorithm' = "S" PROVE Descending(JobNeed, ready_queue, size)'
  BY DEF Sorted
<1> DEFINE TC == [q \in DOMAIN AfterIO(p) |-> AfterIO(p)[q].TC]
<1>1. /\ Due /\ UNCHANGED <<algorithm, quantum, input>> /\ algorithm = "S"
      /\ proc[p].state \in {"BLOCKED", "PREEMPTED", "INIT"}
      /\ size' = size + 1
      /\ ready_queue' = Put(TC, ready_queue, Cardinality(DOMAIN ready_queue), p)
  BY DEF transition_process, become_ready, put_event, given, SJF_put
<1>2. PICK E, R : SInvAt(E, R)
  BY DEF TInv, SInv, SInvAt
<1>3. /\ p \in DOMAIN proc /\ p \notin R /\ R \subseteq DOMAIN proc
      /\ proc = [q \in DOMAIN proc |-> proc[q]] /\ size \in Nat
      /\ Kept(ready_queue, size, R)
  BY <1>1, <1>2, EventTaken DEF SInvAt, Types, Placed
<1>4. Once(ready_queue, 0 .. size - 1, R) /\ Cardinality(DOMAIN ready_queue) = size
  BY <1>1, <1>3, SlotsCount DEF Kept, Places
<1>5. \A q \in DOMAIN proc : TC[q] = JobNeed[q] /\ JobNeed[q] \in Int
  <2>1. DOMAIN AfterIO(p) = DOMAIN proc
        /\ \A q \in DOMAIN proc : AfterIO(p)[q].TC = proc[q].TC
    BY <1>3 DEF AfterIO
  <2>2. \A q \in DOMAIN proc : TC[q] = proc[q].TC
    BY <2>1
  <2> QED
    BY <2>2, NeedsAreTotals
<1> HIDE DEF TC
<1>6. size <= 2
  BY <1>1, <1>3 DEF Few
<1>7. \A i \in 0 .. size - 1 : ready_queue[i] \in R
  BY <1>4 DEF Once
<1>8. Descending(TC, ready_queue, size)
  <2>1. \A i \in 0 .. size - 1 : TC[ready_queue[i]] = JobNeed[ready_queue[i]]
    BY <1>3, <1>5, <1>7
  <2> QED
    BY <1>1, <1>3, <2>1, DescendingAgrees DEF Sorted
<1>9. Descending(TC, Put(TC, ready_queue, size, p), size + 1)
  <2>1. \A e \in R \cup {p} : TC[e] \in Int
    BY <1>3, <1>5
  <2> QED
    BY <1>3, <1>4, <1>6, <1>8, <2>1, SmallPut
<1>10. \A i \in 0 .. size : ready_queue'[i] \in R \cup {p}
  <2>1. Put(TC, ready_queue, size, p) \in [0 .. size -> R \cup {p}]
    BY <1>3, <1>4, PutHolds
  <2> QED
    BY <1>1, <1>4, <2>1
<1>11. \A i \in 0 .. (size + 1) - 1 : JobNeed[ready_queue'[i]] = TC[ready_queue'[i]]
  BY <1>3, <1>5, <1>10
<1>12. Descending(JobNeed, ready_queue', size + 1)
  <2>1. Descending(TC, ready_queue', size + 1)
    BY <1>1, <1>4, <1>9
  <2>2. PICK n \in Nat : n = size + 1
    BY <1>3
  <2> QED
    BY <1>11, <2>1, <2>2, DescendingAgrees
<1>13. JobNeed' = JobNeed
  BY <1>1 DEF JobNeed, Jobs
<1> QED
  BY <1>1, <1>12, <1>13

LEMMA TakeSorts ==
  ASSUME TInv, PInv, Sorted, Few, Dispatch, Idle, DOMAIN ready_queue # {}
  PROVE  Sorted'
<1> SUFFICES ASSUME algorithm' = "S" PROVE Descending(JobNeed, ready_queue, size)'
  BY DEF Sorted
<1>1. UNCHANGED <<algorithm, quantum, input>> /\ UNCHANGED given /\ algorithm = "S" /\ run_process
  BY DEF Dispatch, given
<1> DEFINE TC == [q \in DOMAIN proc |-> proc[q].TC]
<1>2. PICK E, R : SInvAt(E, R)
  BY DEF TInv, SInv, SInvAt
<1>3. /\ size \in Nat \ {0} /\ Kept(ready_queue, size, R) /\ R \subseteq DOMAIN proc
      /\ Cardinality(DOMAIN ready_queue) = size
  BY <1>2, SlotsCount DEF SInvAt, Types, Placed
<1>4. Once(ready_queue, 0 .. size - 1, R)
  BY <1>1, <1>3 DEF Kept, Places
<1>5. size' = size - 1 /\ ready_queue' = Sifted(TC, ready_queue, size, TRUE).a
  <2>1. size' = IF size > 0 THEN size - 1 ELSE 0
    BY <1>1 DEF run_process
  <2>2. ready_queue' = Rest
    BY <1>1 DEF run_process
  <2>3. Rest = Sifted(TC, ready_queue, Cardinality(DOMAIN ready_queue), TRUE).a
    BY <1>1 DEF Rest
  <2>4. Rest = Sifted(TC, ready_queue, size, TRUE).a
    <3> HIDE DEF TC
    <3> QED
      BY <1>3, <2>3
  <2>5. size' = size - 1
    BY <1>3, <2>1
  <2> QED
    BY <2>2, <2>4, <2>5
<1>6. \A q \in DOMAIN proc : TC[q] = JobNeed[q] /\ TC[q] \in Int
  BY NeedsAreTotals
<1> HIDE DEF TC
<1>7. size <= 3
  BY <1>1 DEF Few
<1>8. Descending(TC, ready_queue, size)
  <2>1. \A i \in 0 .. size - 1 : TC[ready_queue[i]] = JobNeed[ready_queue[i]]
    BY <1>3, <1>4, <1>6 DEF Once
  <2> QED
    BY <1>1, <1>3, <2>1, DescendingAgrees DEF Sorted
<1>9. Descending(TC, ready_queue', size - 1)
  <2>1. \A e \in R : TC[e] \in Int
    BY <1>3, <1>6
  <2>2. Descending(TC, Sifted(TC, ready_queue, size, TRUE).a, size - 1)
    BY <1>3, <1>4, <1>7, <1>8, <2>1, SmallSifted
  <2> QED
    BY <1>5, <2>2
<1>10. \A i \in 0 .. (size - 1) - 1 : ready_queue'[i] \in R
  <2>1. Sifted(TC, ready_queue, size, TRUE).a \in [0 .. size - 2 -> R \ {ready_queue[0]}]
    BY <1>3, <1>4, SiftedHolds
  <2>2. (size - 1) - 1 = size - 2
    BY <1>3
  <2> QED
    BY <1>5, <2>1, <2>2
<1>11. \A i \in 0 .. (size - 1) - 1 : JobNeed[ready_queue'[i]] = TC[ready_queue'[i]]
  BY <1>3, <1>6, <1>10
<1>12. Descending(JobNeed, ready_queue', size - 1)
  <2>1. PICK n \in Nat : n = size - 1
    BY <1>3
  <2> QED
    BY <1>9, <1>11, <2>1, DescendingAgrees
<1>13. JobNeed' = JobNeed
  BY <1>1 DEF JobNeed, Jobs
<1> QED
  BY <1>5, <1>12, <1>13

LEMMA SortedStep ==
  ASSUME TInv, PInv, Sorted, Few, Few', [Next]_svars
  PROVE  Sorted'
<1>0. ASSUME UNCHANGED <<given, ready_queue, size>> PROVE Sorted'
  BY <1>0 DEF Sorted, given, Descending, JobNeed, Jobs
<1>1. CASE Begin
  BY <1>0, <1>1 DEF Begin
<1>2. CASE Advance
  BY <1>0, <1>2 DEF Advance, queues
<1>3. CASE transition_process
  <2>1. PICK p : p = Head(event_queue)
    OBVIOUS
  <2>2. leave_cpu(p) \/ become_ready(p)
    BY <1>3, <2>1 DEF transition_process
  <2>3. CASE leave_cpu(p)
    BY <1>0, <1>3, <2>3 DEF transition_process, leave_cpu
  <2>4. CASE become_ready(p)
    BY <1>3, <2>1, <2>4, PutSorts
  <2> QED
    BY <2>2, <2>3, <2>4
<1>4. CASE Dispatch
  <2>1. CASE Idle /\ DOMAIN ready_queue # {}
    BY <1>4, <2>1, TakeSorts
  <2>2. CASE ~ (Idle /\ DOMAIN ready_queue # {})
    BY <1>0, <1>4, <2>2 DEF Dispatch, run_process, queues
  <2> QED
    BY <2>1, <2>2
<1>5. CASE Arrivals
  BY <1>0, <1>5 DEF Arrivals
<1>6. CASE UNCHANGED svars
  BY <1>0, <1>6 DEF svars, queues
<1> QED
  BY <1>1, <1>2, <1>3, <1>4, <1>5, <1>6 DEF Next, Ended

\* Whose turn it is under SJF.
LEMMA GreatestFirst ==
  ASSUME TInv, Sorted, Few, algorithm = "S", NEW E, NEW R, SInvAt(E, R),
         DOMAIN ready_queue # {}, NEW k \in R
  PROVE  JobNeed[k] <= JobNeed[Chosen]
<1>1. /\ size \in Nat \ {0} /\ Kept(ready_queue, size, R) /\ R \subseteq DOMAIN proc
  BY SlotsCount DEF SInvAt, Types, Placed
<1>2. Once(ready_queue, 0 .. size - 1, R)
  BY <1>1 DEF Kept, Places
<1>3. PICK i \in 0 .. size - 1 : ready_queue[i] = k
  BY <1>2 DEF Once
<1>4. size <= 3
  BY DEF Few
<1>5. \A j \in 0 .. size - 1 : JobNeed[ready_queue[j]] \in Int
  BY <1>1, <1>2, NeedsAreTotals DEF Once
<1>6. \A j \in 1 .. size - 1 : JobNeed[ready_queue[j]] <= JobNeed[ready_queue[j - 1]]
  BY DEF Sorted, Descending
<1>7. Chosen = ready_queue[0]
  BY DEF Chosen
<1>8. CASE i = 0
  BY <1>3, <1>5, <1>7, <1>8
<1>9. CASE i = 1
  <2>1. 1 \in 1 .. size - 1 /\ 1 - 1 = 0
    BY <1>1, <1>9
  <2> QED
    BY <1>3, <1>6, <1>7, <1>9, <2>1
<1>10. CASE i = 2
  <2>1. /\ 1 \in 1 .. size - 1 /\ 1 - 1 = 0 /\ 2 \in 1 .. size - 1 /\ 2 - 1 = 1
        /\ 0 \in 0 .. size - 1 /\ 1 \in 0 .. size - 1
    BY <1>1, <1>10
  <2>2. /\ JobNeed[ready_queue[2]] <= JobNeed[ready_queue[1]]
        /\ JobNeed[ready_queue[1]] <= JobNeed[ready_queue[0]]
    BY <1>6, <2>1
  <2>3. /\ JobNeed[ready_queue[2]] \in Int /\ JobNeed[ready_queue[1]] \in Int
        /\ JobNeed[ready_queue[0]] \in Int
    BY <1>5, <1>10, <2>1
  <2> QED
    BY <1>3, <1>7, <1>10, <2>2, <2>3
<1> QED
  BY <1>1, <1>4, <1>8, <1>9, <1>10

LEMMA ReadingStutters ==
  ASSUME TInv, add_arriving_procs, UNCHANGED <<given, ready_queue, printed>>
  PROVE  UNCHANGED Job!avars
<1>1. UNCHANGED <<algorithm, quantum, input, ready_queue, printed>>
  BY DEF given
<1>2. UNCHANGED <<JobNeed, JobPhase, JobGot, JobBurst>>
  <2>1. CASE ~ TimeToRead
    BY <1>1, <2>1, NoJobMoves DEF add_arriving_procs
  <2>2. CASE TimeToRead
    <3> DEFINE next == maxpid + Arriving
    <3>1. proc' = Read(next)
      BY <2>2 DEF add_arriving_procs
    <3> HIDE DEF next
    <3>2. /\ DOMAIN proc \subseteq DOMAIN proc'
          /\ \A p \in DOMAIN proc : proc'[p] = proc[p]
          /\ \A p \in DOMAIN proc' \ DOMAIN proc : proc'[p] = NewProcess(p)
      BY <3>1 DEF Read
    <3>3. \A p : NewProcess(p).state = "INIT" /\ NewProcess(p).cpu_time = 0
      BY DEF NewProcess
    <3> QED
      BY <1>1, <3>2, <3>3, NoJobMoves
  <2> QED
    BY <2>1, <2>2
<1>3. JobOrder' = JobOrder
  BY <1>1 DEF JobOrder
<1> QED
  BY <1>1, <1>2, <1>3 DEF Job!avars

LEMMA ElseStutters ==
  ASSUME TInv, UNCHANGED <<given, proc, ready_queue, printed>>
  PROVE  UNCHANGED Job!avars
<1>1. UNCHANGED <<algorithm, quantum, input, ready_queue, printed, proc>>
  BY DEF given
<1>2. UNCHANGED <<JobNeed, JobPhase, JobGot, JobBurst>>
  BY <1>1, NoJobMoves
<1>3. JobOrder' = JobOrder
  BY <1>1 DEF JobOrder
<1> QED
  BY <1>1, <1>2, <1>3 DEF Job!avars

\* Of those that are still to come, the next event is the first.
LEMMA FirstArrives ==
  ASSUME TInv, PInv, Due, NEW p, p = Head(event_queue), proc[p].state = "INIT",
         NEW k \in Jobs, JobPhase[k] = "coming"
  PROVE  p <= k
<1>1. PICK E, R : SInvAt(E, R)
  BY DEF TInv, SInv, SInvAt
<1>2. /\ Holds(event_queue, E) /\ event_queue # << >> /\ p \in E /\ p \in DOMAIN proc
      /\ DOMAIN proc = Old \cup E \cup R
      /\ \A q \in DOMAIN proc : /\ q \in Nat /\ q < maxpid
                                /\ proc[q].state = "READY" <=> q \in R
                                /\ proc[q].state \in {"INIT", "READY", "RUNNING",
                                                      "BLOCKED", "PREEMPTED"}
  BY <1>1, EventTaken DEF SInvAt, Placed, Due, Types, Sound, Process
<1>3. k \in Nat /\ maxpid \in Nat /\ JobPhase[k] = Phase(k)
  BY JobsAre DEF JobPhase
<1>4. k \notin Printed
  BY <1>3, JobsAre DEF Phase
<1>5. CASE k \notin DOMAIN proc
  BY <1>2, <1>3, <1>4, <1>5, JobsAre
<1>6. CASE k \in DOMAIN proc
  <2>1. proc[k].state = "INIT"
    BY <1>2, <1>3, <1>4, <1>6 DEF Phase, PhaseOf
  <2>2. CASE k \in Old
    <3>1. maxpid = k + 1
      BY <2>2 DEF Old, TInv, ReadsOn
    <3> QED
      BY <1>2, <1>3, <3>1
  <2>3. CASE k \in E
    <3>1. PICK j \in 1 .. Len(event_queue) : event_queue[j] = k
      BY <1>2, <2>3 DEF Holds
    <3>2. event_queue[1] = p /\ Len(event_queue) \in Nat
      BY <1>2 DEF Holds
    <3>3. CASE j = 1
      BY <1>2, <3>1, <3>2, <3>3
    <3>4. CASE j # 1
      <4>1. 1 \in 1 .. Len(event_queue) /\ 1 < j
        BY <3>2, <3>4
      <4>2. p \in Fresh(proc) /\ k \in Fresh(proc)
        BY <1>2, <1>6, <2>1 DEF Fresh
      <4>3. p < k
        BY <3>1, <3>2, <4>1, <4>2 DEF PInv, Ordered
      <4> QED
        BY <1>2, <1>3, <4>3
    <3> QED
      BY <3>3, <3>4
  <2> QED
    BY <1>2, <1>6, <2>1, <2>2, <2>3
<1> QED
  BY <1>5, <1>6

LEMMA ReadyingImplements ==
  ASSUME TInv, PInv, SInv', transition_process,
         NEW p, p = Head(event_queue), become_ready(p)
  PROVE  Job!BecomesReady(p) /\ p \in Jobs
<1>1. PICK E, R : SInvAt(E, R)
  BY DEF TInv, SInv, SInvAt
<1>2. /\ Due /\ UNCHANGED <<algorithm, quantum, input, printed, process_running>>
      /\ proc[p].state \in {"BLOCKED", "PREEMPTED", "INIT"}
      /\ proc' = IF algorithm = "R" THEN RR_quantum(p, AfterIO(p)) ELSE AfterIO(p)
      /\ algorithm = "L" => ready_queue' = LCFS_put(p)
      /\ algorithm \in {"F", "R"} => ready_queue' = FCFS_put(p)
  BY DEF transition_process, become_ready, put_event, given
<1>3. /\ p \in DOMAIN proc /\ Sound(proc[p]) /\ Fit(proc[p]) /\ quantum \in Nat
      /\ proc = [q \in DOMAIN proc |-> proc[q]]
  BY <1>1, <1>2, EventTaken DEF SInvAt, Types, PInv
<1>4. Changed(proc, proc', p)
  BY <1>2, <1>3, WaitsSoundly
<1>5. PICK r : r = proc'[p]
  OBVIOUS
<1>6. r.state = "READY" /\ r.cpu_time = proc[p].cpu_time
  BY <1>2, <1>3, <1>5, WaitsFit
<1>7. /\ JobNeed' = JobNeed /\ p \in Jobs /\ Jobs' = Jobs
      /\ JobPhase[p] = PhaseOf[proc[p].state] /\ JobGot[p] = proc[p].cpu_time
      /\ JobPhase' = [JobPhase EXCEPT ![p] = PhaseOf[r.state]]
      /\ JobGot' = [JobGot EXCEPT ![p] = r.cpu_time]
  BY <1>2, <1>3, <1>4, <1>5, OneJobMoves
<1>8. /\ JobPhase[p] \in {"coming", "preempted", "blocked"}
      /\ JobPhase' = [JobPhase EXCEPT ![p] = "ready"]
      /\ JobPhase[p] = "coming" => proc[p].state = "INIT"
  BY <1>2, <1>6, <1>7 DEF PhaseOf
<1>9. JobGot' = JobGot
  BY <1>6, <1>7 DEF JobGot
<1>10. JobBurst' = JobBurst
  <2>1. CASE ~ process_running
    BY <1>2, <2>1, WhoRuns, WhoRunsThen DEF TInv
  <2>2. CASE process_running
    <3>1. PICK q \in DOMAIN proc : proc[q].state = "RUNNING"
      BY <1>1, <2>2 DEF SInvAt, AtMostOneRuns
    <3>2. q \in DOMAIN proc' /\ proc'[q] = proc[q]
      BY <1>2, <1>4, <3>1 DEF Changed
    <3> QED
      BY <3>1, <3>2, WhoRuns, WhoRunsThen DEF TInv
  <2> QED
    BY <2>1, <2>2
<1>11. JobOrder' = IF algorithm = "S" THEN JobOrder ELSE Append(JobOrder, p)
  <2>0. CASE algorithm = "S"
    BY <1>2, <2>0 DEF JobOrder
  <2> SUFFICES ASSUME algorithm # "S" PROVE JobOrder' = Append(JobOrder, p)
    BY <2>0
  <2>1. algorithm \in {"F", "L", "R"} /\ ready_queue \in Seq(R)
    BY <1>1, KeptIsHeld DEF SInvAt, Types, Placed, Holds
  <2>2. CASE algorithm = "L"
    <3> DEFINE S == R \cup {p}
    <3>1. ready_queue \in Seq(S) /\ p \in S
      <4>1. R \subseteq S
        OBVIOUS
      <4> QED
        BY <2>1, <4>1, SeqMonotonic
    <3> HIDE DEF S
    <3>2. Reverse(<<p>> \o ready_queue) = Append(Reverse(ready_queue), p)
      BY <3>1, Backwards
    <3> QED
      BY <1>2, <2>2, <3>2 DEF JobOrder, LCFS_put
  <2>3. CASE algorithm # "L"
    BY <1>2, <2>1, <2>3 DEF JobOrder, FCFS_put
  <2> QED
    BY <2>2, <2>3
<1>12. JobPhase[p] = "coming" => \A k \in Job!In("coming") : p <= k
  <2>1. \A k \in Job!In("coming") : k \in Jobs /\ JobPhase[k] = "coming"
    BY DEF Job!In, Job!Jobs, JobNeed
  <2> QED
    BY <1>2, <1>8, <2>1, FirstArrives
<1> QED
  BY <1>2, <1>7, <1>8, <1>9, <1>10, <1>11, <1>12 DEF Job!BecomesReady, Job!Moves

LEMMA LeavingImplements ==
  ASSUME TInv, PInv, TInv', transition_process,
         NEW p, p = Head(event_queue), leave_cpu(p)
  PROVE  Job!LeavesProcessor(p) /\ p \in Jobs
<1>1. PICK E, R : SInvAt(E, R)
  BY DEF TInv, SInv, SInvAt
<1>2. /\ Due /\ UNCHANGED <<algorithm, quantum, input, ready_queue>>
      /\ proc[p].state = "RUNNING" /\ process_running' = FALSE
  BY DEF transition_process, leave_cpu, given
<1>3. /\ p \in DOMAIN proc /\ Sound(proc[p]) /\ Fit(proc[p])
      /\ proc = [q \in DOMAIN proc |-> proc[q]]
  BY <1>1, <1>2, EventTaken DEF SInvAt, Types, PInv
<1>4. JobOrder' = JobOrder
  BY <1>2 DEF JobOrder
<1>5. JobBurst = proc[p].runtime /\ JobBurst' = 0
  BY <1>2, <1>3, WhoRuns, WhoRunsThen DEF TInv
<1>6. CASE Finishing(p) /\ finish(p)
  <2>1. /\ printed' = Append(printed, Line(p))
        /\ proc' = [q \in DOMAIN proc \ {p} |-> proc[q]]
    BY <1>6 DEF finish
  <2>2. /\ JobNeed' = JobNeed /\ p \in Jobs
        /\ JobPhase[p] = PhaseOf[proc[p].state] /\ JobGot[p] = JobNeed[p]
        /\ JobPhase' = [JobPhase EXCEPT ![p] = "done"]
        /\ JobGot' = JobGot
    BY <1>2, <1>3, <1>6, <2>1, OneJobEnds
  <2>3. JobPhase[p] = "running"
    BY <1>2, <2>2 DEF PhaseOf
  <2> QED
    BY <1>2, <1>4, <1>5, <2>2, <2>3 DEF Job!LeavesProcessor, Job!Moves
<1>7. CASE ~ (Finishing(p) /\ finish(p))
  <2>1. /\ ~ Finishing(p) /\ printed' = printed
        /\ \/ proc[p].preempted /\ proc' = Preempted(p)
           \/ ~ proc[p].preempted /\ \E drawn \in Draws(proc[p].IO) : proc' = Blocked(p, drawn)
    BY <1>7 DEF leave_cpu
  <2>2. Changed(proc, proc', p)
    BY <1>2, <1>3, <2>1, StopsSoundly
  <2>3. PICK r : r = proc'[p]
    OBVIOUS
  <2>4. /\ r.cpu_time = proc[p].cpu_time
        /\ r.state = IF proc[p].preempted THEN "PREEMPTED" ELSE "BLOCKED"
    BY <1>2, <1>3, <2>1, <2>3, StopsFit
  <2>5. /\ JobNeed' = JobNeed /\ p \in Jobs /\ Jobs' = Jobs
        /\ JobPhase[p] = PhaseOf[proc[p].state] /\ JobGot[p] = proc[p].cpu_time
        /\ JobPhase' = [JobPhase EXCEPT ![p] = PhaseOf[r.state]]
        /\ JobGot' = [JobGot EXCEPT ![p] = r.cpu_time]
    BY <1>2, <1>3, <2>1, <2>2, <2>3, OneJobMoves
  <2>6. JobGot' = JobGot /\ JobPhase[p] = "running"
    <3>1. r.cpu_time = JobGot[p]
      BY <2>4, <2>5
    <3>2. JobGot' = [JobGot EXCEPT ![p] = JobGot[p]]
      BY <2>5, <3>1
    <3>3. JobGot = [q \in Jobs |-> JobGot[q]]
      BY DEF JobGot
    <3>4. JobGot' = JobGot
      BY <3>2, <3>3
    <3> QED
      BY <1>2, <2>5, <3>4 DEF PhaseOf
  <2>7. JobGot[p] < JobNeed[p]
    <3>1. JobNeed[p] = proc[p].TC
      BY <1>3, <2>5 DEF JobNeed, TInv, AsRead
    <3>2. proc[p].cpu_time < proc[p].TC
      BY <1>3, <2>1 DEF Sound, AddsUp, Process, Finishing
    <3> QED
      BY <2>5, <3>1, <3>2
  <2>8. proc[p].preempted => algorithm = "R" /\ JobBurst = quantum
    BY <1>2, <1>3, <1>5, <2>1 DEF Fit, Finishing
  <2>9. JobPhase' = [JobPhase EXCEPT ![p] = IF proc[p].preempted THEN "preempted"
                                           ELSE "blocked"]
    <3>1. PhaseOf["PREEMPTED"] = "preempted" /\ PhaseOf["BLOCKED"] = "blocked"
      BY DEF PhaseOf
    <3>2. CASE proc[p].preempted
      BY <2>4, <2>5, <3>1, <3>2
    <3>3. CASE ~ proc[p].preempted
      BY <2>4, <2>5, <3>1, <3>3
    <3> QED
      BY <3>2, <3>3
  <2>10. CASE proc[p].preempted
    BY <1>2, <1>4, <1>5, <2>5, <2>6, <2>7, <2>8, <2>9, <2>10
       DEF Job!LeavesProcessor, Job!Moves
  <2>11. CASE ~ proc[p].preempted
    BY <1>2, <1>4, <1>5, <2>5, <2>6, <2>7, <2>9, <2>11
       DEF Job!LeavesProcessor, Job!Moves
  <2> QED
    BY <2>10, <2>11
<1> QED
  BY <1>6, <1>7

LEMMA RunningImplements ==
  ASSUME TInv, PInv, SInv', Sorted, Few, Dispatch, Idle, DOMAIN ready_queue # {}
  PROVE  \E p \in Jobs : Job!GetsProcessor(p)
<1>1. /\ UNCHANGED <<algorithm, quantum, input, printed>> /\ UNCHANGED given
      /\ run_process /\ process_running' = TRUE
  BY DEF Dispatch, run_process, given
<1>2. PICK E, R, p, drawn :
         /\ SInvAt(E, R) /\ p = Chosen /\ p \in R /\ p \in DOMAIN proc
         /\ drawn \in Draws(proc[p].CB) /\ proc' = Running(p, drawn)
         /\ proc[p].state = "READY" /\ Sound(proc[p]) /\ Fit(proc[p])
         /\ Changed(proc, proc', p)
         /\ ready_queue' = Rest
  BY <1>1, ProcessRun
<1>3. PICK r : r = proc'[p]
  OBVIOUS
<1>4. quantum \in Nat /\ (algorithm = "R" => quantum # 0)
  BY <1>2 DEF SInvAt, Types, PInv
<1>5. /\ r.state = "RUNNING"
      /\ r.cpu_time = proc[p].cpu_time + r.runtime
      /\ r.runtime \in 0 .. proc[p].TC - proc[p].cpu_time
      /\ r.runtime = 0 => proc[p].TC = 0
      /\ algorithm = "R" => r.runtime <= quantum
  <2>1. r = Running(p, drawn)[p]
    BY <1>2, <1>3
  <2> QED
    BY <1>2, <1>4, <2>1, RunsFit
<1>6. /\ JobNeed' = JobNeed /\ p \in Jobs /\ Jobs' = Jobs
      /\ JobPhase[p] = PhaseOf[proc[p].state] /\ JobGot[p] = proc[p].cpu_time
      /\ JobPhase' = [JobPhase EXCEPT ![p] = PhaseOf[r.state]]
      /\ JobGot' = [JobGot EXCEPT ![p] = r.cpu_time]
  BY <1>1, <1>2, <1>3, OneJobMoves
<1>7. /\ JobPhase[p] = "ready" /\ JobPhase' = [JobPhase EXCEPT ![p] = "running"]
      /\ JobNeed[p] = proc[p].TC
  BY <1>2, <1>5, <1>6 DEF PhaseOf, JobNeed, TInv, AsRead
<1>8. JobBurst' = r.runtime
  <2>1. p \in DOMAIN proc' /\ proc'[p].state = "RUNNING"
    BY <1>2, <1>3, <1>5 DEF Changed
  <2> QED
    BY <1>3, <2>1, WhoRunsThen
<1>9. JobGot' = [JobGot EXCEPT ![p] = JobGot[p] + JobBurst']
  BY <1>5, <1>6, <1>8
<1>10. Job!In("running") = {}
  <2>1. \A q \in DOMAIN proc : proc[q].state # "RUNNING"
    BY <1>2 DEF SInvAt, AtMostOneRuns, Idle
  <2>2. \A q \in DOMAIN proc :
          proc[q].state \in {"INIT", "READY", "RUNNING", "BLOCKED", "PREEMPTED"}
    BY <1>2 DEF SInvAt, Types, Sound, Process
  <2>3. \A q \in Jobs : Phase(q) # "running"
    BY <2>1, <2>2, JobsAre DEF Phase, PhaseOf
  <2> QED
    BY <2>3 DEF Job!In, Job!Jobs, JobNeed, JobPhase
<1>11. Job!HasTurn(p) /\ JobOrder' = Job!Others
  <2>0. CASE algorithm = "S"
    <3>1. \A k \in Job!In("ready") : k \in R
      <4>1. \A k \in Jobs : JobPhase[k] = "ready" => k \in DOMAIN proc /\ proc[k].state = "READY"
        <5> SUFFICES ASSUME NEW k \in Jobs, Phase(k) = "ready"
                     PROVE  k \in DOMAIN proc /\ proc[k].state = "READY"
          BY DEF JobPhase
        <5>1. k \in DOMAIN proc /\ PhaseOf[proc[k].state] = "ready"
          BY DEF Phase
        <5>2. proc[k].state \in {"INIT", "READY", "RUNNING", "BLOCKED", "PREEMPTED"}
          BY <1>2, <5>1 DEF SInvAt, Types, Sound, Process
        <5> QED
          BY <5>1, <5>2 DEF PhaseOf
      <4> QED
        BY <1>2, <4>1 DEF Job!In, Job!Jobs, JobNeed, SInvAt, Placed
    <3>2. \A k \in Job!In("ready") : JobNeed[k] <= JobNeed[p]
      BY <1>2, <2>0, <3>1, GreatestFirst
    <3>3. JobOrder' = JobOrder
      BY <1>1, <2>0 DEF JobOrder
    <3> QED
      BY <2>0, <3>2, <3>3 DEF Job!HasTurn, Job!Others
  <2> SUFFICES ASSUME algorithm # "S" PROVE Job!HasTurn(p) /\ JobOrder' = Job!Others
    BY <2>0
  <2>1. /\ algorithm \in {"F", "L", "R"} /\ ready_queue \in Seq(R)
    BY <1>2, KeptIsHeld DEF SInvAt, Types, Placed, Holds
  <2>2. p = Head(ready_queue) /\ ready_queue' = Tail(ready_queue) /\ ready_queue # << >>
    BY <1>2, <2>1 DEF Chosen, Rest
  <2>3. CASE algorithm = "L"
    <3>1. /\ JobOrder[Len(JobOrder)] = Head(ready_queue)
          /\ SubSeq(JobOrder, 1, Len(JobOrder) - 1) = Reverse(Tail(ready_queue))
      BY <1>2, <2>1, <2>2, <2>3, Backwards DEF JobOrder
    <3>2. JobOrder' = Reverse(Tail(ready_queue))
      BY <1>1, <2>2, <2>3 DEF JobOrder
    <3> QED
      BY <2>2, <2>3, <3>1, <3>2 DEF Job!HasTurn, Job!Others, Job!Front, Front
  <2>4. CASE algorithm # "L"
    BY <1>1, <2>1, <2>2, <2>4 DEF Job!HasTurn, Job!Others, JobOrder
  <2> QED
    BY <2>3, <2>4
<1>12. Job!GetsProcessor(p)
  <2>1. /\ JobBurst' \in 0 .. JobNeed[p] - JobGot[p]
        /\ JobBurst' = 0 => JobNeed[p] = 0
        /\ algorithm = "R" => JobBurst' <= quantum
    BY <1>5, <1>6, <1>7, <1>8
  <2> QED
    BY <1>1, <1>6, <1>7, <1>9, <1>10, <1>11, <2>1 DEF Job!GetsProcessor, Job!Moves
<1> QED
  BY <1>6, <1>12

LEMMA StepImplements ==
  ASSUME TInv, PInv, TInv', Sorted, Few, [Next]_svars
  PROVE  [Job!Next]_Job!avars
<1>0. Job!Jobs = Jobs
  BY DEF Job!Jobs, JobNeed
<1>1. CASE Begin
  BY <1>1, ReadingStutters DEF Begin
<1>2. CASE Advance
  BY <1>2, ElseStutters DEF Advance, queues
<1>3. CASE transition_process
  <2>1. PICK p : p = Head(event_queue)
    OBVIOUS
  <2>2. leave_cpu(p) \/ become_ready(p)
    BY <1>3, <2>1 DEF transition_process
  <2>3. CASE leave_cpu(p)
    BY <1>0, <1>3, <2>1, <2>3, LeavingImplements DEF Job!Next
  <2>4. CASE become_ready(p)
    BY <1>0, <1>3, <2>1, <2>4, ReadyingImplements DEF Job!Next, TInv
  <2> QED
    BY <2>2, <2>3, <2>4
<1>4. CASE Dispatch
  <2>1. CASE Idle /\ DOMAIN ready_queue # {}
    BY <1>0, <1>4, <2>1, RunningImplements DEF Job!Next, TInv
  <2>2. CASE ~ (Idle /\ DOMAIN ready_queue # {})
    BY <1>4, <2>2, ElseStutters DEF Dispatch, run_process, queues
  <2> QED
    BY <2>1, <2>2
<1>5. CASE Arrivals
  <2>1. UNCHANGED <<given, ready_queue, printed>>
    BY <1>5 DEF Arrivals
  <2>2. CASE reading_input
    BY <1>5, <2>1, <2>2, ReadingStutters DEF Arrivals
  <2>3. CASE ~ reading_input
    BY <1>5, <2>1, <2>3, ElseStutters DEF Arrivals
  <2> QED
    BY <2>2, <2>3
<1>6. CASE UNCHANGED svars
  BY <1>6, ElseStutters DEF svars, queues
<1> QED
  BY <1>1, <1>2, <1>3, <1>4, <1>5, <1>6 DEF Next, Ended

LEMMA StartImplements ==
  ASSUME TInv, Init
  PROVE  Job!Init
<1>1. proc = << >> /\ printed = << >> /\ ready_queue = << >> /\ DOMAIN << >> = {}
  BY DEF Init
<1>2. Printed = {} /\ OnCPU = {}
  BY <1>1 DEF Printed, OnCPU
<1>3. \A p : Phase(p) = "coming" /\ Given(p) = 0
  BY <1>1, <1>2 DEF Phase, Given
<1>4. JobOrder = << >>
  BY <1>1 DEF JobOrder, Reverse
<1> QED
  BY <1>2, <1>3, <1>4 DEF Job!Init, Job!Jobs, JobNeed, JobPhase, JobGot, JobBurst

LEMMA StartsSorted ==
  ASSUME Init
  PROVE  Sorted
BY DEF Init, Sorted, Descending

(* The scheduler is, under every policy, a processor that is given to one  *)
(* job at a time: each gets its total burst by burst and no more, arrivals *)
(* become ready in the order of the input, the one taken is the first, the *)
(* last or, under SJF, one of the greatest total among those that are      *)
(* ready, and only round robin takes the processor away, after a whole     *)
(* quantum.  Under SJF no more than three may be ready at once: from four  *)
(* elements on the heap's order fails.                                     *)
THEOREM PoliciesImplementProcessor == Spec /\ []Few => ImplementsProcessor
<1>1. Init => PInv /\ Sorted
  BY StartsFit, StartsSorted
<1>2. TInv /\ Init => Job!Init
  BY StartImplements
<1>3. TInv /\ PInv /\ [Next]_svars => PInv'
  BY PInvStep
<1>4. TInv /\ PInv /\ Sorted /\ Few /\ Few' /\ [Next]_svars => Sorted'
  BY SortedStep
<1>5. TInv /\ TInv' /\ PInv /\ Sorted /\ Few /\ [Next]_svars => [Job!Next]_Job!avars
  BY StepImplements
<1> QED
  BY <1>1, <1>2, <1>3, <1>4, <1>5, TInvAlways, PTL DEF Spec, ImplementsProcessor, Job!Spec

\* The ready processes are of the input.
LEMMA NoMoreThanRead ==
  ASSUME TInv
  PROVE  size <= Len(input)
<1>1. PICK E, R : SInvAt(E, R)
  BY DEF TInv, SInv, SInvAt
<1>2. /\ size \in Nat /\ Kept(ready_queue, size, R) /\ R \subseteq DOMAIN proc
      /\ algorithm \in {"F", "L", "S", "R"}
  BY <1>1 DEF SInvAt, Types, Placed
<1>3. Cardinality(R) = size
  BY <1>1, <1>2, SlotsCount
<1>4. R \in SUBSET Jobs /\ Len(input) \in Nat
  BY <1>2, JobsAre
<1>5. IsFiniteSet(Jobs) /\ Cardinality(Jobs) = Len(input)
  <2>1. Len(input) - 1 \in Int
    BY <1>4
  <2>2. /\ IsFiniteSet(0 .. Len(input) - 1)
        /\ Cardinality(0 .. Len(input) - 1) =
             IF 0 > Len(input) - 1 THEN 0 ELSE Len(input) - 1 - 0 + 1
    BY <2>1, FS_Interval
  <2> QED
    BY <1>4, <2>2 DEF Jobs
<1>6. Cardinality(R) <= Cardinality(Jobs)
  BY <1>4, <1>5, FS_Subset
<1> QED
  BY <1>3, <1>5, <1>6

(* So it is under every policy when the input has no more than three       *)
(* lines, and under every policy but SJF whatever the input.               *)
THEOREM ShortInputsImplementProcessor ==
  Spec /\ (algorithm # "S" \/ Len(input) <= 3) => ImplementsProcessor
<1> DEFINE Short == algorithm # "S" \/ Len(input) <= 3
<1>1. Short /\ [Next]_svars => Short'
  BY DEF Next, Begin, Advance, transition_process, Dispatch, Arrivals, Ended, svars, given
<1>2. TInv /\ Short => Few
  <2> SUFFICES ASSUME TInv, Short, algorithm = "S" PROVE size <= 3
    BY DEF Few
  <2>1. Len(input) <= 3 /\ Len(input) \in Nat /\ size \in Nat
    BY JobsAre DEF TInv, SInv, Types
  <2> QED
    BY <2>1, NoMoreThanRead
<1> QED
  BY <1>1, <1>2, TInvAlways, PoliciesImplementProcessor, PTL DEF Spec
-----------------------------------------------------------------------------
(***************************************************************************)
(* The totals.                                                             *)
(***************************************************************************)
Numbers(s, n) == n \in Nat /\ s \in [1 .. n -> Int]

Sums(s, n, g) == g = [k \in 0 .. n |-> IF k = 0 THEN 0 ELSE g[k - 1] + s[k]]

\* The sum of n numbers is the last of the partial sums.
LEMMA SumFound ==
  ASSUME NEW s, NEW n, Numbers(s, n)
  PROVE  \E g \in [0 .. n -> Int] : Sums(s, n, g) /\ SumOf(s) = g[n]
<1> DEFINE T == [k \in 0 .. n |-> Int]
           f == [k \in 1 .. n |-> [x \in Int |-> x + s[k]]]
           H(g) == [k \in 0 .. n |-> IF k = 0 THEN 0 ELSE g[k - 1] + s[k]]
           sum == CHOOSE g : g = H(g)
<1>1. /\ Len(s) = n /\ n \in Nat /\ \A k \in 1 .. n : s[k] \in Int
      /\ \A k \in 0 .. n : k = 0 \/ k \in 1 .. n
      /\ \A k \in 1 .. n : k - 1 \in 0 .. n /\ k # 0
  BY DEF Numbers
<1>2. 0 \in T[0] /\ \A k \in 1 .. n : \A x \in T[k - 1] : f[k][x] \in T[k]
  BY <1>1
<1>3. PICK g : Rounds(g, n, 0, f) /\ \A k \in 0 .. n : g[k] \in T[k]
  <2> HIDE DEF T, f
  <2> QED
    BY <1>1, <1>2, Iterates
<1>4. g = H(g)
  <2>1. \A k \in 0 .. n : (IF k = 0 THEN 0 ELSE f[k][g[k - 1]]) =
                          (IF k = 0 THEN 0 ELSE g[k - 1] + s[k])
    BY <1>1, <1>3
  <2> QED
    BY <1>3, <2>1 DEF Rounds
<1>5. sum = H(sum)
  BY <1>4
<1>6. SumOf(s) = sum[n]
  BY <1>1 DEF SumOf
<1> HIDE DEF sum
<1>7. /\ sum[0] = 0 /\ \A k \in 1 .. n : sum[k] = sum[k - 1] + s[k]
      /\ sum = [k \in 0 .. n |-> sum[k]]
  <2>1. \A k \in 0 .. n : sum[k] = IF k = 0 THEN 0 ELSE sum[k - 1] + s[k]
    BY <1>5
  <2>2. 0 \in 0 .. n /\ \A k \in 1 .. n : k \in 0 .. n
    BY <1>1
  <2> QED
    BY <1>1, <1>5, <2>1, <2>2
<1> DEFINE Bad == {k \in 0 .. n : sum[k] \notin Int}
<1>8. Bad = {}
  <2> SUFFICES ASSUME Bad # {} PROVE FALSE
    OBVIOUS
  <2>1. PICK m \in Bad : \A k \in Bad : m <= k
    <3>1. Bad \in SUBSET Nat
      BY <1>1
    <3> HIDE DEF Bad
    <3> QED
      BY <3>1, LeastNatural
  <2>2. m \in 1 .. n /\ m - 1 \in 0 .. n /\ m - 1 < m /\ m \in Nat
    BY <1>1, <1>7
  <2>3. m - 1 \notin Bad
    <3> HIDE DEF Bad
    <3> QED
      BY <2>1, <2>2
  <2>4. sum[m - 1] \in Int /\ s[m] \in Int /\ sum[m] = sum[m - 1] + s[m]
    BY <1>1, <1>7, <2>2, <2>3
  <2>5. sum[m] \in Int
    BY <2>4
  <2> QED
    BY <2>1, <2>5
<1>9. sum \in [0 .. n -> Int]
  BY <1>7, <1>8
<1> QED
  BY <1>5, <1>6, <1>9 DEF Sums

\* One number more.
LEMMA OneMoreSummed ==
  ASSUME NEW s, NEW n, Numbers(s, n), NEW t, Numbers(t, n + 1), \A k \in 1 .. n : t[k] = s[k]
  PROVE  SumOf(s) \in Int /\ SumOf(t) = SumOf(s) + t[n + 1]
<1>1. PICK g \in [0 .. n -> Int] : Sums(s, n, g) /\ SumOf(s) = g[n]
  BY SumFound
<1>2. PICK h \in [0 .. n + 1 -> Int] : Sums(t, n + 1, h) /\ SumOf(t) = h[n + 1]
  BY SumFound
<1>3. n \in Nat
  BY DEF Numbers
<1>4. /\ g[0] = 0 /\ \A k \in 1 .. n : g[k] = g[k - 1] + s[k]
      /\ h[0] = 0 /\ \A k \in 1 .. n + 1 : h[k] = h[k - 1] + t[k]
  <2>1. \A k \in 0 .. n : g[k] = IF k = 0 THEN 0 ELSE g[k - 1] + s[k]
    BY <1>1 DEF Sums
  <2>2. \A k \in 0 .. n + 1 : h[k] = IF k = 0 THEN 0 ELSE h[k - 1] + t[k]
    BY <1>2 DEF Sums
  <2>3. 0 \in 0 .. n /\ 0 \in 0 .. n + 1 /\ \A k \in 1 .. n : k \in 0 .. n /\ k # 0
        /\ \A i \in 1 .. n + 1 : i \in 0 .. n + 1 /\ i # 0
    BY <1>3
  <2> QED
    BY <2>1, <2>2, <2>3
<1> DEFINE Bad == {k \in 0 .. n : g[k] # h[k]}
<1>5. Bad = {}
  <2> SUFFICES ASSUME Bad # {} PROVE FALSE
    OBVIOUS
  <2>1. PICK m \in Bad : \A k \in Bad : m <= k
    <3>1. Bad \in SUBSET Nat
      BY <1>3
    <3> HIDE DEF Bad
    <3> QED
      BY <3>1, LeastNatural
  <2>2. m \in 1 .. n /\ m \in 1 .. n + 1 /\ m - 1 \in 0 .. n /\ m - 1 < m /\ m \in Nat
    BY <1>3, <1>4, <2>1
  <2>3. m - 1 \notin Bad
    <3> HIDE DEF Bad
    <3> QED
      BY <2>1, <2>2
  <2> QED
    BY <1>4, <2>1, <2>2, <2>3
<1>6. g[n] = h[n] /\ h[n + 1] = h[n] + t[n + 1]
  <2>1. n \in 0 .. n /\ n + 1 \in 1 .. n + 1 /\ (n + 1) - 1 = n
    BY <1>3
  <2> QED
    BY <1>4, <1>5, <2>1
<1>7. g[n] \in Int
  BY <1>3
<1> QED
  BY <1>1, <1>2, <1>6, <1>7

LEMMA NothingSummed == SumOf([k \in 1 .. 0 |-> 0]) = 0
<1> DEFINE s == [k \in 1 .. 0 |-> 0]
<1>1. Numbers(s, 0)
  BY DEF Numbers
<1>2. PICK g \in [0 .. 0 -> Int] : Sums(s, 0, g) /\ SumOf(s) = g[0]
  <2> HIDE DEF s
  <2> QED
    BY <1>1, SumFound
<1>3. g[0] = 0
  BY <1>2 DEF Sums
<1> QED
  BY <1>2, <1>3
-----------------------------------------------------------------------------
LEMMA UnsignedAdds ==
  ASSUME NEW a \in Int, NEW b \in Int
  PROVE  unsigned(a) \in Int /\ unsigned(unsigned(a) + b) = unsigned(a + b) /\ unsigned(0) = 0
<1>1. UINT_MAX + 1 = 1000001
  BY DEF UINT_MAX
<1>2. /\ a % 1000001 \in Int /\ ((a % 1000001) + b) % 1000001 = (a + b) % 1000001
      /\ 0 % 1000001 = 0
  OBVIOUS
<1> QED
  BY <1>1, <1>2 DEF unsigned

\* The columns of the lines printed.
CPUs(lines)  == [k \in 1 .. Len(lines) |-> lines[k].TC]
Turns(lines) == [k \in 1 .. Len(lines) |-> lines[k].FT - lines[k].AT]
Waits(lines) == [k \in 1 .. Len(lines) |-> lines[k].CW]
Uses(lines)  == [k \in 1 .. Len(lines) |-> lines[k].IT]

LEMMA ColumnsGrow ==
  ASSUME NEW s \in Seq(Entry), NEW l \in Entry
  PROVE  LET t == Append(s, l)
         IN  /\ SumOf(CPUs(s)) \in Int /\ SumOf(CPUs(t)) = SumOf(CPUs(s)) + l.TC
             /\ SumOf(Turns(s)) \in Int /\ SumOf(Turns(t)) = SumOf(Turns(s)) + (l.FT - l.AT)
             /\ SumOf(Waits(s)) \in Int /\ SumOf(Waits(t)) = SumOf(Waits(s)) + l.CW
             /\ SumOf(Uses(s)) \in Int /\ SumOf(Uses(t)) = SumOf(Uses(s)) + l.IT
<1> DEFINE t == Append(s, l)
           n == Len(s)
<1>1. /\ t \in Seq(Entry) /\ Len(t) = n + 1 /\ n \in Nat /\ t[n + 1] = l
      /\ \A k \in 1 .. n : t[k] = s[k]
      /\ \A k \in 1 .. n : s[k] \in Entry
      /\ \A k \in 1 .. n + 1 : t[k] \in Entry
  BY AppendProperties, LenProperties
<1>2. \A e \in Entry : e.TC \in Int /\ e.FT - e.AT \in Int /\ e.CW \in Int /\ e.IT \in Int
  BY DEF Entry
<1> HIDE DEF t, n
<1>3. n + 1 \in 1 .. n + 1 /\ \A k \in 1 .. n : k \in 1 .. n + 1
  BY <1>1
<1>4. SumOf(CPUs(s)) \in Int /\ SumOf(CPUs(t)) = SumOf(CPUs(s)) + l.TC
  <2>1. /\ Numbers(CPUs(s), n) /\ Numbers(CPUs(t), n + 1)
        /\ \A k \in 1 .. n : CPUs(t)[k] = CPUs(s)[k]
        /\ CPUs(t)[n + 1] = l.TC
    BY <1>1, <1>2, <1>3 DEF CPUs, Numbers, n
  <2> QED
    BY <2>1, OneMoreSummed
<1>5. SumOf(Turns(s)) \in Int /\ SumOf(Turns(t)) = SumOf(Turns(s)) + (l.FT - l.AT)
  <2>1. /\ Numbers(Turns(s), n) /\ Numbers(Turns(t), n + 1)
        /\ \A k \in 1 .. n : Turns(t)[k] = Turns(s)[k]
        /\ Turns(t)[n + 1] = l.FT - l.AT
    BY <1>1, <1>2, <1>3 DEF Turns, Numbers, n
  <2> QED
    BY <2>1, OneMoreSummed
<1>6. SumOf(Waits(s)) \in Int /\ SumOf(Waits(t)) = SumOf(Waits(s)) + l.CW
  <2>1. /\ Numbers(Waits(s), n) /\ Numbers(Waits(t), n + 1)
        /\ \A k \in 1 .. n : Waits(t)[k] = Waits(s)[k]
        /\ Waits(t)[n + 1] = l.CW
    BY <1>1, <1>2, <1>3 DEF Waits, Numbers, n
  <2> QED
    BY <2>1, OneMoreSummed
<1>7. SumOf(Uses(s)) \in Int /\ SumOf(Uses(t)) = SumOf(Uses(s)) + l.IT
  <2>1. /\ Numbers(Uses(s), n) /\ Numbers(Uses(t), n + 1)
        /\ \A k \in 1 .. n : Uses(t)[k] = Uses(s)[k]
        /\ Uses(t)[n + 1] = l.IT
    BY <1>1, <1>2, <1>3 DEF Uses, Numbers, n
  <2> QED
    BY <2>1, OneMoreSummed
<1> QED
  BY <1>4, <1>5, <1>6, <1>7 DEF t

Totals == [cpu_use : Int, io_use : Int, turnaround : Int, cpu_waiting : Int]

\* The totals are those of the lines printed.
AddedUp == /\ totals \in Totals
           /\ totals.cpu_use = SumOf(CPUs(printed))
           /\ totals.turnaround = SumOf(Turns(printed))
           /\ totals.cpu_waiting = unsigned(SumOf(Waits(printed)))

InUse(procs) == IF 0 \in DOMAIN procs THEN procs[0].IT ELSE 0

\* The IO of a process that is alone: once blocked it comes back when its
\* burst is over.
AloneInIO ==
  Len(input) = 1 =>
    /\ totals.io_use = unsigned(SumOf(Uses(printed)) + InUse(proc))
    /\ 0 \in DOMAIN proc /\ proc[0].state = "BLOCKED" =>
         proc[0].FT = last_io_event + proc[0].runtime

AInv == TInv /\ last_io_event \in Int /\ AddedUp /\ AloneInIO

LEMMA StartsAdded == Init => AInv
<1> SUFFICES ASSUME Init PROVE AInv
  OBVIOUS
<1>1. TInv
  BY TInvStarts
<1>2. /\ printed = << >> /\ proc = << >> /\ last_io_event = 0
      /\ totals = [cpu_use |-> 0, io_use |-> 0, turnaround |-> 0, cpu_waiting |-> 0]
  BY DEF Init
<1>3. DOMAIN proc = {} /\ Len(printed) = 0
  BY <1>2
<1> DEFINE z == [k \in 1 .. 0 |-> 0]
<1>4. CPUs(printed) = z /\ Turns(printed) = z /\ Waits(printed) = z /\ Uses(printed) = z
  <2>1. 1 .. 0 = {}
    OBVIOUS
  <2> QED
    BY <1>3, <2>1 DEF CPUs, Turns, Waits, Uses
<1>5. SumOf(z) = 0 /\ unsigned(0) = 0
  BY NothingSummed, UnsignedAdds
<1> HIDE DEF z
<1>6. AddedUp
  BY <1>2, <1>4, <1>5 DEF AddedUp, Totals
<1>7. AloneInIO
  BY <1>2, <1>3, <1>4, <1>5 DEF AloneInIO, InUse
<1> QED
  BY <1>1, <1>2, <1>6, <1>7 DEF AInv
\* Nothing printed, nothing added, and nobody's IO changes.
LEMMA NothingAdded ==
  ASSUME AInv, TInv', UNCHANGED <<input, printed, totals, last_io_event>>,
         Len(input) = 1 =>
           /\ InUse(proc') = InUse(proc)
           /\ 0 \in DOMAIN proc' /\ proc'[0].state = "BLOCKED" =>
                /\ 0 \in DOMAIN proc /\ proc[0].state = "BLOCKED"
                /\ proc'[0].FT = proc[0].FT /\ proc'[0].runtime = proc[0].runtime
  PROVE  AInv'
<1>1. AddedUp'
  BY DEF AInv, AddedUp, Totals
<1>2. AloneInIO'
  BY DEF AInv, AloneInIO
<1> QED
  BY <1>1, <1>2 DEF AInv

\* Somebody runs, stops or waits.
LEMMA OnlyZero ==
  ASSUME TInv, Len(input) = 1
  PROVE  \A p \in DOMAIN proc : p = 0
<1>1. \A p \in DOMAIN proc : p \in Nat /\ Exists(p)
  BY DEF TInv, SInv, Types
<1> QED
  BY <1>1 DEF Exists

LEMMA ReadingAdds ==
  ASSUME AInv, TInv', add_arriving_procs, UNCHANGED <<input, printed, totals, last_io_event>>
  PROVE  AInv'
<1>1. CASE UNCHANGED proc
  BY <1>1, NothingAdded
<1>2. CASE TimeToRead
  <2> DEFINE next == maxpid + Arriving
             all == DOMAIN proc \cup {q \in maxpid .. next : Exists(q)}
  <2>1. proc' = Read(next)
    BY <1>2 DEF add_arriving_procs
  <2>2. /\ DOMAIN proc' = all
        /\ \A p \in all : proc'[p] = IF p \in DOMAIN proc THEN proc[p] ELSE NewProcess(p)
    BY <2>1 DEF Read
  <2> HIDE DEF all
  <2>3. DOMAIN proc \subseteq all
    BY DEF all
  <2>4. NewProcess(0).IT = 0 /\ NewProcess(0).state = "INIT"
    BY DEF NewProcess
  <2>5. InUse(proc') = InUse(proc)
    BY <2>2, <2>3, <2>4 DEF InUse
  <2> QED
    BY <2>2, <2>3, <2>4, <2>5, NothingAdded
<1> QED
  BY <1>1, <1>2 DEF add_arriving_procs

LEMMA DispatchAdds ==
  ASSUME AInv, TInv', Dispatch
  PROVE  AInv'
<1>1. UNCHANGED <<input, printed, totals, last_io_event>>
  BY DEF Dispatch, given, clock
<1>2. CASE UNCHANGED proc
  BY <1>1, <1>2, NothingAdded
<1>3. CASE ~ process_running /\ DOMAIN ready_queue # {}
  <2>1. PICK p : p = Chosen
    OBVIOUS
  <2>2. PICK drawn \in Draws(proc[p].CB) : proc' = Running(p, drawn)
    BY <1>3, <2>1 DEF Dispatch, Idle, run_process
  <2>3. p \in DOMAIN proc /\ Sound(proc[p])
    <3>1. PICK E, R : SInvAt(E, R)
      BY DEF AInv, TInv, SInv, SInvAt
    <3>2. size \in Nat \ {0} /\ Kept(ready_queue, size, R)
      BY <1>3, <3>1, SlotsCount DEF SInvAt, Types, Placed
    <3>3. p \in R
      BY <2>1, <3>1, <3>2, TakeKeeps DEF SInvAt, Types
    <3> QED
      BY <3>1, <3>3 DEF SInvAt, Placed, Types
  <2>4. /\ DOMAIN proc' = DOMAIN proc /\ \A q \in DOMAIN proc \ {p} : proc'[q] = proc[q]
        /\ proc'[p].IT = proc[p].IT /\ proc'[p].state = "RUNNING"
    <3>1. {"IT", "state"} \subseteq DOMAIN proc[p]
      BY <2>3 DEF Sound, Process
    <3> QED
      BY <2>2, <2>3, <3>1 DEF Running
  <2>5. InUse(proc') = InUse(proc)
    BY <2>4 DEF InUse
  <2> QED
    BY <1>1, <2>3, <2>4, <2>5, NothingAdded
<1> QED
  BY <1>2, <1>3 DEF Dispatch, Idle, run_process, queues

LEMMA EventAdds ==
  ASSUME AInv, TInv', transition_process
  PROVE  AInv'
<1>1. PICK p : p = Head(event_queue)
  OBVIOUS
<1>2. /\ p \in DOMAIN proc /\ Sound(proc[p]) /\ proc[p].FT = last_event
      /\ AddedUp /\ AloneInIO /\ last_event \in Nat /\ last_io_event \in Int /\ TInv
      /\ \E P : Told(P)
  <2>1. PICK E, R : SInvAt(E, R)
    BY DEF AInv, TInv, SInv, SInvAt
  <2>2. p \in DOMAIN proc
    BY <1>1, <2>1, EventTaken DEF transition_process
  <2> QED
    BY <1>1, <2>1, <2>2 DEF AInv, TInv, SInvAt, Types, transition_process, Due
<1>3. PICK r : r = proc[p]
  OBVIOUS
<1>4. /\ r \in Process /\ AddsUp(r) /\ r.FT \in Int /\ r.AT \in Int /\ r.IT \in Int
      /\ r.TC \in Int /\ r.CW \in Int /\ r.runtime \in Int
  BY <1>2, <1>3 DEF Sound, Process
<1>5. input' = input /\ last_event' = last_event /\ (leave_cpu(p) \/ become_ready(p))
  BY <1>1 DEF transition_process, given
<1>6. Len(input) = 1 => p = 0
  BY <1>2, OnlyZero
<1>7. CASE leave_cpu(p) /\ Finishing(p) /\ finish(p)
  <2> DEFINE l == Line(p)
  <2>1. /\ proc' = [q \in DOMAIN proc \ {p} |-> proc[q]]
        /\ printed' = Append(printed, l) /\ last_io_event' = last_io_event
        /\ totals' = [totals EXCEPT !.cpu_waiting = unsigned(@ + r.CW),
                                    !.cpu_use = @ + r.TC,
                                    !.turnaround = @ + r.FT - r.AT]
    BY <1>3, <1>7 DEF finish
  <2>2. /\ l \in Entry /\ l.TC = r.TC /\ l.FT = r.FT /\ l.AT = r.AT /\ l.CW = r.CW
        /\ l.IT = r.IT
    <3>1. l \in Entry
      BY <1>2, <1>7, LineIsTrue DEF leave_cpu, TInv, SInv
    <3> QED
      BY <1>3, <3>1 DEF Line
  <2> HIDE DEF l
  <2>3. printed \in Seq(Entry)
    BY <1>2 DEF Told
  <2>4. /\ SumOf(CPUs(printed)) \in Int /\ SumOf(CPUs(printed')) = SumOf(CPUs(printed)) + l.TC
        /\ SumOf(Turns(printed)) \in Int
        /\ SumOf(Turns(printed')) = SumOf(Turns(printed)) + (l.FT - l.AT)
        /\ SumOf(Waits(printed)) \in Int /\ SumOf(Waits(printed')) = SumOf(Waits(printed)) + l.CW
        /\ SumOf(Uses(printed)) \in Int /\ SumOf(Uses(printed')) = SumOf(Uses(printed)) + l.IT
    BY <2>1, <2>2, <2>3, ColumnsGrow
  <2>5. AddedUp'
    <3>0. PICK w \in Int : w = SumOf(Waits(printed))
      BY <2>4
    <3>1. /\ totals \in Totals /\ totals.cpu_use = SumOf(CPUs(printed))
          /\ totals.turnaround = SumOf(Turns(printed)) /\ totals.cpu_waiting = unsigned(w)
      BY <1>2, <3>0 DEF AddedUp
    <3>2. unsigned(unsigned(w) + r.CW) = unsigned(w + r.CW) /\ unsigned(w + r.CW) \in Int
      <4>1. r.CW \in Int /\ w + r.CW \in Int
        BY <1>4, <3>0
      <4> QED
        BY <3>0, <4>1, UnsignedAdds
    <3>3. /\ totals'.cpu_waiting = unsigned(unsigned(w) + r.CW)
          /\ totals'.cpu_use = totals.cpu_use + r.TC
          /\ totals'.turnaround = totals.turnaround + r.FT - r.AT
          /\ totals' \in Totals
      <4>1. PICK waited : waited = unsigned(unsigned(w) + r.CW)
        OBVIOUS
      <4>2. totals' = [totals EXCEPT !.cpu_waiting = waited, !.cpu_use = @ + r.TC,
                                     !.turnaround = @ + r.FT - r.AT]
        BY <2>1, <3>1, <4>1 DEF Totals
      <4>3. waited \in Int
        BY <3>2, <4>1
      <4>4. /\ totals.cpu_use + r.TC \in Int /\ totals.turnaround + r.FT - r.AT \in Int
        BY <1>4, <3>1 DEF Totals
      <4> QED
        BY <3>1, <4>1, <4>2, <4>3, <4>4 DEF Totals
    <3>4. totals.turnaround + r.FT - r.AT = SumOf(Turns(printed)) + (r.FT - r.AT)
      BY <1>4, <2>4, <3>1
    <3>5. totals'.cpu_waiting = unsigned(SumOf(Waits(printed')))
      BY <2>2, <2>4, <3>0, <3>2, <3>3
    <3> QED
      BY <2>2, <2>4, <3>1, <3>3, <3>4, <3>5 DEF AddedUp
  <2>6. AloneInIO'
    <3> SUFFICES ASSUME Len(input) = 1
                 PROVE  /\ totals'.io_use = unsigned(SumOf(Uses(printed')) + InUse(proc'))
                        /\ 0 \notin DOMAIN proc'
      BY <1>5 DEF AloneInIO
    <3>1. 0 \notin DOMAIN proc' /\ InUse(proc') = 0 /\ InUse(proc) = r.IT
      BY <1>2, <1>3, <1>6, <2>1 DEF InUse
    <3>2. totals'.io_use = totals.io_use
      BY <1>2, <2>1 DEF AddedUp, Totals
    <3>3. totals.io_use = unsigned(SumOf(Uses(printed)) + r.IT)
      BY <1>2, <3>1 DEF AloneInIO
    <3>4. SumOf(Uses(printed')) + 0 = SumOf(Uses(printed)) + r.IT
      BY <1>4, <2>2, <2>4
    <3> QED
      BY <3>1, <3>2, <3>3, <3>4
  <2> QED
    BY <1>2, <2>1, <2>5, <2>6 DEF AInv
<1>8. CASE leave_cpu(p) /\ ~ (Finishing(p) /\ finish(p))
  <2>1. /\ r.state = "RUNNING" /\ UNCHANGED <<printed, totals>>
        /\ \/ proc' = Preempted(p) /\ last_io_event' = last_io_event
           \/ \E drawn \in Draws(r.IO) : proc' = Blocked(p, drawn) /\ last_io_event' = last_event
    BY <1>3, <1>8 DEF leave_cpu
  <2>2. {"IT", "state", "runtime", "FT"} \subseteq DOMAIN r
    BY <1>4 DEF Process
  <2>3. CASE proc' = Preempted(p) /\ last_io_event' = last_io_event
    <3>1. /\ DOMAIN proc' = DOMAIN proc /\ proc'[p].IT = r.IT /\ proc'[p].state = "PREEMPTED"
          /\ \A q \in DOMAIN proc \ {p} : proc'[q] = proc[q]
      BY <1>2, <1>3, <2>2, <2>3 DEF Preempted
    <3>2. InUse(proc') = InUse(proc)
      BY <1>3, <3>1 DEF InUse
    <3> QED
      BY <1>5, <1>6, <2>1, <2>3, <3>1, <3>2, NothingAdded
  <2>4. ASSUME NEW drawn \in Draws(r.IO), proc' = Blocked(p, drawn), last_io_event' = last_event
        PROVE  AInv'
    <3>1. /\ DOMAIN proc' = DOMAIN proc /\ proc'[p].IT = r.IT
          /\ proc'[p].FT = r.FT + drawn /\ proc'[p].runtime = drawn
          /\ \A q \in DOMAIN proc \ {p} : proc'[q] = proc[q]
      BY <1>2, <1>3, <2>2, <2>4 DEF Blocked
    <3>2. InUse(proc') = InUse(proc)
      BY <1>3, <3>1 DEF InUse
    <3>3. AddedUp'
      BY <1>2, <2>1 DEF AddedUp, Totals
    <3>4. AloneInIO'
      BY <1>2, <1>3, <1>5, <1>6, <2>1, <2>4, <3>1, <3>2 DEF AloneInIO
    <3> QED
      BY <1>2, <2>4, <3>3, <3>4 DEF AInv
  <2> QED
    BY <2>1, <2>3, <2>4
<1>9. CASE become_ready(p)
  <2>1. /\ UNCHANGED <<printed, last_io_event>>
        /\ proc' = (IF algorithm = "R" THEN RR_quantum(p, AfterIO(p)) ELSE AfterIO(p))
        /\ totals' = IF r.state = "BLOCKED"
                     THEN [totals EXCEPT !.io_use = unsigned(@ + last_event - last_io_event)]
                     ELSE totals
    BY <1>3, <1>9 DEF become_ready, put_event
  <2>2. /\ DOMAIN proc' = DOMAIN proc /\ \A q \in DOMAIN proc \ {p} : proc'[q] = proc[q]
        /\ proc'[p].IT = r.IT + (IF r.state = "BLOCKED" THEN r.runtime ELSE 0)
        /\ proc'[p].state = "READY"
    <3> DEFINE on == AfterIO(p)
    <3>1. {"IT", "state", "preempt_after"} \subseteq DOMAIN r
      BY <1>4 DEF Process
    <3>2. /\ DOMAIN on = DOMAIN proc /\ \A q \in DOMAIN proc \ {p} : on[q] = proc[q]
          /\ on[p].IT = r.IT + (IF r.state = "BLOCKED" THEN r.runtime ELSE 0)
          /\ on[p].state = "READY" /\ DOMAIN on[p] = DOMAIN r
      BY <1>2, <1>3, <1>4, <3>1 DEF AfterIO
    <3> HIDE DEF on
    <3>3. /\ DOMAIN RR_quantum(p, on) = DOMAIN on
          /\ \A q \in DOMAIN on \ {p} : RR_quantum(p, on)[q] = on[q]
          /\ RR_quantum(p, on)[p].IT = on[p].IT /\ RR_quantum(p, on)[p].state = on[p].state
      BY <1>2, <3>1, <3>2 DEF RR_quantum
    <3> QED
      BY <2>1, <3>2, <3>3 DEF on
  <2>3. AddedUp'
    <3>1. unsigned(totals.io_use + last_event - last_io_event) \in Int
      <4>1. totals.io_use \in Int
        BY <1>2 DEF AddedUp, Totals
      <4>2. totals.io_use + last_event - last_io_event \in Int
        BY <1>2, <4>1
      <4> QED
        BY <4>2, UnsignedAdds
    <3> QED
      BY <1>2, <2>1, <3>1 DEF AddedUp, Totals
  <2>4. AloneInIO'
    <3> SUFFICES ASSUME Len(input) = 1
                 PROVE  /\ totals'.io_use = unsigned(SumOf(Uses(printed)) + InUse(proc'))
                        /\ proc'[0].state # "BLOCKED"
      BY <1>5, <2>1 DEF AloneInIO
    <3>1. p = 0 /\ InUse(proc) = r.IT /\ InUse(proc') = proc'[p].IT
      BY <1>2, <1>3, <1>6, <2>2 DEF InUse
    <3>2. totals.io_use = unsigned(SumOf(Uses(printed)) + r.IT)
      BY <1>2, <3>1 DEF AloneInIO
    <3>3. CASE r.state # "BLOCKED"
      <4>1. InUse(proc') = r.IT + 0
        BY <2>2, <3>1, <3>3
      <4>2. r.IT + 0 = r.IT /\ totals' = totals
        BY <1>4, <2>1, <3>3
      <4> QED
        BY <2>2, <3>1, <3>2, <4>1, <4>2
    <3>4. CASE r.state = "BLOCKED"
      <4> DEFINE a == SumOf(Uses(printed)) + r.IT
      <4>1. a \in Int /\ SumOf(Uses(printed)) \in Int
        <5>1. PICK l : l \in Entry
          <6>1. [pid |-> 0, AT |-> 0, TC |-> 0, FT |-> 0, IT |-> 0, CW |-> 0] \in Entry
            BY DEF Entry
          <6> QED
            BY <6>1
        <5>2. SumOf(Uses(printed)) \in Int
          BY <1>2, <5>1, ColumnsGrow DEF Told
        <5> QED
          BY <1>4, <5>2
      <4>2. last_event = last_io_event + r.runtime
        BY <1>2, <1>3, <3>1, <3>4 DEF AloneInIO
      <4>3. totals'.io_use = unsigned(totals.io_use + last_event - last_io_event)
        BY <1>2, <2>1, <3>4 DEF AddedUp, Totals
      <4>4. totals.io_use + last_event - last_io_event = unsigned(a) + r.runtime
        <5>1. unsigned(a) \in Int
          BY <4>1, UnsignedAdds
        <5> QED
          BY <1>2, <1>4, <3>2, <4>2, <5>1
      <4>5. unsigned(unsigned(a) + r.runtime) = unsigned(a + r.runtime)
        BY <1>4, <4>1, UnsignedAdds
      <4>6. a + r.runtime = SumOf(Uses(printed)) + InUse(proc')
        BY <1>4, <2>2, <3>1, <3>4, <4>1
      <4> QED
        BY <2>2, <3>1, <4>3, <4>4, <4>5, <4>6
    <3> QED
      BY <3>3, <3>4
  <2> QED
    BY <1>2, <2>1, <2>3, <2>4 DEF AInv
<1> QED
  BY <1>5, <1>7, <1>8, <1>9

LEMMA AInvStep ==
  ASSUME AInv, [Next]_svars
  PROVE  AInv'
<1>1. TInv'
  BY TInvStep DEF AInv
<1>2. CASE Begin
  BY <1>1, <1>2, ReadingAdds DEF Begin, given, clock
<1>3. CASE Advance
  BY <1>1, <1>3, NothingAdded DEF Advance, given
<1>4. CASE transition_process
  BY <1>1, <1>4, EventAdds
<1>5. CASE Dispatch
  BY <1>1, <1>5, DispatchAdds
<1>6. CASE Arrivals
  <2>1. UNCHANGED <<input, printed, totals, last_io_event>>
        /\ (add_arriving_procs \/ UNCHANGED proc)
    BY <1>6 DEF Arrivals, given, clock
  <2> QED
    BY <1>1, <2>1, ReadingAdds, NothingAdded
<1>7. CASE UNCHANGED svars
  BY <1>1, <1>7, NothingAdded DEF svars, given, clock
<1> QED
  BY <1>2, <1>3, <1>4, <1>5, <1>6, <1>7 DEF Next, Ended

(* The totals the averages are made of are those of the lines printed,     *)
(* although the clock may run backwards and the differences wrap; the time *)
(* IO was used is that of the process if there is only one.                *)
THEOREM AllAreAlwaysServed == Spec => []AllAreServed
<1>1. AInv /\ (pc = "end" => ServedOnce) => AllAreServed
  <2> SUFFICES ASSUME AInv, pc = "end", ServedOnce PROVE AllAreServed
    BY DEF AllAreServed
  <2>1. DOMAIN proc = {}
    BY DEF ServedOnce
  <2>2. InUse(proc) = 0 /\ AddedUp /\ AloneInIO
    BY <2>1 DEF InUse, AInv
  <2>3. SumOf(Uses(printed)) + 0 = SumOf(Uses(printed))
    <3>1. [pid |-> 0, AT |-> 0, TC |-> 0, FT |-> 0, IT |-> 0, CW |-> 0] \in Entry
      BY DEF Entry
    <3>2. \E P : Told(P)
      BY DEF AInv, TInv
    <3>3. SumOf(Uses(printed)) \in Int
      BY <3>1, <3>2, ColumnsGrow DEF Told
    <3> QED
      BY <3>3
  <2> QED
    BY <2>2, <2>3 DEF AllAreServed, AddedUp, AloneInIO, CPUs, Turns, Waits, Uses
<1>2. Init => AInv
  BY StartsAdded
<1>3. AInv /\ [Next]_svars => AInv'
  BY AInvStep
<1> QED
  BY <1>1, <1>2, <1>3, AllAreServedOnce, PTL DEF Spec
=============================================================================
