---------------------------- MODULE LinkerProofs ----------------------------
(* What the linker keeps, for inputs of any number of modules, modules of  *)
(* any length and both modes: where the modules are, which use list        *)
(* entries were reported, the symbol table and the memory map; and what    *)
(* the module reader makes of any files, whatever the limits.              *)
EXTENDS Linker, ModuleReader, SequenceTheorems, FiniteSetTheorems, TLAPS

LEMMA LeastNatural ==
  ASSUME NEW S \in SUBSET Nat, S # {}
  PROVE  \E n \in S : \A m \in S : n <= m
<1> DEFINE R == {ss \in Nat \X Nat : ss[1] < ss[2]}
<1>1. IsWellFoundedOn(R, Nat)
  BY NatLessThanWellFounded DEF OpToRel
<1> HIDE DEF R
<1>2. PICK n \in S : \A m \in S : ~ (<<m, n>> \in R)
  BY <1>1, WFMin
<1>3. \A m \in S : ~ (m < n)
  BY <1>2 DEF R
<1> QED
  BY <1>3

Rounds(g, n, start, f) ==
  g = [k \in 0 .. n |-> IF k = 0 THEN start ELSE f[k][g[k - 1]]]

\* A function defined by recursion on 0 .. n exists, when every round leads
\* from the k-1-st set of values to the k-th.
LEMMA Iterates ==
  ASSUME NEW n \in Nat, NEW T, NEW start, start \in T[0], NEW f,
         \A k \in 1 .. n : \A x \in T[k - 1] : f[k][x] \in T[k]
  PROVE  \E g : Rounds(g, n, start, f) /\ \A k \in 0 .. n : g[k] \in T[k]
<1> DEFINE Upto(m, g) ==
             /\ g = [k \in 0 .. m |-> IF k = 0 THEN start ELSE f[k][g[k - 1]]]
             /\ \A k \in 0 .. m : g[k] \in T[k]
           Bad == {m \in 0 .. n : ~ \E g : Upto(m, g)}
<1>1. Bad = {}
  <2> SUFFICES ASSUME Bad # {} PROVE FALSE
    OBVIOUS
  <2>1. PICK m \in Bad : \A k \in Bad : m <= k
    <3>1. Bad \in SUBSET Nat
      OBVIOUS
    <3> HIDE DEF Bad
    <3> QED
      BY <3>1, LeastNatural
  <2>2. CASE m = 0
    <3> DEFINE g == [k \in 0 .. 0 |-> start]
    <3>1. Upto(0, g)
      OBVIOUS
    <3>2. \E h : Upto(0, h)
      BY <3>1
    <3> QED
      BY <2>1, <2>2, <3>2
  <2>3. CASE m # 0
    <3>1. m \in 1 .. n /\ m - 1 \in 0 .. n /\ m \in Nat /\ m - 1 < m
      BY <2>3
    <3>2. m - 1 \notin Bad
      <4> HIDE DEF Bad
      <4> QED
        BY <2>1, <3>1
    <3>3. PICK g : Upto(m - 1, g)
      BY <3>1, <3>2
    <3> DEFINE h == [k \in 0 .. m |-> IF k < m THEN g[k] ELSE f[m][g[m - 1]]]
    <3>4. /\ \A k \in 0 .. m - 1 : h[k] = g[k]
          /\ h[m] = f[m][g[m - 1]]
          /\ h = [k \in 0 .. m |-> h[k]]
      BY <3>1
    <3> HIDE DEF h
    <3>5. /\ \A k \in 0 .. m - 1 : g[k] = IF k = 0 THEN start ELSE f[k][g[k - 1]]
          /\ \A k \in 0 .. m - 1 : g[k] \in T[k]
      <4>1. g = [k \in 0 .. m - 1 |-> IF k = 0 THEN start ELSE f[k][g[k - 1]]]
        BY <3>3
      <4>2. ASSUME NEW k \in 0 .. m - 1
            PROVE  g[k] = IF k = 0 THEN start ELSE f[k][g[k - 1]]
        BY <4>1
      <4> QED
        BY <3>3, <4>2
    <3>6. h[m] \in T[m]
      <4>1. m - 1 \in 0 .. m - 1
        BY <3>1
      <4> QED
        BY <3>1, <3>4, <3>5, <4>1
    <3>7. ASSUME NEW k \in 0 .. m
          PROVE  h[k] = (IF k = 0 THEN start ELSE f[k][h[k - 1]]) /\ h[k] \in T[k]
      <4>1. CASE k = 0
        <5>1. k \in 0 .. m - 1
          BY <3>1, <4>1
        <5> QED
          BY <3>4, <3>5, <4>1, <5>1
      <4>2. CASE k # 0 /\ k < m
        <5>1. k \in 0 .. m - 1 /\ k - 1 \in 0 .. m - 1
          BY <3>1, <4>2
        <5> QED
          BY <3>4, <3>5, <4>2, <5>1
      <4>3. CASE k = m
        <5>1. m - 1 \in 0 .. m - 1
          BY <3>1
        <5> QED
          BY <2>3, <3>4, <3>6, <4>3, <5>1
      <4> QED
        BY <3>1, <4>1, <4>2, <4>3
    <3>8. h = [k \in 0 .. m |-> IF k = 0 THEN start ELSE f[k][h[k - 1]]]
      BY <3>4, <3>7
    <3>9. \E e : Upto(m, e)
      BY <3>7, <3>8
    <3> QED
      BY <2>1, <3>9
  <2> QED
    BY <2>2, <2>3
<1>2. \E g : Upto(n, g)
  BY <1>1
<1> QED
  BY <1>2 DEF Rounds

\* What InsertAt makes of s, n places on.
LEMMA InsertedAt ==
  ASSUME NEW S, NEW s \in Seq(S), NEW n \in 0 .. Len(s), NEW o \in S
  PROVE  LET r == InsertAt(s, n + 1, o)
         IN  /\ r \in Seq(S) /\ Len(r) = Len(s) + 1
             /\ \A j \in 1 .. Len(s) + 1 :
                  r[j] = IF j <= n THEN s[j] ELSE IF j = n + 1 THEN o ELSE s[j - 1]
<1> DEFINE a == SubSeq(s, 1, n)
           b == SubSeq(s, n + 1, Len(s))
           m == Len(s)
<1>0. m \in Nat /\ n \in Nat /\ n <= m /\ \A j \in 1 .. m : s[j] \in S
  OBVIOUS
<1>1. a \in Seq(S) /\ Len(a) = n /\ \A j \in 1 .. n : a[j] = s[j]
  <2>1. \A j \in 1 .. n : s[j] \in S
    BY <1>0
  <2>2. /\ a \in Seq(S) /\ Len(a) = IF 1 <= n THEN n - 1 + 1 ELSE 0
        /\ \A j \in 1 .. n - 1 + 1 : a[j] = s[1 + j - 1]
    BY <2>1, SubSeqProperties
  <2> HIDE DEF a
  <2> QED
    BY <1>0, <2>2
<1>2. b \in Seq(S) /\ Len(b) = m - n /\ \A j \in 1 .. m - n : b[j] = s[n + j]
  <2>1. \A j \in n + 1 .. m : s[j] \in S
    BY <1>0
  <2>2. n + 1 \in Int /\ m \in Int
    BY <1>0
  <2>3. /\ b \in Seq(S) /\ Len(b) = IF n + 1 <= m THEN m - (n + 1) + 1 ELSE 0
        /\ \A j \in 1 .. m - (n + 1) + 1 : b[j] = s[(n + 1) + j - 1]
    BY <2>1, <2>2, SubSeqProperties
  <2> HIDE DEF b
  <2>4. \A j \in 1 .. m - n : j \in 1 .. m - (n + 1) + 1 /\ (n + 1) + j - 1 = n + j
    BY <1>0
  <2>5. Len(b) = m - n
    BY <1>0, <2>3
  <2> QED
    BY <2>3, <2>4, <2>5
<1> HIDE DEF a, b
<1>3. <<o>> \in Seq(S) /\ Len(<<o>>) = 1 /\ <<o>>[1] = o
  OBVIOUS
<1> DEFINE c == <<o>>
           ac == a \o c
<1> HIDE DEF c
<1>4. /\ ac \in Seq(S) /\ Len(ac) = n + 1
      /\ \A j \in 1 .. n + 1 : ac[j] = IF j <= n THEN s[j] ELSE o
  <2>1. /\ ac \in Seq(S) /\ Len(ac) = Len(a) + Len(c)
        /\ \A j \in 1 .. Len(a) + Len(c) :
             ac[j] = IF j <= Len(a) THEN a[j] ELSE c[j - Len(a)]
    BY <1>1, <1>3, ConcatProperties DEF c
  <2> HIDE DEF ac
  <2>2. ASSUME NEW j \in 1 .. n + 1 PROVE ac[j] = IF j <= n THEN s[j] ELSE o
    <3>1. CASE j <= n
      BY <1>0, <1>1, <1>3, <2>1, <3>1 DEF c
    <3>2. CASE ~ (j <= n)
      <4>1. j - n = 1 /\ c[1] = o
        BY <1>0, <3>2 DEF c
      <4> QED
        BY <1>0, <1>1, <1>3, <2>1, <3>2, <4>1 DEF c
    <3> QED
      BY <3>1, <3>2
  <2> QED
    BY <1>0, <1>1, <1>3, <2>1, <2>2 DEF c
<1> HIDE DEF ac
<1> DEFINE r == ac \o b
<1>5. /\ r \in Seq(S) /\ Len(r) = m + 1
      /\ \A j \in 1 .. m + 1 : r[j] = IF j <= n + 1 THEN ac[j] ELSE b[j - (n + 1)]
  <2>1. /\ r \in Seq(S) /\ Len(r) = Len(ac) + Len(b)
        /\ \A j \in 1 .. Len(ac) + Len(b) :
             r[j] = IF j <= Len(ac) THEN ac[j] ELSE b[j - Len(ac)]
    BY <1>2, <1>4, ConcatProperties
  <2> HIDE DEF r
  <2>2. Len(ac) + Len(b) = m + 1
    BY <1>0, <1>2, <1>4
  <2> QED
    BY <1>4, <2>1, <2>2
<1> HIDE DEF r
<1>6. ASSUME NEW j \in 1 .. m + 1
      PROVE  r[j] = IF j <= n THEN s[j] ELSE IF j = n + 1 THEN o ELSE s[j - 1]
  <2>1. CASE j <= n + 1
    BY <1>0, <1>4, <1>5, <2>1
  <2>2. CASE j > n + 1
    <3>1. /\ j - (n + 1) \in 1 .. m - n /\ n + (j - (n + 1)) = j - 1
          /\ ~ (j <= n + 1) /\ ~ (j <= n) /\ j # n + 1
      BY <1>0, <2>2
    <3>2. r[j] = b[j - (n + 1)]
      BY <1>5, <3>1
    <3>3. b[j - (n + 1)] = s[j - 1]
      BY <1>2, <3>1
    <3> QED
      BY <3>1, <3>2, <3>3
  <2> QED
    BY <1>0, <2>1, <2>2
<1>7. r = InsertAt(s, n + 1, o)
  <2>1. (n + 1) - 1 = n
    BY <1>0
  <2> QED
    BY <2>1 DEF InsertAt, r, ac, a, b, c
<1> QED
  BY <1>5, <1>6, <1>7

-----------------------------------------------------------------------------
(* Where the modules start.                                                *)

Words(inp, j) == UNION {{k} \X DOMAIN inp[k].text : k \in 1 .. j - 1}

BaseOf(inp, j) == Cardinality(Words(inp, j))

LEMMA TextOf ==
  ASSUME NEW src \in Sources
  PROVE  /\ src.defs \in Seq([sym : Int, local_offset : Nat])
         /\ src.uses \in Seq(Int)
         /\ src.text \in Seq([addr : {"I", "A", "R", "E"}, val : Nat])
         /\ Len(src.text) \in Nat /\ DOMAIN src.text = 1 .. Len(src.text)
         /\ Len(src.uses) \in Nat /\ DOMAIN src.uses = 1 .. Len(src.uses)
         /\ Len(src.defs) \in 0 .. MAX_DEFLIST_SIZE
         /\ DOMAIN src.defs = 1 .. Len(src.defs)
  BY SourcesAssumption

\* One module more in front adds its words.
LEMMA NextWords ==
  ASSUME NEW inp \in Seq(Sources), NEW j \in 1 .. Len(inp), IsFiniteSet(Words(inp, j))
  PROVE  /\ IsFiniteSet(Words(inp, j + 1))
         /\ BaseOf(inp, j + 1) = BaseOf(inp, j) + Len(inp[j].text)
<1> DEFINE n == Len(inp[j].text)
           T == {j} \X (1 .. n)
           W == Words(inp, j)
<1>1. n \in Nat /\ DOMAIN inp[j].text = 1 .. n
  <2>1. inp[j] \in Sources
    OBVIOUS
  <2> QED
    BY <2>1, TextOf
<1> HIDE DEF n
<1>2. Words(inp, j + 1) = W \cup T
  <2>1. 1 .. (j + 1) - 1 = (1 .. j - 1) \cup {j}
    OBVIOUS
  <2>2. Words(inp, j + 1) = UNION {{k} \X DOMAIN inp[k].text : k \in (1 .. j - 1) \cup {j}}
    BY <2>1 DEF Words
  <2>3. @ = Words(inp, j) \cup ({j} \X DOMAIN inp[j].text)
    BY DEF Words
  <2> QED
    BY <1>1, <2>2, <2>3
<1>3. W \cap T = {}
  <2>1. \A k \in 1 .. j - 1 : k # j
    OBVIOUS
  <2> QED
    BY <2>1 DEF Words
<1>4. IsFiniteSet(T) /\ Cardinality(T) = n
  <2>1. IsFiniteSet({j}) /\ Cardinality({j}) = 1
    BY FS_Singleton
  <2>2. IsFiniteSet(1 .. n) /\ Cardinality(1 .. n) = n
    <3>1. IsFiniteSet(1 .. n) /\ Cardinality(1 .. n) = IF 1 > n THEN 0 ELSE n - 1 + 1
      BY <1>1, FS_Interval
    <3> QED
      BY <1>1, <3>1
  <2>3. IsFiniteSet(T) /\ Cardinality(T) = Cardinality({j}) * Cardinality(1 .. n)
    BY <2>1, <2>2, FS_Product
  <2> QED
    BY <1>1, <2>1, <2>2, <2>3
<1>5. IsFiniteSet(W) /\ Cardinality(W) \in Nat
  BY FS_CardinalityType
<1> HIDE DEF T, W
<1>6. /\ IsFiniteSet(W \cup T)
      /\ Cardinality(W \cup T) = Cardinality(W) + Cardinality(T) - Cardinality({})
  BY <1>3, <1>4, <1>5, FS_Union
<1>7. Cardinality({}) = 0
  BY FS_EmptySet
<1>8. Cardinality(W \cup T) = Cardinality(W) + n
  BY <1>1, <1>4, <1>5, <1>6, <1>7
<1> QED
  BY <1>2, <1>6, <1>8 DEF BaseOf, n, W

LEMMA BaseFacts ==
  ASSUME NEW inp \in Seq(Sources)
  PROVE  /\ BaseOf(inp, 1) = 0
         /\ \A j \in 1 .. Len(inp) + 1 : BaseOf(inp, j) \in Nat /\ IsFiniteSet(Words(inp, j))
         /\ \A j \in 1 .. Len(inp) : BaseOf(inp, j + 1) = BaseOf(inp, j) + Len(inp[j].text)
<1> DEFINE Bad == {j \in 1 .. Len(inp) + 1 : ~ IsFiniteSet(Words(inp, j))}
<1>0. Len(inp) \in Nat
  OBVIOUS
<1>1. Words(inp, 1) = {}
  BY DEF Words
<1>2. Bad = {}
  <2> SUFFICES ASSUME Bad # {} PROVE FALSE
    OBVIOUS
  <2>1. PICK m \in Bad : \A k \in Bad : m <= k
    <3>1. Bad \in SUBSET Nat
      BY <1>0
    <3> HIDE DEF Bad
    <3> QED
      BY <3>1, LeastNatural
  <2>2. m # 1
    BY <1>1, <2>1, FS_EmptySet
  <2>3. m - 1 \in 1 .. Len(inp) /\ m - 1 \in 1 .. Len(inp) + 1 /\ m - 1 < m /\ (m - 1) + 1 = m
    BY <1>0, <2>2
  <2>4. IsFiniteSet(Words(inp, m - 1))
    BY <2>1, <2>3
  <2>5. IsFiniteSet(Words(inp, (m - 1) + 1))
    BY <2>3, <2>4, NextWords
  <2> QED
    BY <2>1, <2>3, <2>5
<1>3. \A j \in 1 .. Len(inp) + 1 : IsFiniteSet(Words(inp, j))
  BY <1>2
<1>4. \A j \in 1 .. Len(inp) + 1 : BaseOf(inp, j) \in Nat
  BY <1>3, FS_CardinalityType DEF BaseOf
<1>5. \A j \in 1 .. Len(inp) : BaseOf(inp, j + 1) = BaseOf(inp, j) + Len(inp[j].text)
  <2>1. \A j \in 1 .. Len(inp) : j \in 1 .. Len(inp) + 1
    BY <1>0
  <2> QED
    BY <1>3, <2>1, NextWords
<1> QED
  BY <1>1, <1>3, <1>4, <1>5, FS_EmptySet DEF BaseOf

\* Modules read later do not move those read before.
LEMMA BaseKept ==
  ASSUME NEW inp \in Seq(Sources), NEW src \in Sources
  PROVE  /\ \A j \in 1 .. Len(inp) + 1 : BaseOf(Append(inp, src), j) = BaseOf(inp, j)
         /\ BaseOf(Append(inp, src), Len(inp) + 2) = BaseOf(inp, Len(inp) + 1) + Len(src.text)
<1> DEFINE more == Append(inp, src)
<1>1. /\ more \in Seq(Sources) /\ Len(more) = Len(inp) + 1 /\ Len(inp) \in Nat
      /\ \A k \in 1 .. Len(inp) : more[k] = inp[k]
      /\ more[Len(inp) + 1] = src
  OBVIOUS
<1> HIDE DEF more
<1>2. ASSUME NEW j \in 1 .. Len(inp) + 1 PROVE BaseOf(more, j) = BaseOf(inp, j)
  <2>1. \A k \in 1 .. j - 1 : more[k] = inp[k]
    BY <1>1
  <2>2. Words(more, j) = Words(inp, j)
    BY <2>1 DEF Words
  <2> QED
    BY <2>2 DEF BaseOf
<1>3. Len(inp) + 1 \in 1 .. Len(more) /\ (Len(inp) + 1) + 1 = Len(inp) + 2
      /\ Len(inp) + 1 \in 1 .. Len(inp) + 1
  BY <1>1
<1>4. BaseOf(more, Len(inp) + 2) = BaseOf(more, Len(inp) + 1) + Len(more[Len(inp) + 1].text)
  BY <1>1, <1>3, BaseFacts
<1> QED
  BY <1>1, <1>2, <1>3, <1>4 DEF more


\* The words of a module lie in front of the modules behind it.
LEMMA BaseRises ==
  ASSUME NEW inp \in Seq(Sources), NEW l \in 1 .. Len(inp) + 1, NEW j \in 1 .. l - 1
  PROVE  /\ j \in 1 .. Len(inp)
         /\ BaseOf(inp, j) + Len(inp[j].text) <= BaseOf(inp, l)
<1>1. j \in 1 .. Len(inp) /\ j + 1 \in 1 .. Len(inp) + 1
  OBVIOUS
<1>2. Words(inp, j + 1) \subseteq Words(inp, l)
  <2>1. 1 .. (j + 1) - 1 \subseteq 1 .. l - 1
    OBVIOUS
  <2> QED
    BY <2>1 DEF Words
<1>3. IsFiniteSet(Words(inp, l))
  BY BaseFacts
<1>4. BaseOf(inp, j + 1) <= BaseOf(inp, l)
  BY <1>2, <1>3, FS_Subset DEF BaseOf
<1>5. BaseOf(inp, j + 1) = BaseOf(inp, j) + Len(inp[j].text)
  BY <1>1, BaseFacts
<1> QED
  BY <1>1, <1>4, <1>5

-----------------------------------------------------------------------------
(* The entries of a use list that no instruction points at.                *)

\* The places of the entries that get_unused_uselist takes of the first k.
Taken(m, k) == {l \in 1 .. k : l - 1 \in Unreached(m)}

Entry(m, l) == [sym |-> m.uses[l], module_id |-> m.id]

LEMMA RangeAppend ==
  ASSUME NEW S, NEW s \in Seq(S), NEW e \in S
  PROVE  Append(s, e) \in Seq(S) /\ Range(Append(s, e)) = Range(s) \cup {e}
<1>1. /\ Append(s, e) \in Seq(S) /\ Len(Append(s, e)) = Len(s) + 1 /\ Len(s) \in Nat
      /\ \A i \in 1 .. Len(s) : Append(s, e)[i] = s[i]
      /\ Append(s, e)[Len(s) + 1] = e
  BY AppendProperties
<1>2. /\ Range(s) = {s[i] : i \in 1 .. Len(s)}
      /\ Range(Append(s, e)) = {Append(s, e)[i] : i \in 1 .. Len(s) + 1}
  BY <1>1, RangeEquality
<1>3. 1 .. Len(s) + 1 = (1 .. Len(s)) \cup {Len(s) + 1}
  BY <1>1
<1> QED
  BY <1>1, <1>2, <1>3

LEMMA UnusedListed ==
  ASSUME NEW m, m.uses \in Seq(Int), m.id \in Nat
  PROVE  /\ get_unused_uselist(m) \in Seq([sym : Int, module_id : Nat])
         /\ Range(get_unused_uselist(m)) = {Entry(m, l) : l \in Taken(m, Len(m.uses))}
<1> DEFINE n == Len(m.uses)
           E == [sym : Int, module_id : Nat]
           Q == Seq(E)
           Good(q, k) == q \in Q /\ Range(q) = {Entry(m, l) : l \in Taken(m, k)}
           Turn(q, k) == IF k - 1 \in Unreached(m)
                         THEN Append(q, [sym |-> m.uses[k], module_id |-> m.id]) ELSE q
           H(g) == [k \in 0 .. n |-> IF k = 0 THEN << >> ELSE Turn(g[k - 1], k)]
           unused == CHOOSE g : g = H(g)
<1>1. n \in Nat /\ \A k \in 1 .. n : m.uses[k] \in Int
  OBVIOUS
<1>2. ASSUME NEW k \in 1 .. n, NEW q, Good(q, k - 1)
      PROVE  Good(Turn(q, k), k)
  <2>1. 1 .. k = (1 .. k - 1) \cup {k}
    BY <1>1
  <2>2. CASE k - 1 \in Unreached(m)
    <3>1. Entry(m, k) \in E
      BY <1>1 DEF Entry
    <3>2. /\ Append(q, Entry(m, k)) \in Q
          /\ Range(Append(q, Entry(m, k))) = Range(q) \cup {Entry(m, k)}
      <4> DEFINE e == Entry(m, k)
      <4>1. q \in Seq(E) /\ e \in E
        BY <1>2, <3>1
      <4> HIDE DEF E, e
      <4>2. Append(q, e) \in Seq(E) /\ Range(Append(q, e)) = Range(q) \cup {e}
        BY <4>1, RangeAppend
      <4> QED
        BY <4>2 DEF e, E
    <3>3. Taken(m, k) = Taken(m, k - 1) \cup {k}
      BY <2>1, <2>2 DEF Taken
    <3>4. Turn(q, k) = Append(q, Entry(m, k))
      BY <2>2 DEF Entry
    <3> QED
      BY <1>2, <3>2, <3>3, <3>4
  <2>3. CASE k - 1 \notin Unreached(m)
    <3>1. Taken(m, k) = Taken(m, k - 1)
      BY <2>1, <2>3 DEF Taken
    <3> QED
      BY <1>2, <2>3, <3>1
  <2> QED
    BY <2>2, <2>3
<1>3. Good(<< >>, 0)
  <2>1. Taken(m, 0) = {}
    BY DEF Taken
  <2> QED
    BY <2>1 DEF Range
<1>4. \A k \in 0 .. n : \A q : Good(q, k) => q \in Q
  OBVIOUS
<1> HIDE DEF Good, Turn, Q, n
<1>5. \E g : g = H(g)
  <2> DEFINE T == [k \in 0 .. n |-> {q \in Q : Good(q, k)}]
             f == [k \in 1 .. n |-> [q \in Q |-> Turn(q, k)]]
  <2>1. \A k \in 1 .. n : k - 1 \in 0 .. n /\ k \in 0 .. n
    BY <1>1
  <2>2. << >> \in T[0]
    BY <1>1, <1>3, <1>4
  <2>3. ASSUME NEW k \in 1 .. n, NEW x \in T[k - 1]
        PROVE  f[k][x] = Turn(x, k) /\ f[k][x] \in T[k]
    BY <1>2, <1>4, <2>1
  <2> HIDE DEF f, T
  <2>4. PICK g : Rounds(g, n, << >>, f) /\ \A k \in 0 .. n : g[k] \in T[k]
    BY <1>1, <2>2, <2>3, Iterates
  <2>5. \A k \in 0 .. n : (IF k = 0 THEN << >> ELSE f[k][g[k - 1]]) =
                           (IF k = 0 THEN << >> ELSE Turn(g[k - 1], k))
    <3>1. \A k \in 0 .. n : k = 0 \/ k \in 1 .. n
      BY <1>1
    <3> QED
      BY <2>1, <2>3, <2>4, <3>1
  <2>6. [k \in 0 .. n |-> IF k = 0 THEN << >> ELSE f[k][g[k - 1]]] = H(g)
    BY <2>5
  <2> QED
    BY <2>4, <2>6 DEF Rounds
<1>6. unused = H(unused)
  BY <1>5
<1>7. unused[n] = get_unused_uselist(m)
  BY DEF get_unused_uselist, Turn, n
<1> HIDE DEF unused
<1>8. /\ unused[0] = << >>
      /\ \A k \in 1 .. n : unused[k] = Turn(unused[k - 1], k)
  <2>1. 0 \in 0 .. n /\ \A k \in 1 .. n : k \in 0 .. n /\ k # 0
    BY <1>1
  <2>2. \A k \in 0 .. n : unused[k] = H(unused)[k]
    BY <1>6
  <2> QED
    BY <2>1, <2>2
<1>9. {k \in 0 .. n : ~ Good(unused[k], k)} = {}
  <2> DEFINE Bad == {k \in 0 .. n : ~ Good(unused[k], k)}
  <2> SUFFICES ASSUME Bad # {} PROVE FALSE
    OBVIOUS
  <2>1. PICK k \in Bad : \A l \in Bad : k <= l
    <3>1. Bad \in SUBSET Nat
      BY <1>1
    <3> HIDE DEF Bad
    <3> QED
      BY <3>1, LeastNatural
  <2>2. k \in 1 .. n /\ k - 1 \in 0 .. n /\ k - 1 < k /\ k \in Nat
    BY <1>1, <1>3, <1>8
  <2>3. k - 1 \notin Bad
    <3> HIDE DEF Bad
    <3> QED
      BY <2>1, <2>2
  <2> QED
    BY <1>2, <1>8, <2>1, <2>2, <2>3
<1>10. n \in 0 .. n
  BY <1>1
<1> QED
  BY <1>7, <1>9, <1>10 DEF Good, Q, n

-----------------------------------------------------------------------------
(* Both passes: the modules are where they were, in either mode.           *)

Modules == [id : Nat, base : Nat, defs : Seq([sym : Int, local_offset : Nat]),
            uses : Seq(Int), text : Seq([addr : {"I", "A", "R", "E"}, val : Nat])]

Kept(inp, j) == [id |-> j, base |-> BaseOf(inp, j), defs |-> inp[j].defs,
                 uses |-> inp[j].uses, text |-> inp[j].text]

\* Every module is where the words of those in front of it end, and in pass 2
\* has the number and the place of pass 1.
Placed ==
  /\ conserve_mem \in BOOLEAN
  /\ phase \in {"pass1", "pass2", "end", "failed"}
  /\ input \in Seq(Sources)
  /\ next \in 1 .. Len(input) + 1
  /\ phase = "pass1" => /\ next = 1
                        /\ module_id = Len(input)
                        /\ global_offset = BaseOf(input, Len(input) + 1)
  /\ phase = "pass2" /\ conserve_mem => /\ module_id = next - 1
                                        /\ global_offset = BaseOf(input, next)
  /\ phase = "end" => next = Len(input) + 1
  /\ ~ conserve_mem => /\ modules \in Seq(Modules)
                       /\ Len(modules) = Len(input)
                       /\ \A j \in 1 .. Len(input) : modules[j] = Kept(input, j)

LEMMA BaseIsBaseOf == \A j : Base(j) = BaseOf(input, j)
  BY DEF Base, BaseOf, Words

\* The module pass 2 comes to.
LEMMA CurrentIsModule ==
  ASSUME Placed, phase = "pass2", next <= Len(input)
  PROVE  /\ next \in 1 .. Len(input) /\ input[next] \in Sources
         /\ Current.id = next /\ Current.base = BaseOf(input, next)
         /\ Current.uses = input[next].uses /\ Current.text = input[next].text
<1>1. next \in 1 .. Len(input) /\ input[next] \in Sources
  BY DEF Placed
<1>2. CASE conserve_mem
  <2>1. module_id + 1 = next /\ global_offset = BaseOf(input, next)
    BY <1>1, <1>2 DEF Placed
  <2> QED
    BY <1>1, <1>2, <2>1 DEF Current, Module
<1>3. CASE ~ conserve_mem
  <2>1. Current = Kept(input, next)
    BY <1>1, <1>3 DEF Placed, Current
  <2> QED
    BY <1>1, <2>1 DEF Kept
<1> QED
  BY <1>1, <1>2, <1>3

LEMMA PlacedInit == ASSUME Init PROVE Placed
<1>1. << >> \in Seq(Sources) /\ << >> \in Seq(Modules) /\ Len(<< >>) = 0
  BY EmptySeq
<1>2. BaseOf(<< >>, 0 + 1) = 0
  <2>1. Words(<< >>, 0 + 1) = {}
    BY DEF Words
  <2> QED
    BY <2>1, FS_EmptySet DEF BaseOf
<1> QED
  BY <1>1, <1>2 DEF Init, Placed

LEMMA PlacedRead ==
  ASSUME Placed, NEW src \in Sources, ReadModule(src)
  PROVE  Placed'
<1> DEFINE n == Len(input)
           new == Append(input, src)
           m == Module(src, IF conserve_mem THEN "USELIST" ELSE "NONE")
<1>0. n \in Nat /\ input \in Seq(Sources)
  BY DEF Placed
<1>1. /\ new \in Seq(Sources) /\ Len(new) = n + 1
      /\ \A k \in 1 .. n : new[k] = input[k]
      /\ new[n + 1] = src
  BY <1>0, AppendProperties
<1>2. /\ \A j \in 1 .. n + 1 : BaseOf(new, j) = BaseOf(input, j)
      /\ BaseOf(new, n + 2) = BaseOf(input, n + 1) + Len(src.text)
  BY <1>0, BaseKept
<1>3. /\ phase = "pass1" /\ input' = new /\ module_id' = module_id + 1
      /\ global_offset' = global_offset + Len(src.text)
      /\ modules' = IF conserve_mem THEN modules ELSE Append(modules, m)
      /\ UNCHANGED <<conserve_mem, phase, next>>
  BY DEF ReadModule
<1>4. BaseOf(input, n + 1) \in Nat
  <2>1. n + 1 \in 1 .. n + 1
    BY <1>0
  <2> QED
    BY <1>0, <2>1, BaseFacts
<1>5. ASSUME ~ conserve_mem
      PROVE  /\ modules' \in Seq(Modules) /\ Len(modules') = n + 1
             /\ \A j \in 1 .. n + 1 : modules'[j] = Kept(new, j)
  <2>1. m = Kept(new, n + 1)
    <3>1. n + 1 \in 1 .. n + 1
      BY <1>0
    <3>2. BaseOf(new, n + 1) = global_offset /\ module_id = n
      BY <1>2, <1>3, <3>1 DEF Placed
    <3> QED
      BY <1>1, <1>5, <3>2 DEF Module, Kept
  <2>2. Kept(new, n + 1) \in Modules
    <3>1. n + 1 \in 1 .. n + 1 /\ n + 1 \in Nat
      BY <1>0
    <3>2. BaseOf(new, n + 1) \in Nat
      BY <1>2, <1>4, <3>1
    <3> QED
      BY <1>1, <3>1, <3>2, TextOf DEF Kept, Modules
  <2> HIDE DEF new, m
  <2>3. modules \in Seq(Modules) /\ Len(modules) = n
    BY <1>5 DEF Placed
  <2> DEFINE k == Kept(new, n + 1)
  <2>4. k \in Modules /\ modules' = Append(modules, k)
    BY <1>3, <1>5, <2>1, <2>2
  <2> HIDE DEF k
  <2>5. /\ modules' \in Seq(Modules) /\ Len(modules') = n + 1
        /\ \A j \in 1 .. n : modules'[j] = modules[j]
        /\ modules'[n + 1] = k
    BY <2>3, <2>4, AppendProperties
  <2>6. ASSUME NEW j \in 1 .. n + 1 PROVE modules'[j] = Kept(new, j)
    <3>1. CASE j = n + 1
      BY <2>5, <3>1 DEF k
    <3>2. CASE j # n + 1
      <4>1. j \in 1 .. n
        BY <1>0, <3>2
      <4>2. modules'[j] = Kept(input, j)
        BY <1>5, <2>5, <4>1 DEF Placed
      <4>3. Kept(input, j) = Kept(new, j)
        BY <1>1, <1>2, <4>1 DEF Kept
      <4> QED
        BY <4>2, <4>3
    <3> QED
      BY <3>1, <3>2
  <2> QED
    BY <2>5, <2>6
<1> HIDE DEF new, m
<1>6. /\ module_id' = Len(new) /\ global_offset' = BaseOf(new, Len(new) + 1)
      /\ next' = 1 /\ 1 \in 1 .. Len(new) + 1
  <2>1. (n + 1) + 1 = n + 2
    BY <1>0
  <2>2. next = 1 /\ module_id = n /\ global_offset = BaseOf(input, n + 1)
    BY <1>3 DEF Placed
  <2> HIDE DEF n
  <2> QED
    BY <1>0, <1>1, <1>2, <1>3, <2>1, <2>2
<1> HIDE DEF n
<1>7. Len(input') = n + 1
  BY <1>1, <1>3
<1> QED
  BY <1>1, <1>3, <1>5, <1>6, <1>7 DEF Placed

LEMMA PlacedStep ==
  ASSUME Placed, [Next]_vars
  PROVE  Placed'
<1>1. ASSUME NEW src \in Sources, ReadModule(src) PROVE Placed'
  BY <1>1, PlacedRead
<1>2. ASSUME NEW src \in Sources, TooManyInstructions(src) PROVE Placed'
  BY <1>2 DEF TooManyInstructions, Placed
<1>3. CASE EndPass1
  <2>1. BaseOf(input, 1) = 0
    BY BaseFacts DEF Placed
  <2> QED
    BY <1>3, <2>1 DEF EndPass1, Restart, Placed
<1>4. CASE LinkModule
  <2>1. /\ phase = "pass2" /\ next <= Len(input) /\ next' = next + 1
        /\ UNCHANGED <<conserve_mem, phase, input, modules>>
        /\ conserve_mem => /\ module_id' = module_id + 1
                           /\ global_offset' = global_offset + Len(input[next].text)
    BY <1>4 DEF LinkModule, Placed
  <2>2. next \in 1 .. Len(input) /\ input \in Seq(Sources)
    BY <2>1, CurrentIsModule DEF Placed
  <2>3. BaseOf(input, next + 1) = BaseOf(input, next) + Len(input[next].text)
    BY <2>2, BaseFacts
  <2>4. next + 1 \in 1 .. Len(input) + 1
    BY <2>2
  <2>5. conserve_mem => module_id' = next' - 1 /\ global_offset' = BaseOf(input, next')
    BY <2>1, <2>2, <2>3 DEF Placed
  <2> QED
    BY <2>1, <2>4, <2>5 DEF Placed
<1>5. CASE EndPass2
  <2>1. next = Len(input) + 1
    BY <1>5 DEF EndPass2, Placed
  <2> QED
    BY <1>5, <2>1 DEF EndPass2, Placed
<1>6. CASE SyntaxError
  BY <1>6 DEF SyntaxError, Placed
<1>7. CASE Exited \/ UNCHANGED vars
  BY <1>7 DEF Exited, vars, Placed
<1> QED
  BY <1>1, <1>2, <1>3, <1>4, <1>5, <1>6, <1>7 DEF Next, AfterPass1

LEMMA AlwaysPlaced == Spec => []Placed
  BY PlacedInit, PlacedStep, PTL DEF Spec

(* For every input and in both modes: a module that is read a second time  *)
(* gets the number and the address it had the first time, and its use list *)
(* and its words are there.                                                *)
THEOREM ModesAlwaysAgree == Spec => []ModesAgree
<1>1. Placed => ModesAgree
  BY CurrentIsModule, BaseIsBaseOf DEF ModesAgree
<1> QED
  BY <1>1, AlwaysPlaced, PTL

-----------------------------------------------------------------------------
(* The use lists.                                                          *)

\* The entries of module j that none of its instructions points at.
Unpointed(inp, j) ==
  {<<j, inp[j].uses[k]>> : k \in {k \in DOMAIN inp[j].uses :
     \A i \in DOMAIN inp[j].text :
       LET ins == inp[j].text[i]
       IN  ~(ins.addr = "E" /\ ins.val < 10000 /\ ins.val % 1000 = k - 1)}}

Pairs(u) == {<<x.module_id, x.sym>> : x \in Range(u)}

Unused == [sym : Int, module_id : Nat]

\* The entries reported so far are those of the modules linked so far.
Reported ==
  /\ unused_uselist \in Seq(Unused)
  /\ Pairs(unused_uselist) = UNION {Unpointed(input, j) : j \in 1 .. next - 1}
  /\ phase = "pass1" => unused_uselist = << >>

\* What get_unused_uselist adds for module j.
LEMMA UnpointedListed ==
  ASSUME NEW inp \in Seq(Sources), NEW j \in 1 .. Len(inp),
         NEW m, m.id = j, m.uses = inp[j].uses, m.text = inp[j].text
  PROVE  /\ get_unused_uselist(m) \in Seq(Unused)
         /\ Pairs(get_unused_uselist(m)) = Unpointed(inp, j)
<1> DEFINE u == get_unused_uselist(m)
           n == Len(m.uses)
<1>1. /\ inp[j] \in Sources /\ j \in Nat /\ m.uses \in Seq(Int)
      /\ n \in Nat /\ DOMAIN m.uses = 1 .. n
  <2>1. inp[j] \in Sources /\ j \in Nat
    OBVIOUS
  <2> QED
    BY <2>1, TextOf
<1>2. u \in Seq(Unused) /\ Range(u) = {Entry(m, l) : l \in Taken(m, n)}
  BY <1>1, UnusedListed DEF Unused
<1> HIDE DEF u
<1>3. Pairs(u) = {<<j, m.uses[l]>> : l \in Taken(m, n)}
  <2>1. \A l : Entry(m, l).module_id = j /\ Entry(m, l).sym = m.uses[l]
    BY DEF Entry
  <2> QED
    BY <1>2, <2>1 DEF Pairs
<1>4. Taken(m, n) = {k \in 1 .. n : \A i \in DOMAIN m.text :
                       LET ins == m.text[i]
                       IN  ~(ins.addr = "E" /\ ins.val < 10000 /\ ins.val % 1000 = k - 1)}
  <2>1. ASSUME NEW k \in 1 .. n
        PROVE  k - 1 \in Unreached(m) <=>
                 \A i \in DOMAIN m.text :
                       LET ins == m.text[i]
                       IN  ~(ins.addr = "E" /\ ins.val < 10000 /\ ins.val % 1000 = k - 1)
    <3>1. k - 1 \in 0 .. Len(m.uses) - 1
      BY <1>1
    <3> QED
      BY <3>1 DEF Unreached, UsesReached
  <2> QED
    BY <2>1 DEF Taken
<1> QED
  BY <1>1, <1>2, <1>3, <1>4 DEF Unpointed, u

LEMMA ReportedLink ==
  ASSUME Placed, Reported, LinkModule
  PROVE  Reported'
<1> DEFINE more == get_unused_uselist(Current)
<1>1. /\ phase = "pass2" /\ next <= Len(input) /\ next' = next + 1
      /\ unused_uselist' = unused_uselist \o more
      /\ UNCHANGED <<phase, input>>
  BY DEF LinkModule, Link
<1>2. /\ next \in 1 .. Len(input) /\ input \in Seq(Sources)
      /\ Current.id = next
      /\ Current.uses = input[next].uses /\ Current.text = input[next].text
  BY <1>1, CurrentIsModule DEF Placed
<1>3. more \in Seq(Unused) /\ Pairs(more) = Unpointed(input, next)
  BY <1>2, UnpointedListed
<1> HIDE DEF more
<1>4. unused_uselist \in Seq(Unused)
  BY DEF Reported
<1>5. /\ unused_uselist' \in Seq(Unused)
      /\ Range(unused_uselist') = Range(unused_uselist) \cup Range(more)
  BY <1>1, <1>3, <1>4, ConcatProperties, RangeConcatenation
<1>6. Pairs(unused_uselist') = Pairs(unused_uselist) \cup Pairs(more)
  BY <1>5 DEF Pairs
<1> DEFINE A == 1 .. next - 1
           B == 1 .. next' - 1
<1>7. B = A \cup {next}
  BY <1>1, <1>2
<1> HIDE DEF A, B
<1>8. UNION {Unpointed(input', j) : j \in B}
        = (UNION {Unpointed(input, j) : j \in A}) \cup Unpointed(input, next)
  <2>1. input' = input
    BY <1>1
  <2>2. UNION {Unpointed(input, j) : j \in B}
          = (UNION {Unpointed(input, j) : j \in A}) \cup Unpointed(input, next)
    BY <1>7
  <2> QED
    BY <2>1, <2>2
<1>9. Pairs(unused_uselist') = UNION {Unpointed(input', j) : j \in B}
  <2>1. Pairs(unused_uselist) = UNION {Unpointed(input, j) : j \in A}
    BY DEF Reported, A
  <2> QED
    BY <1>3, <1>6, <1>8, <2>1
<1> QED
  BY <1>1, <1>5, <1>9 DEF Reported, B

LEMMA ReportedStep ==
  ASSUME Placed, Reported, [Next]_vars
  PROVE  Reported'
<1>1. CASE LinkModule
  BY <1>1, ReportedLink
<1>2. ASSUME NEW src \in Sources, ReadModule(src) PROVE Reported'
  <2>1. /\ phase = "pass1" /\ next = 1 /\ unused_uselist = << >>
        /\ UNCHANGED <<phase, next, unused_uselist>>
    BY <1>2 DEF ReadModule, Placed, Reported
  <2>2. UNION {Unpointed(input, j) : j \in 1 .. next - 1} = {}
    BY <2>1
  <2>3. UNION {Unpointed(input', j) : j \in 1 .. next - 1} = {}
    BY <2>1
  <2> QED
    BY <2>1, <2>2, <2>3 DEF Reported
<1>3. ASSUME NEW src \in Sources, TooManyInstructions(src) PROVE Reported'
  BY <1>3 DEF TooManyInstructions, Reported
<1>4. CASE EndPass1 \/ EndPass2 \/ SyntaxError
  BY <1>4 DEF EndPass1, EndPass2, SyntaxError, Reported
<1>5. CASE Exited \/ UNCHANGED vars
  BY <1>5 DEF Exited, vars, Reported
<1> QED
  BY <1>1, <1>2, <1>3, <1>4, <1>5 DEF Next, AfterPass1

(* For every input and in both modes: the entries reported unused are      *)
(* those that no external instruction of their own module points at.       *)
THEOREM UsesAlwaysAccounted == Spec => []UsesAccounted
<1>1. Init => Reported
  <2> SUFFICES ASSUME Init PROVE Reported
    OBVIOUS
  <2>1. unused_uselist = << >> /\ next = 1
    BY DEF Init
  <2>2. << >> \in Seq(Unused) /\ Range(<< >>) = {}
    BY EmptySeq DEF Range
  <2>3. UNION {Unpointed(input, j) : j \in 1 .. next - 1} = {}
    BY <2>1
  <2> QED
    BY <2>1, <2>2, <2>3 DEF Reported, Pairs
<1>2. Placed /\ Reported => UsesAccounted
  <2> SUFFICES ASSUME Placed, Reported, phase = "end"
               PROVE  Pairs(unused_uselist) = UNION {Unpointed(input, j) : j \in DOMAIN input}
    BY DEF UsesAccounted, Pairs, Unpointed
  <2>1. 1 .. next - 1 = DOMAIN input
    BY DEF Placed
  <2> QED
    BY <2>1 DEF Reported
<1>3. Placed /\ Reported /\ [Next]_vars => Reported'
  BY ReportedStep
<1> QED
  BY <1>1, <1>2, <1>3, AlwaysPlaced, PTL DEF Spec

-----------------------------------------------------------------------------
(* The binary search.  In a table in ascending order it finds a symbol iff *)
(* it is there, and it puts one that is larger than all behind them.  In   *)
(* any table, what it finds is the symbol and the place it names is inside. *)

Symbols == [sym : Int, offset : Nat, module_id : Nat,
            status : {"SINGLE_DEF", "MULTIPLE_DEFS", "UNUSED", "USED"}]

Rising(tab) == \A a, b \in 1 .. Len(tab) : a < b => tab[a].sym < tab[b].sym

Below(tab, sym) == \A a \in 1 .. Len(tab) : tab[a].sym < sym

\* The state of the loop after k turns over a table of n symbols.
Ranges == [start : Int, end : Int, index : Int, ret : {-1, 0, 1}, found : BOOLEAN]

Hits(tab, sym, s) == /\ s.index \in 0 .. Len(tab) - 1
                     /\ tab[s.index + 1].sym = sym
                     /\ s.ret = 0

Narrows(tab, s, k) ==
  /\ s.start >= 0 /\ s.end <= Len(tab) - 1 /\ s.start <= s.end + 1
  /\ s.start > s.end \/ s.end - s.start + 1 <= Len(tab) - k
  /\ IF k = 0 THEN s.start = 0 /\ s.end = Len(tab) - 1 /\ s.index = 0 /\ s.ret = 0
     ELSE s.index \in 0 .. Len(tab) - 1 /\ s.ret # 0

Excludes(tab, sym, s) ==
  /\ \A p \in 1 .. s.start : tab[p].sym < sym
  /\ \A p \in s.end + 2 .. Len(tab) : tab[p].sym > sym

Passes(tab, s, k) == /\ ~ s.found /\ s.end = Len(tab) - 1
                     /\ k # 0 => s.ret = 1 /\ s.start = s.index + 1

Searched(tab, sym, s, k) ==
  /\ s \in Ranges
  /\ s.found => Hits(tab, sym, s)
  /\ ~ s.found => Narrows(tab, s, k)
  /\ ~ s.found /\ Rising(tab) => Excludes(tab, sym, s)
  /\ Below(tab, sym) => Passes(tab, s, k)

LEMMA MiddleBetween ==
  ASSUME NEW a \in Int, NEW b \in Int, a <= b
  PROVE  (a + b) \div 2 \in Int /\ a <= (a + b) \div 2 /\ (a + b) \div 2 <= b
  OBVIOUS

LEMMA ProbeNarrows ==
  ASSUME NEW tab \in Seq(Symbols), NEW sym \in Int, NEW k \in 1 .. Len(tab),
         NEW s, Searched(tab, sym, s, k - 1)
  PROVE  Searched(tab, sym, Probe(tab, sym, s), k)
<1> DEFINE n == Len(tab)
           t == Probe(tab, sym, s)
<1>0. n \in Nat /\ s \in Ranges /\ k \in Nat /\ k # 0 /\ k <= n
  BY DEF Searched
<1>1. s.start \in Int /\ s.end \in Int /\ s.index \in Int /\ s.found \in BOOLEAN
  BY <1>0 DEF Ranges
<1>2. CASE s.found
  BY <1>0, <1>2 DEF Probe, Searched, Passes
<1>3. CASE ~ s.found /\ s.start > s.end
  <2>1. t = s
    BY <1>3 DEF Probe
  <2>2. Narrows(tab, s, k - 1)
    BY <1>3 DEF Searched
  <2>3. k - 1 # 0
    BY <1>0, <1>1, <1>3, <2>2 DEF Narrows
  <2>4. Narrows(tab, s, k) /\ (Below(tab, sym) => Passes(tab, s, k))
    BY <1>0, <1>1, <1>3, <2>2, <2>3 DEF Searched, Narrows, Passes
  <2> QED
    BY <1>3, <2>1, <2>4 DEF Searched
<1>4. CASE ~ s.found /\ ~ (s.start > s.end)
  <2> DEFINE mid == (s.start + s.end) \div 2
             x == tab[mid + 1].sym
             ret == Compare(sym, x)
  <2>1. mid \in Int /\ s.start <= mid /\ mid <= s.end
    BY <1>1, <1>4, MiddleBetween
  <2>2. t = [start |-> IF ret > 0 THEN mid + 1 ELSE s.start,
             end   |-> IF ret < 0 THEN mid - 1 ELSE s.end,
             index |-> mid, ret |-> ret, found |-> ret = 0]
    BY <1>4 DEF Probe
  <2>3. Narrows(tab, s, k - 1)
    BY <1>4 DEF Searched
  <2> HIDE DEF mid, t
  <2>4. s.start >= 0 /\ s.end <= n - 1 /\ s.end - s.start + 1 <= n - (k - 1)
    BY <1>4, <2>3 DEF Narrows
  <2>5. mid + 1 \in 1 .. n /\ mid \in 0 .. n - 1
    BY <1>0, <1>1, <2>1, <2>4
  <2>6. x \in Int
    <3>1. tab[mid + 1] \in Symbols
      BY <2>5
    <3> QED
      BY <3>1 DEF Symbols
  <2>7. Rising(tab) => /\ \A p \in 1 .. mid : tab[p].sym < x
                       /\ \A p \in mid + 2 .. n : x < tab[p].sym
    <3>1. \A p \in 1 .. mid : p \in 1 .. n /\ p < mid + 1
      BY <1>0, <2>1, <2>5
    <3>2. \A p \in mid + 2 .. n : p \in 1 .. n /\ mid + 1 < p
      BY <1>0, <2>1, <2>5
    <3> QED
      BY <2>5, <3>1, <3>2 DEF Rising
  <2>8. Below(tab, sym) => x < sym
    BY <2>5 DEF Below
  <2> HIDE DEF x
  <2>9. \A p \in 1 .. n : tab[p].sym \in Int
    <3>1. \A p \in 1 .. n : tab[p] \in Symbols
      OBVIOUS
    <3> QED
      BY <3>1 DEF Symbols
  <2> HIDE DEF ret
  <2>10. CASE sym = x
    <3>0. ret = 0
      BY <2>6, <2>10 DEF Compare, ret
    <3>1. t = [start |-> s.start, end |-> s.end, index |-> mid, ret |-> 0, found |-> TRUE]
      <4>1. (ret = 0) = TRUE /\ (ret > 0) = FALSE /\ (ret < 0) = FALSE
        BY <3>0
      <4> QED
        BY <2>2, <3>0, <4>1, Zenon
    <3>2. /\ t \in Ranges /\ t.found /\ t.index = mid /\ t.ret = 0
      BY <1>1, <2>1, <3>1 DEF Ranges
    <3>3. Hits(tab, sym, t)
      BY <2>5, <2>10, <3>2 DEF Hits, x
    <3>4. ~ Below(tab, sym)
      BY <2>6, <2>8, <2>10
    <3> QED
      BY <3>2, <3>3, <3>4 DEF Searched, t
  <2>11. CASE sym > x
    <3>0. ret = 1
      BY <2>6, <2>11 DEF Compare, ret
    <3>1. t = [start |-> mid + 1, end |-> s.end, index |-> mid, ret |-> 1, found |-> FALSE]
      <4>1. (ret = 0) = FALSE /\ (ret > 0) = TRUE /\ (ret < 0) = FALSE
        BY <3>0
      <4> QED
        BY <2>2, <3>0, <4>1, Zenon
    <3>2. /\ t \in Ranges /\ ~ t.found /\ t.index = mid /\ t.ret = 1
          /\ t.start = mid + 1 /\ t.end = s.end
      BY <1>1, <2>1, <3>1 DEF Ranges
    <3>3. Narrows(tab, t, k)
      BY <1>0, <1>1, <2>1, <2>4, <2>5, <3>2 DEF Narrows
    <3>4. Rising(tab) => Excludes(tab, sym, t)
      <4> SUFFICES ASSUME Rising(tab) PROVE Excludes(tab, sym, t)
        OBVIOUS
      <4>1. ASSUME NEW p \in 1 .. mid + 1 PROVE tab[p].sym < sym
        <5>1. p \in 1 .. n /\ (p = mid + 1 \/ p \in 1 .. mid)
          BY <1>0, <2>1, <2>5
        <5>2. tab[p].sym = x \/ tab[p].sym < x
          BY <2>7, <5>1 DEF x
        <5> QED
          BY <2>6, <2>9, <2>11, <5>1, <5>2
      <4>2. \A p \in s.end + 2 .. n : tab[p].sym > sym
        BY <1>4 DEF Searched, Excludes
      <4> QED
        BY <3>2, <4>1, <4>2 DEF Excludes
    <3>5. Below(tab, sym) => Passes(tab, t, k)
      BY <1>0, <3>2 DEF Searched, Passes
    <3> QED
      BY <3>2, <3>3, <3>4, <3>5 DEF Searched, t
  <2>12. CASE sym < x
    <3>0. ret = -1
      BY <2>6, <2>12 DEF Compare, ret
    <3>1. t = [start |-> s.start, end |-> mid - 1, index |-> mid, ret |-> -1, found |-> FALSE]
      <4>1. (ret = 0) = FALSE /\ (ret > 0) = FALSE /\ (ret < 0) = TRUE
        BY <3>0
      <4> QED
        BY <2>2, <3>0, <4>1, Zenon
    <3>2. /\ t \in Ranges /\ ~ t.found /\ t.index = mid /\ t.ret = -1
          /\ t.start = s.start /\ t.end = mid - 1
      BY <1>1, <2>1, <3>1 DEF Ranges
    <3>3. Narrows(tab, t, k)
      <4>1. /\ s.start <= (mid - 1) + 1 /\ mid - 1 <= n - 1
            /\ (mid - 1) - s.start + 1 <= n - k
        <5> DEFINE a == s.start
                   b == s.end
        <5>1. /\ a \in Int /\ b \in Int /\ a <= mid /\ mid <= b /\ b <= n - 1
              /\ b - a + 1 <= n - (k - 1)
          BY <1>1, <2>1, <2>4
        <5> HIDE DEF a, b, n
        <5>2. a <= (mid - 1) + 1 /\ mid - 1 <= n - 1 /\ (mid - 1) - a + 1 <= n - k
          BY <1>0, <2>1, <5>1
        <5> QED
          BY <5>2 DEF a
      <4>2. t.ret # 0
        BY <3>2
      <4> QED
        BY <1>0, <2>4, <2>5, <3>2, <4>1, <4>2 DEF Narrows
    <3>4. Rising(tab) => Excludes(tab, sym, t)
      <4> SUFFICES ASSUME Rising(tab) PROVE Excludes(tab, sym, t)
        OBVIOUS
      <4>1. ASSUME NEW p \in mid + 1 .. n PROVE tab[p].sym > sym
        <5>1. p \in 1 .. n /\ (p = mid + 1 \/ p \in mid + 2 .. n)
          BY <1>0, <2>1, <2>5
        <5>2. tab[p].sym = x \/ x < tab[p].sym
          BY <2>7, <5>1 DEF x
        <5> QED
          BY <2>6, <2>9, <2>12, <5>1, <5>2
      <4>2. \A p \in 1 .. s.start : tab[p].sym < sym
        BY <1>4 DEF Searched, Excludes
      <4>3. t.end + 2 = mid + 1
        BY <2>1, <3>2
      <4> QED
        BY <3>2, <4>1, <4>2, <4>3 DEF Excludes
    <3>5. ~ Below(tab, sym)
      BY <2>6, <2>8, <2>12
    <3> QED
      BY <3>2, <3>3, <3>4, <3>5 DEF Searched, t
  <2> QED
    BY <2>6, <2>10, <2>11, <2>12 DEF t
<1> QED
  BY <1>1, <1>2, <1>3, <1>4

\* The turns of the loop, one after the other.
LEMMA SearchOver ==
  ASSUME NEW tab \in Seq(Symbols), NEW sym \in Int
  PROVE  \E s : /\ Searched(tab, sym, s, Len(tab))
                /\ symbol_index(tab, sym) =
                     [found |-> s.found,
                      index |-> IF s.ret = 0 THEN s.index ELSE AfterMiss(s.index, s.ret)]
<1> DEFINE n == Len(tab)
           start == [start |-> 0, end |-> n - 1, index |-> 0, ret |-> 0, found |-> FALSE]
           Good(s, k) == Searched(tab, sym, s, k)
           Turn(s) == Probe(tab, sym, s)
           H(g) == [k \in 0 .. n |-> IF k = 0 THEN start ELSE Turn(g[k - 1])]
           search == CHOOSE g : g = H(g)
<1>1. n \in Nat
  OBVIOUS
<1>2. \A k \in 1 .. n : \A s : Good(s, k - 1) => Good(Turn(s), k)
  BY ProbeNarrows
<1>3. Good(start, 0)
  BY <1>1 DEF Searched, Ranges, Narrows, Excludes, Passes
<1>4. \A k \in 0 .. n : \A s : Good(s, k) => s \in Ranges
  BY DEF Searched
<1>5. symbol_index(tab, sym) =
        [found |-> search[n].found,
         index |-> IF search[n].ret = 0 THEN search[n].index
                   ELSE AfterMiss(search[n].index, search[n].ret)]
  BY DEF symbol_index
<1> HIDE DEF Good, Turn, start, n
<1>6. \E g : g = H(g)
  <2> DEFINE T == [k \in 0 .. n |-> {s \in Ranges : Good(s, k)}]
             f == [k \in 1 .. n |-> [s \in Ranges |-> Turn(s)]]
  <2>1. \A k \in 1 .. n : k - 1 \in 0 .. n /\ k \in 0 .. n
    BY <1>1
  <2>2. start \in T[0]
    BY <1>1, <1>3, <1>4
  <2>3. ASSUME NEW k \in 1 .. n, NEW x \in T[k - 1]
        PROVE  f[k][x] = Turn(x) /\ f[k][x] \in T[k]
    BY <1>2, <1>4, <2>1
  <2> HIDE DEF f, T
  <2>4. PICK g : Rounds(g, n, start, f) /\ \A k \in 0 .. n : g[k] \in T[k]
    BY <1>1, <2>2, <2>3, Iterates
  <2>5. \A k \in 0 .. n : (IF k = 0 THEN start ELSE f[k][g[k - 1]]) =
                           (IF k = 0 THEN start ELSE Turn(g[k - 1]))
    <3>1. \A k \in 0 .. n : k = 0 \/ k \in 1 .. n
      BY <1>1
    <3> QED
      BY <2>1, <2>3, <2>4, <3>1
  <2>6. [k \in 0 .. n |-> IF k = 0 THEN start ELSE f[k][g[k - 1]]] = H(g)
    BY <2>5
  <2> QED
    BY <2>4, <2>6 DEF Rounds
<1>7. search = H(search)
  BY <1>6
<1> HIDE DEF search
<1>8. /\ search[0] = start
      /\ \A k \in 1 .. n : search[k] = Turn(search[k - 1])
  <2>1. 0 \in 0 .. n /\ \A k \in 1 .. n : k \in 0 .. n /\ k # 0
    BY <1>1
  <2>2. \A k \in 0 .. n : search[k] = H(search)[k]
    BY <1>7
  <2> QED
    BY <2>1, <2>2
<1>9. {k \in 0 .. n : ~ Good(search[k], k)} = {}
  <2> DEFINE Bad == {k \in 0 .. n : ~ Good(search[k], k)}
  <2> SUFFICES ASSUME Bad # {} PROVE FALSE
    OBVIOUS
  <2>1. PICK k \in Bad : \A l \in Bad : k <= l
    <3>1. Bad \in SUBSET Nat
      BY <1>1
    <3> HIDE DEF Bad
    <3> QED
      BY <3>1, LeastNatural
  <2>2. k \in 1 .. n /\ k - 1 \in 0 .. n /\ k - 1 < k /\ k \in Nat
    BY <1>1, <1>3, <1>8
  <2>3. k - 1 \notin Bad
    <3> HIDE DEF Bad
    <3> QED
      BY <2>1, <2>2
  <2> QED
    BY <1>2, <1>8, <2>1, <2>2, <2>3
<1>10. n \in 0 .. n
  BY <1>1
<1> QED
  BY <1>5, <1>9, <1>10 DEF Good, n

LEMMA SearchFinds ==
  ASSUME NEW tab \in Seq(Symbols), NEW sym \in Int
  PROVE  LET at == symbol_index(tab, sym)
         IN  /\ at.found => at.index \in 0 .. Len(tab) - 1 /\ tab[at.index + 1].sym = sym
             /\ ~ at.found => at.index \in 0 .. Len(tab)
             /\ Rising(tab) => (at.found <=> \E a \in 1 .. Len(tab) : tab[a].sym = sym)
             /\ Below(tab, sym) => ~ at.found /\ at.index = Len(tab)
             /\ at.found \in BOOLEAN
<1> DEFINE at == symbol_index(tab, sym)
           n == Len(tab)
<1>1. PICK s : /\ Searched(tab, sym, s, n)
               /\ at = [found |-> s.found,
                        index |-> IF s.ret = 0 THEN s.index ELSE AfterMiss(s.index, s.ret)]
  BY SearchOver
<1>2. /\ at.found = s.found
      /\ at.index = IF s.ret = 0 THEN s.index ELSE AfterMiss(s.index, s.ret)
  BY <1>1
<1> HIDE DEF at
<1>3. n \in Nat /\ \A p \in 1 .. n : tab[p].sym \in Int
  <2>1. \A p \in 1 .. n : tab[p] \in Symbols
    OBVIOUS
  <2> QED
    BY <2>1 DEF Symbols
<1>4. /\ s.start \in Int /\ s.end \in Int /\ s.index \in Int /\ s.found \in BOOLEAN
      /\ s.ret \in {-1, 0, 1}
  BY <1>1 DEF Searched, Ranges
<1>5. CASE s.found
  <2>1. s.index \in 0 .. n - 1 /\ tab[s.index + 1].sym = sym /\ s.ret = 0
    BY <1>1, <1>5 DEF Searched, Hits
  <2>2. at.index = s.index /\ s.index + 1 \in 1 .. n
    BY <1>2, <1>3, <2>1
  <2>3. ~ Below(tab, sym)
    BY <2>1, <2>2 DEF Below
  <2> QED
    BY <1>2, <1>5, <2>1, <2>2, <2>3 DEF at
<1>6. CASE ~ s.found
  <2>1. Narrows(tab, s, n)
    BY <1>1, <1>6 DEF Searched
  <2>2. s.start = s.end + 1 /\ s.start >= 0 /\ s.end <= n - 1
    BY <1>3, <1>4, <2>1 DEF Narrows
  <2>3. at.index \in 0 .. n
    <3>1. CASE n = 0
      BY <1>2, <2>1, <3>1 DEF Narrows
    <3>2. CASE n # 0
      <4>1. s.index \in 0 .. n - 1 /\ s.ret # 0
        BY <2>1, <3>2 DEF Narrows
      <4>2. AfterMiss(s.index, s.ret) \in 0 .. n
        BY <1>3, <1>4, <4>1 DEF AfterMiss
      <4> QED
        BY <1>2, <4>1, <4>2
    <3> QED
      BY <3>1, <3>2
  <2>4. Rising(tab) => \A a \in 1 .. n : tab[a].sym # sym
    <3> SUFFICES ASSUME Rising(tab), NEW a \in 1 .. n PROVE tab[a].sym # sym
      OBVIOUS
    <3>1. Excludes(tab, sym, s)
      BY <1>1, <1>6 DEF Searched
    <3>2. a \in 1 .. s.start \/ a \in s.end + 2 .. n
      BY <1>3, <1>4, <2>2
    <3>3. tab[a].sym < sym \/ tab[a].sym > sym
      BY <3>1, <3>2 DEF Excludes
    <3> QED
      BY <1>3, <3>3
  <2>5. Below(tab, sym) => at.index = n
    <3> SUFFICES ASSUME Below(tab, sym) PROVE at.index = n
      OBVIOUS
    <3>1. s.end = n - 1 /\ (n # 0 => s.ret = 1 /\ s.start = s.index + 1)
      BY <1>1 DEF Searched, Passes
    <3>2. CASE n = 0
      BY <1>2, <2>1, <3>2 DEF Narrows
    <3>3. CASE n # 0
      <4>1. s.index = n - 1 /\ s.ret = 1
        BY <1>3, <1>4, <2>2, <3>1, <3>3
      <4>2. AfterMiss(s.index, s.ret) = n
        BY <1>3, <3>3, <4>1 DEF AfterMiss
      <4> QED
        BY <1>2, <4>1, <4>2
    <3> QED
      BY <3>2, <3>3
  <2> QED
    BY <1>2, <1>4, <1>6, <2>3, <2>4, <2>5 DEF at
<1> QED
  BY <1>4, <1>5, <1>6

-----------------------------------------------------------------------------
(* The symbol table.  Definitions are pairs of the number of a module and  *)
(* a place in its list, in the order of the input.                         *)

Defs(inp) == {d \in (DOMAIN inp) \X (1 .. MAX_DEFLIST_SIZE) : d[2] \in DOMAIN inp[d[1]].defs}

\* Those up to place k of module j.
DefsUpto(inp, j, k) == {d \in Defs(inp) : d[1] < j \/ (d[1] = j /\ d[2] <= k)}

SymAt(inp, d) == inp[d[1]].defs[d[2]].sym

AddressAt(inp, d) == BaseOf(inp, d[1]) + LocalOffset(inp[d[1]], inp[d[1]].defs[d[2]])

FirstIn(inp, D, d) ==
  \A e \in D : SymAt(inp, e) = SymAt(inp, d) => d = e \/ Earlier(d, e)

Again(inp, D, d) == \E e \in D : e # d /\ SymAt(inp, e) = SymAt(inp, d)

AscendingIn(inp, D) ==
  \A d, e \in D : SymAt(inp, d) < SymAt(inp, e) =>
    \E f \in D : SymAt(inp, f) = SymAt(inp, d) /\ Earlier(f, e)

Names(tab) == {tab[a].sym : a \in 1 .. Len(tab)}

\* The table of the definitions D when they ascend.
Gathered(tab, inp, D) ==
  /\ Rising(tab)
  /\ \A a \in 1 .. Len(tab) :
       \E d \in D : /\ FirstIn(inp, D, d)
                    /\ SymAt(inp, d) = tab[a].sym
                    /\ AddressAt(inp, d) = tab[a].offset
                    /\ tab[a].status = "MULTIPLE_DEFS" <=> Again(inp, D, d)

TableOf(tab, inp, D) ==
  /\ tab \in Seq(Symbols)
  /\ Names(tab) = {SymAt(inp, d) : d \in D}
  /\ AscendingIn(inp, D) => Gathered(tab, inp, D)

New(m, d) == [sym |-> d.sym, offset |-> m.base + LocalOffset(m, d),
              module_id |-> m.id, status |-> "SINGLE_DEF"]

\* What one turn of addto_symbol_table does to the table.
Added(tab, m, d, r) ==
  /\ r \in Seq(Symbols)
  /\ Names(r) = Names(tab) \cup {d.sym}
  /\ Rising(tab) /\ d.sym \in Names(tab) =>
       \E a \in 1 .. Len(tab) :
         /\ tab[a].sym = d.sym /\ Len(r) = Len(tab)
         /\ r[a] = [tab[a] EXCEPT !.status = "MULTIPLE_DEFS"]
         /\ \A b \in 1 .. Len(tab) : b # a => r[b] = tab[b]
  /\ Below(tab, d.sym) =>
       /\ Len(r) = Len(tab) + 1 /\ r[Len(tab) + 1] = New(m, d)
       /\ \A b \in 1 .. Len(tab) : r[b] = tab[b]

LEMMA SymbolAdded ==
  ASSUME NEW tab \in Seq(Symbols), NEW m, m.base \in Nat, m.id \in Nat, Len(m.text) \in Nat,
         NEW d \in [sym : Int, local_offset : Nat]
  PROVE  Added(tab, m, d, AddSymbol(tab, m, d))
<1> DEFINE r == AddSymbol(tab, m, d)
           n == Len(tab)
           at == symbol_index(tab, d.sym)
           p == at.index
<1>0. n \in Nat /\ \A a \in 1 .. n : tab[a] \in Symbols
  OBVIOUS
<1>1. d.sym \in Int /\ LocalOffset(m, d) \in Nat /\ New(m, d) \in Symbols
  <2>1. d.sym \in Int /\ d.local_offset \in Nat
    OBVIOUS
  <2>2. LocalOffset(m, d) \in Nat
    BY <2>1 DEF LocalOffset
  <2> QED
    BY <2>1, <2>2 DEF New, Symbols
<1>2. /\ at.found => p \in 0 .. n - 1 /\ tab[p + 1].sym = d.sym
      /\ ~ at.found => p \in 0 .. n
      /\ Rising(tab) => (at.found <=> \E a \in 1 .. n : tab[a].sym = d.sym)
      /\ Below(tab, d.sym) => ~ at.found /\ p = n
  BY <1>1, SearchFinds
<1>3. r = IF at.found THEN [tab EXCEPT ![p + 1].status = "MULTIPLE_DEFS"]
          ELSE InsertAt(tab, p + 1, New(m, d))
  BY DEF AddSymbol, New
<1> HIDE DEF at, r
<1>4. CASE at.found
  <2> DEFINE a == p + 1
             e == [tab[a] EXCEPT !.status = "MULTIPLE_DEFS"]
  <2>1. a \in 1 .. n /\ tab[a].sym = d.sym /\ tab[a] \in Symbols
    BY <1>0, <1>2, <1>4
  <2>2. e \in Symbols /\ e.sym = d.sym
    BY <2>1 DEF Symbols
  <2>3. r = [tab EXCEPT ![a] = e]
    BY <1>3, <1>4
  <2> HIDE DEF e, a
  <2>4. /\ r \in Seq(Symbols) /\ Len(r) = n
        /\ \A b \in 1 .. n : r[b] = IF b = a THEN e ELSE tab[b]
    BY <2>1, <2>2, <2>3, ExceptSeq
  <2>5. \A b \in 1 .. n : r[b].sym = tab[b].sym
    BY <2>1, <2>2, <2>4
  <2>6. Names(r) = Names(tab) /\ d.sym \in Names(tab)
    BY <2>1, <2>4, <2>5 DEF Names
  <2>7. ~ Below(tab, d.sym)
    BY <1>2, <1>4
  <2> QED
    BY <2>1, <2>4, <2>6, <2>7 DEF e, r, Added
<1>5. CASE ~ at.found
  <2>1. p \in 0 .. n /\ r = InsertAt(tab, p + 1, New(m, d))
    BY <1>2, <1>3, <1>5
  <2> DEFINE new == New(m, d)
  <2> HIDE DEF new, p
  <2>2. new \in Symbols /\ new.sym = d.sym
    BY <1>1 DEF new, New
  <2>3. /\ r \in Seq(Symbols) /\ Len(r) = n + 1
        /\ \A j \in 1 .. n + 1 :
             r[j] = IF j <= p THEN tab[j] ELSE IF j = p + 1 THEN new ELSE tab[j - 1]
    <3>1. tab \in Seq(Symbols) /\ p \in 0 .. Len(tab) /\ new \in Symbols
      BY <2>1, <2>2
    <3>2. r = InsertAt(tab, p + 1, new)
      BY <2>1 DEF new
    <3> DEFINE q == InsertAt(tab, p + 1, new)
    <3>3. /\ q \in Seq(Symbols) /\ Len(q) = Len(tab) + 1
          /\ \A j \in 1 .. Len(tab) + 1 :
               q[j] = IF j <= p THEN tab[j] ELSE IF j = p + 1 THEN new ELSE tab[j - 1]
      <4> HIDE DEF n
      <4> QED
        BY <3>1, InsertedAt, SMTT(30)
    <3> HIDE DEF q
    <3>4. r = q
      BY <3>2 DEF q
    <3> QED
      BY <3>3, <3>4
  <2>4. Names(r) = Names(tab) \cup {d.sym}
    <3>1. ASSUME NEW j \in 1 .. n + 1 PROVE r[j].sym \in Names(tab) \cup {d.sym}
      <4>1. CASE j <= p
        <5>1. j \in 1 .. n
          BY <1>0, <2>1, <4>1
        <5> QED
          BY <2>3, <4>1, <5>1 DEF Names
      <4>2. CASE j = p + 1
        BY <1>0, <2>1, <2>2, <2>3, <4>2
      <4>3. CASE j > p + 1
        <5>1. j - 1 \in 1 .. n /\ ~ (j <= p) /\ j # p + 1
          BY <1>0, <2>1, <4>3
        <5> QED
          BY <2>3, <5>1 DEF Names
      <4> QED
        BY <1>0, <2>1, <4>1, <4>2, <4>3
    <3>2. ASSUME NEW a \in 1 .. n PROVE \E j \in 1 .. n + 1 : r[j] = tab[a]
      <4>1. CASE a <= p
        <5>1. a \in 1 .. n + 1
          BY <1>0
        <5> QED
          BY <2>3, <4>1, <5>1
      <4>2. CASE ~ (a <= p)
        <5>1. a + 1 \in 1 .. n + 1 /\ ~ (a + 1 <= p) /\ a + 1 # p + 1 /\ (a + 1) - 1 = a
          BY <1>0, <2>1, <4>2
        <5> QED
          BY <2>3, <5>1
      <4> QED
        BY <4>1, <4>2
    <3>3. p + 1 \in 1 .. n + 1 /\ r[p + 1] = new
      BY <1>0, <2>1, <2>3
    <3>4. Names(r) \subseteq Names(tab) \cup {d.sym}
      BY <2>3, <3>1 DEF Names
    <3>5. d.sym \in Names(r)
      BY <2>2, <2>3, <3>3 DEF Names
    <3>6. Names(tab) \subseteq Names(r)
      BY <2>3, <3>2 DEF Names
    <3> QED
      BY <3>4, <3>5, <3>6
  <2>5. ~ (Rising(tab) /\ d.sym \in Names(tab))
    BY <1>2, <1>5 DEF Names
  <2>6. ASSUME Below(tab, d.sym)
        PROVE  r[n + 1] = new /\ \A b \in 1 .. n : r[b] = tab[b]
    <3>1. p = n
      BY <1>2, <2>6 DEF p
    <3>2. n + 1 \in 1 .. n + 1 /\ \A b \in 1 .. n : b \in 1 .. n + 1 /\ b <= n
      BY <1>0
    <3> QED
      BY <1>0, <2>3, <3>1, <3>2
  <2> QED
    BY <2>3, <2>4, <2>5, <2>6 DEF r, new, Added
<1> QED
  BY <1>4, <1>5

LEMMA EarlierIsStrict ==
  ASSUME NEW inp, NEW d \in Defs(inp), NEW e \in Defs(inp), DOMAIN inp \subseteq Nat
  PROVE  ~ (Earlier(d, e) /\ Earlier(e, d))
<1>1. d[1] \in Nat /\ d[2] \in Nat /\ e[1] \in Nat /\ e[2] \in Nat
  BY DEF Defs
<1> QED
  BY <1>1 DEF Earlier

LEMMA DefsFacts ==
  ASSUME NEW inp \in Seq(Sources), NEW d \in Defs(inp)
  PROVE  /\ d[1] \in 1 .. Len(inp) /\ inp[d[1]] \in Sources
         /\ d[2] \in 1 .. Len(inp[d[1]].defs) /\ d = <<d[1], d[2]>>
         /\ inp[d[1]].defs[d[2]] \in [sym : Int, local_offset : Nat]
         /\ SymAt(inp, d) \in Int
<1>1. d[1] \in 1 .. Len(inp) /\ inp[d[1]] \in Sources /\ d[2] \in DOMAIN inp[d[1]].defs
      /\ d = <<d[1], d[2]>>
  BY DEF Defs
<1>2. /\ inp[d[1]].defs \in Seq([sym : Int, local_offset : Nat])
      /\ DOMAIN inp[d[1]].defs = 1 .. Len(inp[d[1]].defs)
  BY <1>1, TextOf
<1> DEFINE q == inp[d[1]].defs
           R == [sym : Int, local_offset : Nat]
<1>3. q[d[2]] \in R
  <2>1. q \in Seq(R) /\ d[2] \in 1 .. Len(q)
    BY <1>1, <1>2
  <2> HIDE DEF q, R
  <2> QED
    BY <2>1
<1>4. inp[d[1]].defs[d[2]].sym \in Int
  BY <1>3
<1> QED
  BY <1>1, <1>2, <1>3, <1>4 DEF SymAt

\* A definition behind those of the table is added as it should be.
LEMMA TableStep ==
  ASSUME NEW inp \in Seq(Sources), NEW D \in SUBSET Defs(inp), NEW tab, TableOf(tab, inp, D),
         NEW x \in Defs(inp), \A d \in D : Earlier(d, x),
         NEW m, m.id \in Nat, m.base = BaseOf(inp, x[1]), m.text = inp[x[1]].text
  PROVE  TableOf(AddSymbol(tab, m, inp[x[1]].defs[x[2]]), inp, D \cup {x})
<1> DEFINE y == inp[x[1]].defs[x[2]]
           r == AddSymbol(tab, m, y)
           n == Len(tab)
           s == SymAt(inp, x)
           E == D \cup {x}
<1>0. /\ tab \in Seq(Symbols) /\ n \in Nat /\ \A a \in 1 .. n : tab[a] \in Symbols
      /\ y \in [sym : Int, local_offset : Nat] /\ y.sym = s /\ s \in Int
      /\ DOMAIN inp \subseteq Nat
  BY DefsFacts DEF TableOf, SymAt
<1>1. m.base \in Nat /\ Len(m.text) \in Nat
  <2>1. x[1] \in 1 .. Len(inp) + 1 /\ inp[x[1]] \in Sources
    BY DefsFacts
  <2> QED
    BY <2>1, BaseFacts, TextOf
<1>2. New(m, y).sym = s /\ New(m, y).status = "SINGLE_DEF"
      /\ New(m, y).offset = AddressAt(inp, x)
  BY <1>0 DEF New, AddressAt, LocalOffset
<1> HIDE DEF y, s
<1>3. Added(tab, m, y, r)
  <2>1. y \in [sym : Int, local_offset : Nat] /\ m.id \in Nat
    BY <1>0
  <2> QED
    BY <1>0, <1>1, <2>1, SymbolAdded
<1> HIDE DEF r
<1>4. x \notin D /\ \A d \in D : ~ Earlier(x, d)
  <2>1. \A d \in D : d \in Defs(inp)
    OBVIOUS
  <2>2. \A d \in D : ~ Earlier(x, d)
    BY <1>0, <2>1, EarlierIsStrict
  <2> QED
    BY <2>2
<1>5. Names(r) = {SymAt(inp, d) : d \in E}
  BY <1>0, <1>3 DEF TableOf, Added, s
<1>6. ASSUME AscendingIn(inp, E) PROVE Gathered(r, inp, E)
  <2>1. Gathered(tab, inp, D)
    <3>1. ASSUME NEW d \in D, NEW e \in D, SymAt(inp, d) < SymAt(inp, e)
          PROVE  \E f \in D : SymAt(inp, f) = SymAt(inp, d) /\ Earlier(f, e)
      <4>1. PICK f \in E : SymAt(inp, f) = SymAt(inp, d) /\ Earlier(f, e)
        BY <1>6, <3>1 DEF AscendingIn
      <4> QED
        BY <1>4, <4>1
    <3> QED
      BY <3>1 DEF TableOf, AscendingIn
  <2>2. Rising(tab) /\ \A b \in 1 .. n : tab[b].sym \in Int
    BY <1>0, <2>1 DEF Gathered, Symbols
  <2> DEFINE Fits(a, d, e) == /\ FirstIn(inp, e, d)
                              /\ SymAt(inp, d) = a.sym
                              /\ AddressAt(inp, d) = a.offset
                              /\ a.status = "MULTIPLE_DEFS" <=> Again(inp, e, d)
  <2>3. \A b \in 1 .. n : \E d \in D : Fits(tab[b], d, D)
    BY <2>1 DEF Gathered
  <2>4. ASSUME NEW b \in 1 .. n, tab[b].sym # s
        PROVE  \E d \in E : Fits(tab[b], d, E)
    <3>1. PICK d \in D : Fits(tab[b], d, D)
      BY <2>3
    <3>2. SymAt(inp, x) # SymAt(inp, d)
      BY <2>4, <3>1 DEF s
    <3>3. FirstIn(inp, E, d)
      BY <3>1, <3>2 DEF FirstIn
    <3>4. Again(inp, E, d) <=> Again(inp, D, d)
      BY <3>2 DEF Again
    <3> QED
      BY <3>1, <3>3, <3>4
  <2>5. CASE s \in Names(tab)
    <3>1. PICK a \in 1 .. n :
            /\ tab[a].sym = s /\ Len(r) = n
            /\ r[a] = [tab[a] EXCEPT !.status = "MULTIPLE_DEFS"]
            /\ \A b \in 1 .. n : b # a => r[b] = tab[b]
      BY <1>0, <1>3, <2>2, <2>5 DEF Added
    <3>2. r[a].sym = s /\ r[a].offset = tab[a].offset /\ r[a].status = "MULTIPLE_DEFS"
      BY <1>0, <3>1 DEF Symbols
    <3>3. \A b \in 1 .. n : r[b].sym = tab[b].sym
      BY <3>1, <3>2
    <3>4. Rising(r)
      BY <2>2, <3>1, <3>3 DEF Rising
    <3>5. \E d \in E : Fits(r[a], d, E)
      <4>1. PICK d \in D : Fits(tab[a], d, D)
        BY <2>3
      <4>2. SymAt(inp, d) = s /\ Earlier(d, x) /\ x # d /\ SymAt(inp, x) = s
        BY <1>4, <3>1, <4>1 DEF s
      <4>3. FirstIn(inp, E, d)
        BY <4>1, <4>2 DEF FirstIn
      <4>4. Again(inp, E, d)
        BY <4>2 DEF Again
      <4> QED
        BY <3>2, <4>1, <4>2, <4>3, <4>4
    <3>6. ASSUME NEW b \in 1 .. n, b # a PROVE \E d \in E : Fits(r[b], d, E)
      <4>1. tab[b].sym # s
        <5>1. a < b \/ b < a
          BY <1>0, <3>6
        <5>2. tab[a].sym < tab[b].sym \/ tab[b].sym < tab[a].sym
          BY <2>2, <5>1 DEF Rising
        <5> QED
          BY <2>2, <3>1, <5>2
      <4> HIDE DEF Fits
      <4> QED
        BY <2>4, <3>1, <3>6, <4>1
    <3>7. \A b \in 1 .. n : \E d \in E : Fits(r[b], d, E)
      <4> HIDE DEF Fits
      <4> QED
        BY <3>5, <3>6
    <3> QED
      BY <3>1, <3>4, <3>7 DEF Gathered
  <2>6. CASE s \notin Names(tab)
    <3>1. \A b \in 1 .. n : tab[b].sym # s
      BY <2>6 DEF Names
    <3>2. Below(tab, s)
      <4> SUFFICES ASSUME NEW a \in 1 .. n PROVE tab[a].sym < s
        BY DEF Below
      <4>1. PICK d \in D : SymAt(inp, d) = tab[a].sym
        BY <2>3
      <4>2. ASSUME s < tab[a].sym PROVE FALSE
        <5>1. PICK f \in E : SymAt(inp, f) = s /\ Earlier(f, d)
          <6>1. SymAt(inp, x) < SymAt(inp, d) /\ x \in E /\ d \in E
            BY <4>1, <4>2 DEF s
          <6> QED
            BY <1>6, <6>1 DEF AscendingIn, s
        <5>2. f # x
          BY <1>4, <5>1
        <5>3. s \in {SymAt(inp, e) : e \in D}
          BY <5>1, <5>2
        <5> QED
          BY <2>6, <5>3 DEF TableOf
      <4> QED
        BY <1>0, <2>2, <3>1, <4>2
    <3>3. /\ Len(r) = n + 1 /\ r[n + 1] = New(m, y)
          /\ \A b \in 1 .. n : r[b] = tab[b]
      BY <1>0, <1>3, <3>2 DEF Added
    <3>4. Rising(r)
      <4> SUFFICES ASSUME NEW a \in 1 .. n + 1, NEW b \in 1 .. n + 1, a < b
                   PROVE  r[a].sym < r[b].sym
        BY <3>3 DEF Rising
      <4>1. a \in 1 .. n /\ r[a] = tab[a]
        BY <1>0, <3>3
      <4>2. CASE b = n + 1
        BY <1>2, <3>2, <3>3, <4>1, <4>2 DEF Below
      <4>3. CASE b # n + 1
        <5>1. b \in 1 .. n
          BY <1>0, <4>3
        <5> QED
          BY <2>2, <3>3, <4>1, <5>1 DEF Rising
      <4> QED
        BY <4>2, <4>3
    <3>5. Fits(New(m, y), x, E)
      <4>1. \A e \in D : SymAt(inp, e) # s
        <5>1. s \notin {SymAt(inp, e) : e \in D}
          BY <2>6 DEF TableOf
        <5> QED
          BY <5>1
      <4>2. FirstIn(inp, E, x) /\ ~ Again(inp, E, x)
        BY <4>1 DEF FirstIn, Again, s
      <4> QED
        BY <1>2, <4>2 DEF s
    <3>6. ASSUME NEW b \in 1 .. n + 1 PROVE \E d \in E : Fits(r[b], d, E)
      <4>1. b = n + 1 \/ b \in 1 .. n
        BY <1>0
      <4> HIDE DEF Fits
      <4> QED
        BY <2>4, <3>1, <3>3, <3>5, <4>1
    <3> QED
      BY <3>3, <3>4, <3>6 DEF Gathered
  <2> QED
    BY <2>5, <2>6
<1> QED
  BY <1>3, <1>5, <1>6 DEF TableOf, Added, r, y
\* One definition more.
LEMMA NextDef ==
  ASSUME NEW inp \in Seq(Sources), NEW j \in 1 .. Len(inp), NEW k \in 1 .. Len(inp[j].defs)
  PROVE  /\ <<j, k>> \in Defs(inp)
         /\ DefsUpto(inp, j, k) = DefsUpto(inp, j, k - 1) \cup {<<j, k>>}
         /\ \A d \in DefsUpto(inp, j, k - 1) : Earlier(d, <<j, k>>)
<1>1. /\ inp[j] \in Sources /\ DOMAIN inp = 1 .. Len(inp) /\ Len(inp) \in Nat
      /\ DOMAIN inp[j].defs = 1 .. Len(inp[j].defs)
      /\ Len(inp[j].defs) \in 0 .. MAX_DEFLIST_SIZE
  <2>1. inp[j] \in Sources
    OBVIOUS
  <2> QED
    BY <2>1, TextOf
<1>2. j \in Nat /\ k \in Nat /\ k \in 1 .. MAX_DEFLIST_SIZE
  <2> DEFINE l == Len(inp[j].defs)
  <2>1. k \in 1 .. l /\ l \in 0 .. MAX_DEFLIST_SIZE /\ MAX_DEFLIST_SIZE \in Nat
    BY <1>1 DEF MAX_DEFLIST_SIZE
  <2> HIDE DEF l
  <2>2. j \in Nat
    OBVIOUS
  <2> QED
    BY <2>1, <2>2
<1>3. <<j, k>> \in Defs(inp)
  BY <1>1, <1>2 DEF Defs
<1>4. \A d \in Defs(inp) : d[1] \in Nat /\ d[2] \in Nat /\ d = <<d[1], d[2]>>
  BY <1>1 DEF Defs
<1>5. \A d \in Defs(inp) : (d[1] < j \/ (d[1] = j /\ d[2] <= k)) <=>
                             (d[1] < j \/ (d[1] = j /\ d[2] <= k - 1)) \/ d = <<j, k>>
  BY <1>2, <1>4
<1>6. DefsUpto(inp, j, k) = DefsUpto(inp, j, k - 1) \cup {<<j, k>>}
  BY <1>3, <1>5 DEF DefsUpto
<1>7. \A d \in DefsUpto(inp, j, k - 1) : Earlier(d, <<j, k>>)
  BY <1>2, <1>4 DEF DefsUpto, Earlier
<1> QED
  BY <1>3, <1>6, <1>7

\* addto_symbol_table adds the definitions of module j.
LEMMA ModuleAdded ==
  ASSUME NEW inp \in Seq(Sources), NEW j \in 1 .. Len(inp),
         NEW tab, TableOf(tab, inp, DefsUpto(inp, j, 0)),
         NEW m, m.id \in Nat, m.base = BaseOf(inp, j), m.text = inp[j].text,
         m.defs = inp[j].defs
  PROVE  TableOf(addto_symbol_table(tab, m), inp, DefsUpto(inp, j, Len(inp[j].defs)))
<1> DEFINE n == Len(m.defs)
           Q == Seq(Symbols)
           Good(t, k) == TableOf(t, inp, DefsUpto(inp, j, k))
           Turn(t, k) == AddSymbol(t, m, m.defs[k])
           H(g) == [k \in 0 .. n |-> IF k = 0 THEN tab ELSE Turn(g[k - 1], k)]
           table == CHOOSE g : g = H(g)
<1>1. n \in Nat /\ n = Len(inp[j].defs)
  <2>1. inp[j] \in Sources
    OBVIOUS
  <2> QED
    BY <2>1, TextOf
<1>2. ASSUME NEW k \in 1 .. n, NEW t, Good(t, k - 1)
      PROVE  Good(Turn(t, k), k)
  <2> DEFINE D == DefsUpto(inp, j, k - 1)
             x == <<j, k>>
  <2>1. k \in 1 .. Len(inp[j].defs)
    BY <1>1
  <2>2. x \in Defs(inp) /\ DefsUpto(inp, j, k) = D \cup {x} /\ \A d \in D : Earlier(d, x)
    BY <2>1, NextDef
  <2>3. D \in SUBSET Defs(inp) /\ x[1] = j /\ x[2] = k
    BY DEF DefsUpto
  <2>4. TableOf(t, inp, D) /\ m.base = BaseOf(inp, x[1]) /\ m.text = inp[x[1]].text
    BY <1>2, <2>3
  <2> HIDE DEF x, D
  <2>5. TableOf(AddSymbol(t, m, inp[x[1]].defs[x[2]]), inp, D \cup {x})
    BY <2>2, <2>3, <2>4, TableStep
  <2> QED
    BY <2>2, <2>3, <2>5
<1>3. Good(tab, 0)
  OBVIOUS
<1>4. \A k \in 0 .. n : \A t : Good(t, k) => t \in Q
  BY DEF TableOf
<1>5. table[n] = addto_symbol_table(tab, m)
  BY DEF addto_symbol_table
<1> HIDE DEF Good, Turn, Q, n
<1>6. \E g : g = H(g)
  <2> DEFINE T == [k \in 0 .. n |-> {t \in Q : Good(t, k)}]
             f == [k \in 1 .. n |-> [t \in Q |-> Turn(t, k)]]
  <2>1. \A k \in 1 .. n : k - 1 \in 0 .. n /\ k \in 0 .. n
    BY <1>1
  <2>2. tab \in T[0]
    BY <1>1, <1>3, <1>4
  <2>3. ASSUME NEW k \in 1 .. n, NEW x \in T[k - 1]
        PROVE  f[k][x] = Turn(x, k) /\ f[k][x] \in T[k]
    BY <1>2, <1>4, <2>1
  <2> HIDE DEF f, T
  <2>4. PICK g : Rounds(g, n, tab, f) /\ \A k \in 0 .. n : g[k] \in T[k]
    BY <1>1, <2>2, <2>3, Iterates
  <2>5. \A k \in 0 .. n : (IF k = 0 THEN tab ELSE f[k][g[k - 1]]) =
                           (IF k = 0 THEN tab ELSE Turn(g[k - 1], k))
    <3>1. \A k \in 0 .. n : k = 0 \/ k \in 1 .. n
      BY <1>1
    <3> QED
      BY <2>1, <2>3, <2>4, <3>1
  <2>6. [k \in 0 .. n |-> IF k = 0 THEN tab ELSE f[k][g[k - 1]]] = H(g)
    BY <2>5
  <2> QED
    BY <2>4, <2>6 DEF Rounds
<1>7. table = H(table)
  BY <1>6
<1> HIDE DEF table
<1>8. /\ table[0] = tab
      /\ \A k \in 1 .. n : table[k] = Turn(table[k - 1], k)
  <2>1. 0 \in 0 .. n /\ \A k \in 1 .. n : k \in 0 .. n /\ k # 0
    BY <1>1
  <2>2. \A k \in 0 .. n : table[k] = H(table)[k]
    BY <1>7
  <2> QED
    BY <2>1, <2>2
<1>9. {k \in 0 .. n : ~ Good(table[k], k)} = {}
  <2> DEFINE Bad == {k \in 0 .. n : ~ Good(table[k], k)}
  <2> SUFFICES ASSUME Bad # {} PROVE FALSE
    OBVIOUS
  <2>1. PICK k \in Bad : \A l \in Bad : k <= l
    <3>1. Bad \in SUBSET Nat
      BY <1>1
    <3> HIDE DEF Bad
    <3> QED
      BY <3>1, LeastNatural
  <2>2. k \in 1 .. n /\ k - 1 \in 0 .. n /\ k - 1 < k /\ k \in Nat
    BY <1>1, <1>3, <1>8
  <2>3. k - 1 \notin Bad
    <3> HIDE DEF Bad
    <3> QED
      BY <2>1, <2>2
  <2> QED
    BY <1>2, <1>8, <2>1, <2>2, <2>3
<1>10. n \in 0 .. n
  BY <1>1
<1> QED
  BY <1>1, <1>5, <1>9, <1>10 DEF Good

\* A module read later changes nothing for the definitions there are.
LEMMA DefsKept ==
  ASSUME NEW inp \in Seq(Sources), NEW src \in Sources
  PROVE  LET more == Append(inp, src)
             j == Len(inp) + 1
         IN  /\ DefsUpto(more, j, 0) = Defs(inp)
             /\ DefsUpto(more, j, Len(more[j].defs)) = Defs(more)
             /\ \A d \in Defs(inp) : /\ SymAt(more, d) = SymAt(inp, d)
                                     /\ AddressAt(more, d) = AddressAt(inp, d)
<1> DEFINE more == Append(inp, src)
           n == Len(inp)
           j == n + 1
<1>1. /\ more \in Seq(Sources) /\ Len(more) = j /\ n \in Nat
      /\ \A k \in 1 .. n : more[k] = inp[k]
      /\ more[j] = src
      /\ DOMAIN more = 1 .. j /\ DOMAIN inp = 1 .. n
  OBVIOUS
<1>2. \A k \in 1 .. j : BaseOf(more, k) = BaseOf(inp, k)
  BY BaseKept
<1> HIDE DEF more, n
<1>3. /\ DOMAIN more[j].defs = 1 .. Len(more[j].defs)
      /\ Len(more[j].defs) \in Nat
  BY <1>1, TextOf
<1>4. ASSUME NEW d \in Defs(inp)
      PROVE  /\ d \in Defs(more) /\ d[1] < j
             /\ SymAt(more, d) = SymAt(inp, d) /\ AddressAt(more, d) = AddressAt(inp, d)
  <2>1. d[1] \in 1 .. n /\ more[d[1]] = inp[d[1]]
    BY <1>1 DEF Defs
  <2>2. d[1] \in 1 .. j /\ d[1] < j
    BY <1>1, <2>1
  <2>3. d \in Defs(more)
    BY <1>1, <2>1, <2>2 DEF Defs
  <2> QED
    BY <1>2, <2>1, <2>2, <2>3 DEF SymAt, AddressAt
<1>5. ASSUME NEW d \in Defs(more), d[1] < j
      PROVE  d \in Defs(inp)
  <2>1. d[1] \in 1 .. n /\ more[d[1]] = inp[d[1]]
    BY <1>1, <1>5 DEF Defs
  <2> QED
    BY <1>1, <2>1 DEF Defs
<1>6. \A d \in Defs(more) : /\ d[1] \in 1 .. j /\ d[2] \in 1 .. MAX_DEFLIST_SIZE
                            /\ d[1] = j => d[2] \in 1 .. Len(more[j].defs)
  BY <1>1, <1>3 DEF Defs
<1>7. \A d \in Defs(more) : /\ ~ (d[1] = j /\ d[2] <= 0)
                            /\ d[1] < j \/ (d[1] = j /\ d[2] <= Len(more[j].defs))
  BY <1>1, <1>3, <1>6
<1>8. DefsUpto(more, j, 0) = Defs(inp)
  BY <1>4, <1>5, <1>7 DEF DefsUpto
<1>9. DefsUpto(more, j, Len(more[j].defs)) = Defs(more)
  BY <1>7 DEF DefsUpto
<1> QED
  BY <1>4, <1>8, <1>9 DEF more, n

LEMMA TableKept ==
  ASSUME NEW inp \in Seq(Sources), NEW src \in Sources,
         NEW tab, TableOf(tab, inp, Defs(inp))
  PROVE  TableOf(tab, Append(inp, src), Defs(inp))
<1> DEFINE more == Append(inp, src)
           D == Defs(inp)
<1>1. \A d \in D : SymAt(more, d) = SymAt(inp, d) /\ AddressAt(more, d) = AddressAt(inp, d)
  BY DefsKept
<1> HIDE DEF more
<1>2. \A d \in D : /\ FirstIn(more, D, d) <=> FirstIn(inp, D, d)
                   /\ Again(more, D, d) <=> Again(inp, D, d)
  BY <1>1 DEF FirstIn, Again
<1>3. AscendingIn(more, D) <=> AscendingIn(inp, D)
  BY <1>1 DEF AscendingIn
<1>4. {SymAt(more, d) : d \in D} = {SymAt(inp, d) : d \in D}
  BY <1>1
<1>5. Gathered(tab, inp, D) => Gathered(tab, more, D)
  BY <1>1, <1>2 DEF Gathered
<1> QED
  BY <1>3, <1>4, <1>5 DEF TableOf, more
-----------------------------------------------------------------------------
(* The symbol table through both passes.                                   *)

\* Every symbol has the address of its first definition.
Resolved(tab, inp) ==
  /\ Rising(tab)
  /\ \A a \in 1 .. Len(tab) :
       \E d \in Defs(inp) : /\ FirstIn(inp, Defs(inp), d)
                            /\ SymAt(inp, d) = tab[a].sym
                            /\ AddressAt(inp, d) = tab[a].offset

Multiples(list) == {list[k].sym : k \in {l \in DOMAIN list : list[l].multiple}}

Repeated(inp) == {SymAt(inp, d) : d \in {e \in Defs(inp) : Again(inp, Defs(inp), e)}}

\* The table has the symbols defined so far; if they were defined in ascending
\* order it is sorted, has each with its first value, and its marks are right.
Tabled ==
  /\ phase = "pass1" => TableOf(symtable, input, Defs(input))
  /\ phase \in {"pass2", "end"} =>
       /\ symtable \in Seq(Symbols)
       /\ Names(symtable) = {SymAt(input, d) : d \in Defs(input)}
       /\ AscendingIn(input, Defs(input)) =>
            Resolved(symtable, input) /\ Multiples(listing) = Repeated(input)

\* Only the marks of the symbols change.
SameButStatus(tab, t) ==
  /\ t \in Seq(Symbols) /\ Len(t) = Len(tab)
  /\ \A a \in 1 .. Len(tab) : t[a].sym = tab[a].sym /\ t[a].offset = tab[a].offset

LEMMA MarkingChangesNoSymbol ==
  ASSUME NEW inp, NEW tab \in Seq(Symbols), NEW t, SameButStatus(tab, t)
  PROVE  /\ t \in Seq(Symbols) /\ Names(t) = Names(tab)
         /\ Resolved(tab, inp) => Resolved(t, inp)
<1>1. Names(t) = Names(tab)
  BY DEF Names, SameButStatus
<1>2. Rising(tab) => Rising(t)
  BY DEF Rising, SameButStatus
<1> QED
  BY <1>1, <1>2 DEF Resolved, SameButStatus

OnlyMarks(tab, t) ==
  /\ t = [i \in DOMAIN tab |-> t[i]]
  /\ \A i \in 1 .. Len(tab) : \E st \in {"UNUSED", "USED", tab[i].status} :
       t[i] = [tab[i] EXCEPT !.status = st]

LEMMA StatusOnly ==
  ASSUME NEW tab \in Seq(Symbols), NEW t, OnlyMarks(tab, t)
  PROVE  SameButStatus(tab, t)
<1>1. Len(tab) \in Nat /\ DOMAIN tab = 1 .. Len(tab) /\ \A i \in 1 .. Len(tab) : tab[i] \in Symbols
  OBVIOUS
<1>2. ASSUME NEW i \in 1 .. Len(tab)
      PROVE  t[i] \in Symbols /\ t[i].sym = tab[i].sym /\ t[i].offset = tab[i].offset
  <2>1. PICK st \in {"UNUSED", "USED", tab[i].status} : t[i] = [tab[i] EXCEPT !.status = st]
    BY DEF OnlyMarks
  <2>2. tab[i] \in Symbols
    BY <1>1
  <2> QED
    BY <2>1, <2>2 DEF Symbols
<1>3. t \in [1 .. Len(tab) -> Symbols]
  BY <1>1, <1>2 DEF OnlyMarks
<1>4. t \in Seq(Symbols) /\ Len(t) = Len(tab)
  BY <1>1, <1>3
<1> QED
  BY <1>2, <1>4 DEF SameButStatus

\* What the listing of a gathered table marks.
LEMMA MultiplesListed ==
  ASSUME NEW inp, NEW tab, TableOf(tab, inp, Defs(inp)), AscendingIn(inp, Defs(inp)),
         NEW list, DOMAIN list = 1 .. Len(tab),
         \A a \in 1 .. Len(tab) : /\ list[a].sym = tab[a].sym
                                  /\ list[a].multiple = (tab[a].status = "MULTIPLE_DEFS")
  PROVE  Multiples(list) = Repeated(inp)
<1> DEFINE D == Defs(inp)
           n == Len(tab)
<1>1. \A a \in 1 .. n : \E d \in D :
         /\ FirstIn(inp, D, d) /\ SymAt(inp, d) = tab[a].sym
         /\ tab[a].status = "MULTIPLE_DEFS" <=> Again(inp, D, d)
  BY DEF TableOf, Gathered
<1>2. {tab[a].sym : a \in 1 .. n} = {SymAt(inp, d) : d \in D}
  BY DEF TableOf, Names
<1> HIDE DEF D, n
<1>3. ASSUME NEW a \in 1 .. n, list[a].multiple
      PROVE  list[a].sym \in Repeated(inp)
  <2>1. PICK d \in D : SymAt(inp, d) = tab[a].sym /\ Again(inp, D, d)
    <3>1. tab[a].status = "MULTIPLE_DEFS"
      BY <1>3 DEF n
    <3> QED
      BY <1>1, <3>1
  <2> QED
    BY <2>1 DEF Repeated, D, n
<1>4. ASSUME NEW e \in D, Again(inp, D, e)
      PROVE  SymAt(inp, e) \in Multiples(list)
  <2>1. PICK a \in 1 .. n : tab[a].sym = SymAt(inp, e)
    BY <1>2
  <2>2. PICK d \in D : /\ SymAt(inp, d) = tab[a].sym
                       /\ tab[a].status = "MULTIPLE_DEFS" <=> Again(inp, D, d)
    BY <1>1
  <2>3. Again(inp, D, d)
    BY <1>4, <2>1, <2>2 DEF Again
  <2>4. list[a].multiple /\ list[a].sym = SymAt(inp, e) /\ a \in DOMAIN list
    BY <2>1, <2>2, <2>3 DEF n
  <2> QED
    BY <2>4 DEF Multiples
<1>5. DOMAIN list = 1 .. n
  BY DEF n
<1>6. Multiples(list) \subseteq Repeated(inp)
  BY <1>3, <1>5 DEF Multiples
<1>7. Repeated(inp) \subseteq Multiples(list)
  BY <1>4 DEF Repeated, D
<1> QED
  BY <1>6, <1>7

LEMMA TabledInit == ASSUME Init PROVE Tabled
<1>1. input = << >> /\ symtable = << >> /\ phase = "pass1"
  BY DEF Init
<1>2. << >> \in Seq(Symbols) /\ Len(<< >>) = 0
  BY EmptySeq
<1>3. Defs(<< >>) = {}
  BY DEF Defs
<1>4. Names(<< >>) = {}
  BY <1>2 DEF Names
<1>5. Gathered(<< >>, << >>, {})
  BY <1>2 DEF Gathered, Rising
<1>6. TableOf(<< >>, << >>, {})
  BY <1>2, <1>4, <1>5 DEF TableOf
<1> QED
  BY <1>1, <1>3, <1>6 DEF Tabled

LEMMA TabledRead ==
  ASSUME Placed, Tabled, NEW src \in Sources, ReadModule(src)
  PROVE  Tabled'
<1> DEFINE n == Len(input)
           new == Append(input, src)
           j == n + 1
           m == Module(src, IF conserve_mem THEN "USELIST" ELSE "NONE")
<1>0. n \in Nat /\ input \in Seq(Sources)
  BY DEF Placed
<1>1. /\ new \in Seq(Sources) /\ Len(new) = j /\ j \in 1 .. j /\ new[j] = src
  BY <1>0, AppendProperties
<1>2. /\ phase = "pass1" /\ input' = new /\ phase' = phase
      /\ symtable' = addto_symbol_table(symtable, m)
  BY DEF ReadModule
<1>3. /\ DefsUpto(new, j, 0) = Defs(input)
      /\ DefsUpto(new, j, Len(new[j].defs)) = Defs(new)
  BY <1>0, DefsKept
<1>4. TableOf(symtable, new, Defs(input))
  BY <1>0, <1>2, TableKept DEF Tabled
<1>5. BaseOf(new, j) = BaseOf(input, j)
  BY <1>0, <1>1, BaseKept
<1>6. m.id \in Nat /\ m.base = BaseOf(new, j) /\ m.text = src.text /\ m.defs = src.defs
  <2>1. module_id = n /\ global_offset = BaseOf(input, j)
    BY <1>2 DEF Placed
  <2> QED
    BY <1>0, <1>5, <2>1 DEF Module
<1> HIDE DEF new, m, j
<1>7. TableOf(addto_symbol_table(symtable, m), new, DefsUpto(new, j, Len(new[j].defs)))
  BY <1>1, <1>3, <1>4, <1>6, ModuleAdded
<1> QED
  BY <1>2, <1>3, <1>7 DEF Tabled

LEMMA TabledEnd ==
  ASSUME Tabled, EndPass1
  PROVE  Tabled'
<1> DEFINE t == [i \in DOMAIN symtable |-> [symtable[i] EXCEPT !.status = "UNUSED"]]
           D == Defs(input)
<1>1. /\ phase = "pass1" /\ phase' = "pass2" /\ input' = input /\ symtable' = t
      /\ listing' = [i \in DOMAIN symtable |->
                       [sym |-> symtable[i].sym, offset |-> symtable[i].offset,
                        multiple |-> symtable[i].status = "MULTIPLE_DEFS"]]
  BY DEF EndPass1
<1>2. TableOf(symtable, input, D) /\ symtable \in Seq(Symbols)
      /\ DOMAIN symtable = 1 .. Len(symtable)
  BY <1>1 DEF Tabled, TableOf
<1>3. SameButStatus(symtable, t)
  <2>1. OnlyMarks(symtable, t)
    BY <1>2 DEF OnlyMarks
  <2> HIDE DEF t
  <2> QED
    BY <1>2, <2>1, StatusOnly
<1> HIDE DEF t
<1>4. /\ t \in Seq(Symbols) /\ Names(t) = Names(symtable)
      /\ Resolved(symtable, input) => Resolved(t, input)
  BY <1>2, <1>3, MarkingChangesNoSymbol
<1>5. AscendingIn(input, D) => Resolved(t, input) /\ Multiples(listing') = Repeated(input)
  <2> SUFFICES ASSUME AscendingIn(input, D)
               PROVE  Resolved(t, input) /\ Multiples(listing') = Repeated(input)
    OBVIOUS
  <2>1. Resolved(symtable, input)
    BY <1>2 DEF TableOf, Gathered, Resolved
  <2>2. Multiples(listing') = Repeated(input)
    BY <1>1, <1>2, MultiplesListed
  <2> QED
    BY <1>4, <2>1, <2>2
<1> QED
  BY <1>1, <1>2, <1>4, <1>5 DEF Tabled, TableOf

LEMMA TabledStep ==
  ASSUME Placed, Tabled, [Next]_vars
  PROVE  Tabled'
<1>1. ASSUME NEW src \in Sources, ReadModule(src) PROVE Tabled'
  BY <1>1, TabledRead
<1>2. ASSUME NEW src \in Sources, TooManyInstructions(src) PROVE Tabled'
  BY <1>2 DEF TooManyInstructions, Tabled
<1>3. CASE EndPass1
  BY <1>3, TabledEnd
<1>4. CASE LinkModule
  <2> DEFINE t == Marked(symtable, Current)
  <2>1. /\ phase = "pass2" /\ UNCHANGED <<phase, input, listing>>
        /\ symtable' = t
    BY <1>4 DEF LinkModule, Link
  <2>2. symtable \in Seq(Symbols) /\ DOMAIN symtable = 1 .. Len(symtable)
    BY <2>1 DEF Tabled
  <2>3. SameButStatus(symtable, t)
    <3>1. ASSUME NEW i \in 1 .. Len(symtable)
          PROVE  \E st \in {"UNUSED", "USED", symtable[i].status} :
                    t[i] = [symtable[i] EXCEPT !.status = st]
      <4>1. symtable[i] = [symtable[i] EXCEPT !.status = symtable[i].status]
        <5>1. symtable[i] \in Symbols
          BY <2>2
        <5> QED
          BY <5>1 DEF Symbols
      <4>2. t[i] = [symtable[i] EXCEPT !.status = "USED"] \/ t[i] = symtable[i]
        BY <2>2 DEF Marked
      <4> HIDE DEF t
      <4> QED
        BY <4>1, <4>2
    <3>2. t = [i \in DOMAIN symtable |-> t[i]]
      BY DEF Marked
    <3> HIDE DEF t
    <3> QED
      <4>1. OnlyMarks(symtable, t)
        BY <3>1, <3>2 DEF OnlyMarks
      <4> QED
        BY <2>2, <4>1, StatusOnly
  <2> HIDE DEF t
  <2>4. /\ t \in Seq(Symbols) /\ Names(t) = Names(symtable)
        /\ Resolved(symtable, input) => Resolved(t, input)
    BY <2>2, <2>3, MarkingChangesNoSymbol
  <2> QED
    BY <2>1, <2>4 DEF Tabled
<1>5. CASE EndPass2
  BY <1>5 DEF EndPass2, Tabled
<1>6. CASE SyntaxError
  BY <1>6 DEF SyntaxError, Tabled
<1>7. CASE Exited \/ UNCHANGED vars
  BY <1>7 DEF Exited, vars, Tabled
<1> QED
  BY <1>1, <1>2, <1>3, <1>4, <1>5, <1>6, <1>7 DEF Next, AfterPass1

LEMMA AlwaysTabled == Spec => []Tabled
  BY AlwaysPlaced, TabledInit, TabledStep, PTL DEF Spec

LEMMA DefinedAre ==
  ASSUME input \in Seq(Sources)
  PROVE  Defined = {SymAt(input, d) : d \in Defs(input)}
<1>1. ASSUME NEW j \in DOMAIN input
      PROVE  \A i \in DOMAIN input[j].defs : <<j, i>> \in Defs(input)
  <2>1. j \in 1 .. Len(input) /\ input[j] \in Sources
    OBVIOUS
  <2>2. DOMAIN input[j].defs \subseteq 1 .. MAX_DEFLIST_SIZE
    <3> DEFINE k == Len(input[j].defs)
    <3>1. k \in 0 .. MAX_DEFLIST_SIZE /\ DOMAIN input[j].defs = 1 .. k
      BY <2>1, TextOf
    <3> HIDE DEF k
    <3> QED
      BY <3>1 DEF MAX_DEFLIST_SIZE
  <2> QED
    BY <2>2 DEF Defs
<1>2. \A d \in Defs(input) : d[1] \in DOMAIN input /\ d[2] \in DOMAIN input[d[1]].defs
  BY DEF Defs
<1>3. Defined \subseteq {SymAt(input, d) : d \in Defs(input)}
  <2> SUFFICES ASSUME NEW j \in DOMAIN input, NEW i \in DOMAIN input[j].defs
               PROVE  \E d \in Defs(input) : input[j].defs[i].sym = SymAt(input, d)
    BY DEF Defined
  <2>1. <<j, i>> \in Defs(input) /\ SymAt(input, <<j, i>>) = input[j].defs[i].sym
    BY <1>1 DEF SymAt
  <2> QED
    BY <2>1
<1>4. {SymAt(input, d) : d \in Defs(input)} \subseteq Defined
  BY <1>2 DEF Defined, SymAt
<1> QED
  BY <1>3, <1>4

(* For every input, in whatever order it defines its symbols: the table    *)
(* names each symbol that some module defines, and none besides, from the  *)
(* first module read to the end.                                           *)
THEOREM NoSymbolEverLost == Spec => []NoSymbolLost
<1>1. ASSUME Placed, Tabled PROVE NoSymbolLost
  <2> SUFFICES ASSUME phase \in {"pass1", "pass2", "end"}
               PROVE  {symtable[i].sym : i \in DOMAIN symtable} = Defined
    BY DEF NoSymbolLost
  <2>1. symtable \in Seq(Symbols) /\ Names(symtable) = {SymAt(input, d) : d \in Defs(input)}
    BY <1>1 DEF Tabled, TableOf
  <2>2. Defined = {SymAt(input, d) : d \in Defs(input)}
    BY <1>1, DefinedAre DEF Placed
  <2>3. DOMAIN symtable = 1 .. Len(symtable)
    BY <2>1
  <2> QED
    BY <2>1, <2>2, <2>3 DEF Names
<1> QED
  BY <1>1, AlwaysPlaced, AlwaysTabled, PTL
-----------------------------------------------------------------------------
(* The memory map.                                                         *)

Outs == [word : Int, error : {"none", "immediate", "absolute", "relative", "external",
                              "undefined", "opcode"}]

Cells == [addr : Int, out : Outs]

\* Is a the value that symbol s has?
IsValue(inp, s, a) ==
  \/ \E d \in Defs(inp) : /\ FirstIn(inp, Defs(inp), d)
                          /\ SymAt(inp, d) = s /\ AddressAt(inp, d) = a
  \/ a = 0 /\ \A d \in Defs(inp) : SymAt(inp, d) # s

\* Is out the word that instruction i of module j should become?
Linked(inp, j, i, out) ==
  LET ins == inp[j].text[i]
  IN  ins.val < 10000 =>
        /\ ins.addr = "E" /\ ins.val % 1000 < Len(inp[j].uses) =>
             IsValue(inp, inp[j].uses[(ins.val % 1000) + 1], out.word - opcode(ins.val))
        /\ ins.addr = "R" /\ out.error = "none" =>
             (out.word - opcode(ins.val)) \in BaseOf(inp, j) .. BaseOf(inp, j) + Len(inp[j].text)

\* The words printed so far are those of the modules linked so far.
Mapped ==
  /\ memory \in Seq(Cells)
  /\ Len(memory) = BaseOf(input, next)
  /\ \A a \in 1 .. Len(memory) : memory[a].addr = a - 1
  /\ AscendingIn(input, Defs(input)) =>
       \A j \in 1 .. next - 1 : \A i \in 1 .. Len(input[j].text) :
         Linked(input, j, i, memory[BaseOf(input, j) + i].out)

\* The word of an external instruction with the value v.
ExternalWordIs(inp, tab, v, m, out) ==
  /\ out \in Outs
  /\ Resolved(tab, inp) /\ v % 1000 < Len(m.uses) =>
       IsValue(inp, m.uses[(v % 1000) + 1], out.word - opcode(v))

LEMMA ExternalIsLinked ==
  ASSUME NEW inp, NEW tab \in Seq(Symbols),
         Names(tab) = {SymAt(inp, d) : d \in Defs(inp)},
         NEW v \in Nat, NEW m, m.uses \in Seq(Int)
  PROVE  ExternalWordIs(inp, tab, v, m, print_external(v, m, tab))
<1> DEFINE out == print_external(v, m, tab)
           s == m.uses[(v % 1000) + 1]
           at == symbol_index(tab, s)
           o == opcode(v)
           k == v % 1000
           n == Len(tab)
<1>1. o \in Nat /\ k \in 0 .. 999 /\ v = o + k
  <2>1. o \in Nat
    BY DEF opcode
  <2>2. k \in 0 .. 999
    OBVIOUS
  <2>3. v = o + k
    BY DEF opcode
  <2> QED
    BY <2>1, <2>2, <2>3
<1>2. Len(m.uses) \in Nat /\ \A l \in 1 .. Len(m.uses) : m.uses[l] \in Int
  OBVIOUS
<1>3. \A a \in 1 .. n : tab[a] \in Symbols
  OBVIOUS
<1>4. out = IF k >= Len(m.uses) THEN [word |-> v, error |-> "external"]
            ELSE IF at.found THEN [word |-> o + tab[at.index + 1].offset, error |-> "none"]
            ELSE [word |-> o, error |-> "undefined"]
  BY DEF print_external
<1> HIDE DEF out, o, k, at
<1>5. CASE k >= Len(m.uses)
  BY <1>1, <1>2, <1>4, <1>5 DEF Outs, out, k, ExternalWordIs
<1>6. CASE ~ (k >= Len(m.uses))
  <2>1. s \in Int
    <3>1. k + 1 \in 1 .. Len(m.uses)
      BY <1>1, <1>2, <1>6
    <3> QED
      BY <1>2, <3>1 DEF k
  <2> HIDE DEF s
  <2>2. /\ at.found => at.index \in 0 .. n - 1 /\ tab[at.index + 1].sym = s
        /\ Rising(tab) => (at.found <=> \E a \in 1 .. n : tab[a].sym = s)
    BY <2>1, SearchFinds DEF at
  <2>3. CASE at.found
    <3> DEFINE a == at.index + 1
    <3>1. a \in 1 .. n /\ tab[a].sym = s
      BY <2>2, <2>3
    <3> HIDE DEF a
    <3>2. tab[a].offset \in Nat
      BY <1>3, <3>1 DEF Symbols
    <3>3. out = [word |-> o + tab[a].offset, error |-> "none"]
      BY <1>4, <1>6, <2>3 DEF a
    <3>4. out \in Outs /\ out.word - o = tab[a].offset
      BY <1>1, <3>2, <3>3 DEF Outs
    <3>5. ASSUME Resolved(tab, inp) PROVE IsValue(inp, s, tab[a].offset)
      BY <3>1, <3>5 DEF Resolved, IsValue
    <3> QED
      BY <3>4, <3>5 DEF out, o, s, ExternalWordIs
  <2>4. CASE ~ at.found
    <3>1. out = [word |-> o, error |-> "undefined"]
      BY <1>4, <1>6, <2>4
    <3>2. out \in Outs /\ out.word - o = 0
      BY <1>1, <3>1 DEF Outs
    <3>3. ASSUME Resolved(tab, inp) PROVE IsValue(inp, s, 0)
      <4>1. s \notin Names(tab)
        BY <2>2, <2>4, <3>3 DEF Resolved, Names
      <4> QED
        BY <4>1 DEF IsValue
    <3> QED
      BY <3>2, <3>3 DEF out, o, s, ExternalWordIs
  <2> QED
    BY <2>3, <2>4
<1> QED
  BY <1>5, <1>6

LEMMA PrintedIsLinked ==
  ASSUME NEW inp \in Seq(Sources), NEW j \in 1 .. Len(inp), NEW i \in 1 .. Len(inp[j].text),
         NEW tab \in Seq(Symbols), Names(tab) = {SymAt(inp, d) : d \in Defs(inp)},
         NEW m, m.base = BaseOf(inp, j), m.uses = inp[j].uses, m.text = inp[j].text
  PROVE  LET out == Printed(m.text[i], m, tab)
         IN  /\ out \in Outs
             /\ Resolved(tab, inp) => Linked(inp, j, i, out)
<1> DEFINE ins == m.text[i]
           out == Printed(ins, m, tab)
           v == ins.val
           n == Len(m.text)
           b == m.base
<1>1. /\ ins.addr \in {"I", "A", "R", "E"} /\ v \in Nat /\ n \in Nat /\ b \in Nat
      /\ m.uses \in Seq(Int)
  <2>1. inp[j] \in Sources /\ j \in 1 .. Len(inp) + 1
    OBVIOUS
  <2>2. m.text \in Seq([addr : {"I", "A", "R", "E"}, val : Nat]) /\ n \in Nat
        /\ m.uses \in Seq(Int) /\ i \in 1 .. Len(m.text)
    BY <2>1, TextOf
  <2>3. ins \in [addr : {"I", "A", "R", "E"}, val : Nat]
    <3> DEFINE q == m.text
               R == [addr : {"I", "A", "R", "E"}, val : Nat]
    <3>1. q \in Seq(R) /\ i \in 1 .. Len(q)
      BY <2>2
    <3> HIDE DEF q, R
    <3>2. q[i] \in R
      BY <3>1
    <3> QED
      BY <3>2 DEF q, R
  <2> QED
    BY <2>1, <2>2, <2>3, BaseFacts
<1>2. opcode(v) \in Nat /\ v % 1000 \in 0 .. 999 /\ v = opcode(v) + (v % 1000)
  <2> HIDE DEF v
  <2>1. opcode(v) \in Nat
    BY <1>1 DEF opcode
  <2>2. v % 1000 \in 0 .. 999
    BY <1>1
  <2>3. v = opcode(v) + (v % 1000)
    BY <1>1 DEF opcode
  <2> QED
    BY <2>1, <2>2, <2>3
<1>3. /\ Linked(inp, j, i, out) <=>
           (v < 10000 =>
              /\ ins.addr = "E" /\ v % 1000 < Len(m.uses) =>
                   IsValue(inp, m.uses[(v % 1000) + 1], out.word - opcode(v))
              /\ ins.addr = "R" /\ out.error = "none" =>
                   (out.word - opcode(v)) \in b .. b + n)
  BY DEF Linked
<1>4. CASE ins.addr = "I"
  <2>1. out = print_immediate(v)
    BY <1>4 DEF Printed
  <2> HIDE DEF ins, out
  <2>2. out \in Outs
    BY <1>1, <2>1 DEF print_immediate, Outs
  <2> QED
    BY <1>3, <1>4, <2>2 DEF out, ins
<1>5. CASE ins.addr # "I" /\ v >= 10000
  <2>1. out = [word |-> 9999, error |-> "opcode"]
    BY <1>5 DEF Printed
  <2> HIDE DEF ins, out
  <2>2. out \in Outs
    BY <2>1 DEF Outs
  <2> QED
    BY <1>1, <1>3, <1>5, <2>2 DEF out, ins
<1>6. CASE ins.addr = "A" /\ ~ (v >= 10000)
  <2>1. out = print_absolute(v)
    BY <1>6 DEF Printed
  <2> HIDE DEF ins, out
  <2>2. out \in Outs
    BY <1>1, <1>2, <2>1 DEF print_absolute, Outs
  <2> QED
    BY <1>3, <1>6, <2>2 DEF out, ins
<1>7. CASE ins.addr = "R" /\ ~ (v >= 10000)
  <2>1. out = print_relative(v, m)
    BY <1>7 DEF Printed
  <2> HIDE DEF ins, out
  <2>2. out = IF v % 1000 > n THEN [word |-> opcode(v) + b, error |-> "relative"]
              ELSE [word |-> v + b, error |-> "none"]
    BY <2>1 DEF print_relative
  <2> HIDE DEF v, b, n
  <2>3. out \in Outs
    BY <1>1, <1>2, <2>2 DEF Outs
  <2>4. out.error = "none" => (out.word - opcode(v)) \in b .. b + n
    <3>1. CASE v % 1000 > n
      BY <2>2, <3>1
    <3>2. CASE ~ (v % 1000 > n)
      <4>1. out.word = v + b
        BY <2>2, <3>2
      <4>2. (v + b) - opcode(v) = b + (v % 1000) /\ b + (v % 1000) \in b .. b + n
        <5> DEFINE q == opcode(v)
                   r == v % 1000
        <5>1. /\ q \in Nat /\ r \in Nat /\ v = q + r /\ b \in Nat /\ n \in Nat
              /\ ~ (r > n)
          BY <1>1, <1>2, <3>2
        <5> HIDE DEF q, r
        <5>2. (v + b) - q = b + r /\ b + r \in b .. b + n
          BY <5>1
        <5> QED
          BY <5>2 DEF q, r
      <4> QED
        BY <4>1, <4>2
    <3> QED
      BY <3>1, <3>2
  <2> QED
    BY <1>3, <1>7, <2>3, <2>4 DEF out, ins
<1>8. CASE ins.addr = "E" /\ ~ (v >= 10000)
  <2>1. out = print_external(v, m, tab)
    BY <1>8 DEF Printed
  <2>2. ExternalWordIs(inp, tab, v, m, print_external(v, m, tab))
    <3> HIDE DEF v
    <3> QED
      BY <1>1, ExternalIsLinked
  <2> HIDE DEF ins, out
  <2> QED
    BY <1>3, <1>8, <2>1, <2>2 DEF out, ins, ExternalWordIs
<1> QED
  BY <1>1, <1>4, <1>5, <1>6, <1>7, <1>8

LEMMA MappedInit == ASSUME Init PROVE Mapped
<1>1. memory = << >> /\ next = 1 /\ input = << >>
  BY DEF Init
<1>2. BaseOf(<< >>, 1) = 0
  <2>1. Words(<< >>, 1) = {}
    BY DEF Words
  <2> QED
    BY <2>1, FS_EmptySet DEF BaseOf
<1>3. << >> \in Seq(Cells) /\ Len(<< >>) = 0
  BY EmptySeq
<1> QED
  BY <1>1, <1>2, <1>3 DEF Mapped

\* What print_instructions prints for module j.
LEMMA ModulePrinted ==
  ASSUME NEW inp \in Seq(Sources), NEW j \in 1 .. Len(inp),
         NEW tab \in Seq(Symbols), Names(tab) = {SymAt(inp, d) : d \in Defs(inp)},
         NEW m, m.base = BaseOf(inp, j), m.uses = inp[j].uses, m.text = inp[j].text,
         NEW p, p = print_instructions(m, tab)
  PROVE  /\ p \in Seq(Cells) /\ Len(p) = Len(inp[j].text)
         /\ \A i \in 1 .. Len(p) :
              /\ p[i].addr = BaseOf(inp, j) + i - 1
              /\ Resolved(tab, inp) => Linked(inp, j, i, p[i].out)
<1> DEFINE n == Len(inp[j].text)
           b == BaseOf(inp, j)
<1>1. n \in Nat /\ DOMAIN m.text = 1 .. n /\ b \in Nat
  <2>1. inp[j] \in Sources /\ j \in 1 .. Len(inp) + 1
    OBVIOUS
  <2> QED
    BY <2>1, TextOf, BaseFacts
<1>2. p = [i \in 1 .. n |-> [addr |-> b + i - 1, out |-> Printed(m.text[i], m, tab)]]
  BY <1>1 DEF print_instructions
<1>3. ASSUME NEW i \in 1 .. n
      PROVE  /\ Printed(m.text[i], m, tab) \in Outs
             /\ Resolved(tab, inp) => Linked(inp, j, i, Printed(m.text[i], m, tab))
  BY PrintedIsLinked
<1> HIDE DEF b, n
<1>4. ASSUME NEW i \in 1 .. n
      PROVE  /\ p[i].addr = b + i - 1 /\ p[i].out = Printed(m.text[i], m, tab)
             /\ p[i] \in Cells
  BY <1>1, <1>2, <1>3 DEF Cells
<1>5. p \in [1 .. n -> Cells]
  BY <1>2, <1>4
<1>6. p \in Seq(Cells) /\ Len(p) = n
  BY <1>1, <1>5
<1> QED
  BY <1>3, <1>4, <1>6 DEF n, b

LEMMA MappedLink ==
  ASSUME Placed, Tabled, Mapped, LinkModule
  PROVE  Mapped'
<1> DEFINE m == Current
           j == next
           p == print_instructions(m, symtable)
           more == memory \o p
           b == BaseOf(input, j)
           n == Len(input[j].text)
<1>1. /\ phase = "pass2" /\ next <= Len(input) /\ next' = next + 1
      /\ input' = input /\ memory' = more
  BY DEF LinkModule, Link
<1>2. /\ j \in 1 .. Len(input) /\ input \in Seq(Sources) /\ input[j] \in Sources
      /\ m.base = b /\ m.uses = input[j].uses /\ m.text = input[j].text
  BY <1>1, CurrentIsModule DEF Placed
<1>3. /\ symtable \in Seq(Symbols)
      /\ Names(symtable) = {SymAt(input, d) : d \in Defs(input)}
      /\ AscendingIn(input, Defs(input)) => Resolved(symtable, input)
  BY <1>1 DEF Tabled
<1>4. b \in Nat /\ n \in Nat /\ BaseOf(input, j + 1) = b + n
  <2>1. j \in 1 .. Len(input) + 1
    BY <1>2
  <2> QED
    BY <1>2, <2>1, BaseFacts, TextOf
<1> HIDE DEF m, p, more
<1>5. /\ p \in Seq(Cells) /\ Len(p) = n
      /\ \A i \in 1 .. n :
           /\ p[i].addr = b + i - 1
           /\ Resolved(symtable, input) => Linked(input, j, i, p[i].out)
  <2>1. p = print_instructions(m, symtable)
    BY DEF p
  <2> QED
    BY <1>2, <1>3, <2>1, ModulePrinted
<1>6. memory \in Seq(Cells) /\ Len(memory) = b
  BY DEF Mapped
<1> HIDE DEF b, n
<1>7. /\ more \in Seq(Cells) /\ Len(more) = b + n
      /\ \A a \in 1 .. b + n : more[a] = IF a <= b THEN memory[a] ELSE p[a - b]
  BY <1>5, <1>6, ConcatProperties DEF more
<1>8. ASSUME NEW a \in 1 .. b + n PROVE more[a].addr = a - 1
  <2>1. CASE a <= b
    <3>1. a \in 1 .. Len(memory)
      BY <1>4, <1>6, <2>1
    <3> QED
      BY <1>7, <2>1, <3>1 DEF Mapped
  <2>2. CASE ~ (a <= b)
    <3>1. a - b \in 1 .. n /\ b + (a - b) - 1 = a - 1
      BY <1>4, <2>2
    <3>2. more[a] = p[a - b] /\ p[a - b].addr = b + (a - b) - 1
      BY <1>5, <1>7, <2>2, <3>1
    <3> QED
      BY <3>1, <3>2
  <2> QED
    BY <2>1, <2>2
<1>9. ASSUME AscendingIn(input, Defs(input)), NEW l \in 1 .. (j + 1) - 1,
             NEW i \in 1 .. Len(input[l].text)
      PROVE  Linked(input, l, i, more[BaseOf(input, l) + i].out)
  <2>1. CASE l = j
    <3>1. i \in 1 .. n /\ b + i \in 1 .. b + n /\ ~ (b + i <= b) /\ (b + i) - b = i
      BY <1>4, <2>1 DEF n
    <3>2. more[b + i] = p[i]
      BY <1>7, <3>1
    <3> QED
      BY <1>3, <1>5, <1>9, <2>1, <3>1, <3>2 DEF b
  <2>2. CASE l # j
    <3>1. l \in 1 .. j - 1 /\ j \in 1 .. Len(input) + 1
      BY <1>2, <2>2
    <3>2. l \in 1 .. Len(input) /\ BaseOf(input, l) + Len(input[l].text) <= b
      BY <1>2, <3>1, BaseRises DEF b
    <3>3. BaseOf(input, l) \in Nat /\ Len(input[l].text) \in Nat
      <4>1. l \in 1 .. Len(input) + 1 /\ input[l] \in Sources
        BY <1>2, <3>2
      <4> QED
        BY <1>2, <4>1, BaseFacts, TextOf
    <3>4. BaseOf(input, l) + i \in 1 .. b + n /\ BaseOf(input, l) + i <= b
      BY <1>4, <3>2, <3>3
    <3>5. more[BaseOf(input, l) + i] = memory[BaseOf(input, l) + i]
      BY <1>7, <3>4
    <3> QED
      BY <1>9, <3>1, <3>5 DEF Mapped
  <2> QED
    BY <2>1, <2>2
<1> QED
  BY <1>1, <1>4, <1>7, <1>8, <1>9 DEF Mapped

LEMMA MappedStep ==
  ASSUME Placed, Tabled, Mapped, [Next]_vars
  PROVE  Mapped'
<1>1. ASSUME NEW src \in Sources, ReadModule(src) PROVE Mapped'
  <2>1. /\ phase = "pass1" /\ input' = Append(input, src)
        /\ memory' = memory /\ next' = next
    BY <1>1 DEF ReadModule
  <2>2. next = 1 /\ input \in Seq(Sources) /\ input' \in Seq(Sources)
    BY <2>1, AppendProperties DEF Placed
  <2>3. BaseOf(input, 1) = 0 /\ BaseOf(input', 1) = 0
    BY <2>2, BaseFacts
  <2> QED
    BY <2>1, <2>2, <2>3 DEF Mapped
<1>2. ASSUME NEW src \in Sources, TooManyInstructions(src) PROVE Mapped'
  BY <1>2 DEF TooManyInstructions, Mapped
<1>3. CASE EndPass1
  BY <1>3 DEF EndPass1, Mapped
<1>4. CASE LinkModule
  BY <1>4, MappedLink
<1>5. CASE EndPass2
  BY <1>5 DEF EndPass2, Mapped
<1>6. CASE SyntaxError
  BY <1>6 DEF SyntaxError, Mapped
<1>7. CASE Exited \/ UNCHANGED vars
  BY <1>7 DEF Exited, vars, Mapped
<1> QED
  BY <1>1, <1>2, <1>3, <1>4, <1>5, <1>6, <1>7 DEF Next, AfterPass1

LEMMA AlwaysMapped == Spec => []Mapped
  BY AlwaysPlaced, AlwaysTabled, MappedInit, MappedStep, PTL DEF Spec

(* The first definition of a symbol.                                       *)
LEMMA FirstExists ==
  ASSUME input \in Seq(Sources), NEW s \in Defined
  PROVE  /\ First(s) \in Defs(input) /\ SymAt(input, First(s)) = s
         /\ FirstIn(input, Defs(input), First(s))
         /\ \A d \in Defs(input) :
              FirstIn(input, Defs(input), d) /\ SymAt(input, d) = s => d = First(s)
         /\ Definitions(s) = {d \in Defs(input) : SymAt(input, d) = s}
<1> DEFINE D == Definitions(s)
           J == {d[1] : d \in D}
<1>1. D = {d \in Defs(input) : SymAt(input, d) = s}
  BY DEF Definitions, Defs, SymAt
<1>2. D # {}
  BY <1>1, DefinedAre
<1>3. \A d \in D : d[1] \in Nat /\ d[2] \in Nat /\ d = <<d[1], d[2]>>
  <2>1. DOMAIN input \subseteq Nat
    OBVIOUS
  <2> QED
    BY <1>1, <2>1 DEF Defs
<1> HIDE DEF D
<1>4. PICK j \in J : \A k \in J : j <= k
  <2>1. J \in SUBSET Nat /\ J # {}
    BY <1>2, <1>3
  <2> HIDE DEF J
  <2> QED
    BY <2>1, LeastNatural
<1> DEFINE I == {d[2] : d \in {e \in D : e[1] = j}}
<1>5. PICK i \in I : \A k \in I : i <= k
  <2>1. I \in SUBSET Nat /\ I # {}
    BY <1>3, <1>4
  <2> HIDE DEF I
  <2> QED
    BY <2>1, LeastNatural
<1>6. PICK d \in D : d[1] = j /\ d[2] = i
  BY <1>5
<1>7. \A e \in D : d = e \/ Earlier(d, e)
  <2> SUFFICES ASSUME NEW e \in D PROVE d = e \/ Earlier(d, e)
    OBVIOUS
  <2>1. j <= e[1]
    BY <1>4
  <2>2. e[1] = j => i <= e[2]
    BY <1>5
  <2> QED
    BY <1>3, <1>6, <2>1, <2>2 DEF Earlier
<1>8. First(s) \in D /\ \A e \in D : First(s) = e \/ Earlier(First(s), e)
  <2>1. First(s) = CHOOSE f \in D : \A e \in D : f = e \/ Earlier(f, e)
    BY DEF First, D
  <2> QED
    BY <1>7, <2>1
<1>9. FirstIn(input, Defs(input), First(s))
  BY <1>1, <1>8 DEF FirstIn
<1>10. ASSUME NEW e \in Defs(input), FirstIn(input, Defs(input), e), SymAt(input, e) = s
       PROVE  e = First(s)
  <2>1. e \in D
    BY <1>1, <1>10
  <2>2. e = First(s) \/ (Earlier(e, First(s)) /\ Earlier(First(s), e))
    BY <1>1, <1>8, <1>10, <2>1 DEF FirstIn
  <2> QED
    BY <1>3, <1>8, <2>1, <2>2 DEF Earlier
<1> QED
  BY <1>1, <1>8, <1>9, <1>10 DEF D

LEMMA AscendingAre ==
  ASSUME input \in Seq(Sources), Ascending
  PROVE  AscendingIn(input, Defs(input))
<1> SUFFICES ASSUME NEW d \in Defs(input), NEW e \in Defs(input),
                    SymAt(input, d) < SymAt(input, e)
             PROVE  \E f \in Defs(input) : SymAt(input, f) = SymAt(input, d) /\ Earlier(f, e)
  BY DEF AscendingIn
<1> DEFINE s == SymAt(input, d)
           t == SymAt(input, e)
           f == First(s)
           g == First(t)
<1>1. s \in Defined /\ t \in Defined
  BY DefinedAre
<1>2. f \in Defs(input) /\ SymAt(input, f) = s
  BY <1>1, FirstExists
<1>3. g \in Defs(input) /\ (g = e \/ Earlier(g, e))
  <2>1. g \in Defs(input) /\ SymAt(input, g) = t /\ FirstIn(input, Defs(input), g)
    BY <1>1, FirstExists
  <2> QED
    BY <2>1 DEF FirstIn
<1>4. Earlier(f, g)
  BY <1>1 DEF Ascending
<1> HIDE DEF f, g
<1>5. \A x \in Defs(input) : x[1] \in Nat /\ x[2] \in Nat
  <2>1. DOMAIN input \subseteq Nat
    OBVIOUS
  <2> QED
    BY <2>1 DEF Defs
<1>6. Earlier(f, e)
  BY <1>2, <1>3, <1>4, <1>5 DEF Earlier
<1> QED
  BY <1>2, <1>6

LEMMA RepeatedAre ==
  ASSUME input \in Seq(Sources)
  PROVE  Repeated(input) = {s \in Defined : Cardinality(Definitions(s)) > 1}
<1> DEFINE D == Defs(input)
<1>1. IsFiniteSet(D)
  <2> DEFINE all == (1 .. Len(input)) \X (1 .. 16)
  <2>1. IsFiniteSet(1 .. Len(input)) /\ IsFiniteSet(1 .. 16)
    <3>1. Len(input) \in Int /\ 1 \in Int /\ 16 \in Int
      OBVIOUS
    <3> QED
      BY <3>1, FS_Interval
  <2>2. IsFiniteSet(all)
    BY <2>1, FS_Product
  <2>3. D \in SUBSET all
    BY DEF Defs, MAX_DEFLIST_SIZE
  <2> HIDE DEF all, D
  <2> QED
    BY <2>2, <2>3, FS_Subset
<1> HIDE DEF D
<1>2. ASSUME NEW s \in Defined
      PROVE  /\ Definitions(s) = {d \in D : SymAt(input, d) = s}
             /\ IsFiniteSet(Definitions(s))
  <2>1. Definitions(s) = {d \in D : SymAt(input, d) = s}
    BY FirstExists DEF D
  <2>2. Definitions(s) \in SUBSET D
    BY <2>1
  <2> QED
    BY <1>1, <2>1, <2>2, FS_Subset
<1>3. ASSUME NEW d \in D, Again(input, D, d)
      PROVE  SymAt(input, d) \in Defined /\ Cardinality(Definitions(SymAt(input, d))) > 1
  <2> DEFINE s == SymAt(input, d)
             S == Definitions(s)
  <2>1. s \in Defined
    BY DefinedAre DEF D
  <2>2. PICK e \in D : e # d /\ SymAt(input, e) = s
    BY <1>3 DEF Again
  <2>3. d \in S /\ e \in S /\ IsFiniteSet(S)
    BY <1>2, <2>1, <2>2
  <2> HIDE DEF S
  <2>4. Cardinality(S) \in Nat /\ Cardinality(S) # 0 /\ Cardinality(S) # 1
    <3>1. Cardinality(S) \in Nat
      BY <2>3, FS_CardinalityType
    <3>2. Cardinality(S) # 0
      BY <2>3, FS_EmptySet
    <3>3. Cardinality(S) # 1
      <4> SUFFICES ASSUME Cardinality(S) = 1 PROVE FALSE
        OBVIOUS
      <4>1. \E x : S = {x}
        BY <2>3, FS_Singleton
      <4> QED
        BY <2>2, <2>3, <4>1
    <3> QED
      BY <3>1, <3>2, <3>3
  <2> QED
    BY <2>1, <2>4 DEF S
<1>4. ASSUME NEW s \in Defined, Cardinality(Definitions(s)) > 1
      PROVE  \E d \in D : SymAt(input, d) = s /\ Again(input, D, d)
  <2>1. PICK d \in D : SymAt(input, d) = s
    BY DefinedAre DEF D
  <2>2. Definitions(s) # {d}
    <3> SUFFICES ASSUME Definitions(s) = {d} PROVE FALSE
      OBVIOUS
    <3>1. Cardinality({d}) = 1
      BY FS_Singleton
    <3> QED
      BY <1>4, <3>1
  <2>3. \E e \in D : e # d /\ SymAt(input, e) = s
    BY <1>2, <2>1, <2>2
  <2> QED
    BY <2>1, <2>3 DEF Again
<1>5. Repeated(input) \subseteq {s \in Defined : Cardinality(Definitions(s)) > 1}
  BY <1>3 DEF Repeated, D
<1>6. {s \in Defined : Cardinality(Definitions(s)) > 1} \subseteq Repeated(input)
  BY <1>4 DEF Repeated, D
<1> QED
  BY <1>5, <1>6

\* The value of a symbol, as the input has it.
LEMMA ValueIsAddress ==
  ASSUME input \in Seq(Sources), NEW s, NEW a, IsValue(input, s, a)
  PROVE  a = IF s \in Defined THEN Address(s) ELSE 0
<1>1. CASE s \in Defined
  <2>1. PICK d \in Defs(input) : SymAt(input, d) = s
    BY <1>1, DefinedAre
  <2>2. PICK f \in Defs(input) : /\ FirstIn(input, Defs(input), f)
                                 /\ SymAt(input, f) = s /\ AddressAt(input, f) = a
    BY <2>1 DEF IsValue
  <2>3. f = First(s)
    BY <1>1, <2>2, FirstExists
  <2> DEFINE src == input[f[1]]
             off == src.defs[f[2]].local_offset
             n == Len(src.text)
  <2>4. off \in Nat /\ n \in Nat
    <3>1. src.defs[f[2]] \in [sym : Int, local_offset : Nat] /\ src \in Sources
      BY DefsFacts
    <3>2. n \in Nat
      BY <3>1, TextOf
    <3> QED
      BY <3>1, <3>2
  <2>5. Address(s) = BaseOf(input, f[1]) + IF off < n THEN off ELSE 0
    BY <2>3, BaseIsBaseOf DEF Address
  <2>6. a = BaseOf(input, f[1]) + IF off >= n THEN 0 ELSE off
    BY <2>2 DEF AddressAt, LocalOffset
  <2> HIDE DEF off, n
  <2> QED
    BY <1>1, <2>4, <2>5, <2>6
<1>2. CASE s \notin Defined
  <2>1. \A d \in Defs(input) : SymAt(input, d) # s
    BY <1>2, DefinedAre
  <2> QED
    BY <1>2, <2>1 DEF IsValue
<1> QED
  BY <1>1, <1>2

(* For every input whose definitions ascend and in both modes: the memory  *)
(* map printed has the words in address order, the external ones with the  *)
(* value of the first definition of their symbol, the relative ones inside *)
(* their module; and the listing marks the repeated symbols.               *)
THEOREM MapIsAlwaysLinked == Spec => []MemoryMapIsLinked
<1>1. ASSUME Placed, Tabled, Mapped PROVE MemoryMapIsLinked
  <2> SUFFICES ASSUME phase = "end", Ascending
        PROVE  /\ Multiples(listing) = {s \in Defined : Cardinality(Definitions(s)) > 1}
               /\ \A a \in DOMAIN memory : memory[a].addr = a - 1
               /\ \A j \in DOMAIN input : \A i \in DOMAIN input[j].text :
                    LET ins == input[j].text[i]
                        out == memory[Base(j) + i].out
                    IN  ins.val < 10000 =>
                          /\ ins.addr = "E" /\ ins.val % 1000 < Len(input[j].uses) =>
                               out.word = ExternalWord(input[j], ins.val)
                          /\ ins.addr = "R" /\ out.error = "none" =>
                               (out.word - opcode(ins.val))
                                 \in Base(j)..Base(j) + Len(input[j].text)
    BY DEF MemoryMapIsLinked, Multiples
  <2>1. /\ input \in Seq(Sources) /\ next = Len(input) + 1
        /\ AscendingIn(input, Defs(input))
    BY <1>1, AscendingAre DEF Placed
  <2>2. Multiples(listing) = {s \in Defined : Cardinality(Definitions(s)) > 1}
    BY <1>1, <2>1, RepeatedAre DEF Tabled
  <2>3. \A a \in DOMAIN memory : memory[a].addr = a - 1
    <3>1. DOMAIN memory = 1 .. Len(memory)
      BY <1>1 DEF Mapped
    <3> QED
      BY <1>1, <3>1 DEF Mapped
  <2>4. ASSUME NEW j \in DOMAIN input, NEW i \in DOMAIN input[j].text,
               input[j].text[i].val < 10000
        PROVE  LET ins == input[j].text[i]
                   out == memory[Base(j) + i].out
               IN  /\ ins.addr = "E" /\ ins.val % 1000 < Len(input[j].uses) =>
                        out.word = ExternalWord(input[j], ins.val)
                   /\ ins.addr = "R" /\ out.error = "none" =>
                        (out.word - opcode(ins.val))
                          \in Base(j)..Base(j) + Len(input[j].text)
    <3> DEFINE ins == input[j].text[i]
               out == memory[BaseOf(input, j) + i].out
               v == ins.val
    <3>1. /\ j \in 1 .. next - 1 /\ j \in 1 .. Len(input) /\ j \in 1 .. next
          /\ input[j] \in Sources
      BY <2>1
    <3>2. i \in 1 .. Len(input[j].text) /\ Len(input[j].text) \in Nat
      BY <3>1, TextOf
    <3>3. Linked(input, j, i, out)
      BY <1>1, <2>1, <3>1, <3>2 DEF Mapped
    <3>4. Base(j) = BaseOf(input, j)
      BY BaseIsBaseOf
    <3>5. ASSUME ins.addr = "E", v % 1000 < Len(input[j].uses)
          PROVE  out.word = ExternalWord(input[j], v)
      <4> DEFINE s == input[j].uses[(v % 1000) + 1]
                 a == out.word - opcode(v)
      <4>1. IsValue(input, s, a)
        BY <2>4, <3>3, <3>5 DEF Linked
      <4>2. a = IF s \in Defined THEN Address(s) ELSE 0
        <5> HIDE DEF s, a
        <5> QED
          BY <2>1, <4>1, ValueIsAddress
      <4>3. out.word \in Int /\ opcode(v) \in Int
        <5>1. BaseOf(input, j) + i \in 1 .. Len(memory)
          <6>1. next \in 1 .. Len(input) + 1
            BY <1>1 DEF Placed
          <6>2. BaseOf(input, j) + Len(input[j].text) <= BaseOf(input, next)
            BY <2>1, <3>1, <6>1, BaseRises
          <6>3. BaseOf(input, j) \in Nat /\ BaseOf(input, next) \in Nat
            BY <2>1, <3>1, <6>1, BaseFacts
          <6> QED
            BY <1>1, <3>2, <6>2, <6>3 DEF Mapped
        <5>2. memory[BaseOf(input, j) + i] \in Cells
          BY <1>1, <5>1 DEF Mapped
        <5>3. v \in Nat
          <6>1. input[j].text \in Seq([addr : {"I", "A", "R", "E"}, val : Nat])
            BY <3>1, TextOf
          <6> DEFINE q == input[j].text
                     R == [addr : {"I", "A", "R", "E"}, val : Nat]
          <6>2. q[i] \in R
            <7>1. q \in Seq(R) /\ i \in 1 .. Len(q)
              BY <3>2, <6>1
            <7> HIDE DEF q, R
            <7> QED
              BY <7>1
          <6> QED
            BY <6>2
        <5> HIDE DEF v
        <5> QED
          BY <5>2, <5>3 DEF Cells, Outs, opcode
      <4>4. ExternalWord(input[j], v) = opcode(v) + IF s \in Defined THEN Address(s) ELSE 0
        BY DEF ExternalWord
      <4> HIDE DEF s, out, v
      <4>5. out.word = opcode(v) + a
        BY <4>3
      <4> QED
        BY <4>2, <4>4, <4>5
    <3>6. ASSUME ins.addr = "R", out.error = "none"
          PROVE  (out.word - opcode(v)) \in Base(j)..Base(j) + Len(input[j].text)
      BY <2>4, <3>3, <3>4, <3>6 DEF Linked
    <3> QED
      BY <3>4, <3>5, <3>6
  <2> QED
    BY <2>2, <2>3, <2>4
<1> QED
  BY <1>1, AlwaysPlaced, AlwaysTabled, AlwaysMapped, PTL

-----------------------------------------------------------------------------
(* The module reader.  What is flattened: h takes in one list after the    *)
(* other.                                                                  *)
Joins(h, F, n, V) ==
  /\ h[0] = <<>>
  /\ \A k \in 0 .. n : h[k] \in Seq(V)
  /\ \A k \in 1 .. n : F[k] \in Seq(V) /\ h[k] = h[k - 1] \o F[k]

LEMMA JoinExists ==
  ASSUME NEW n \in Nat, NEW V, NEW F, \A k \in 1 .. n : F[k] \in Seq(V)
  PROVE  \E h : Joins(h, F, n, V)
<1> DEFINE T == [k \in 0 .. n |-> Seq(V)]
           f == [k \in 1 .. n |-> [s \in Seq(V) |-> s \o F[k]]]
<1>1. \A k \in 1 .. n : k - 1 \in 0 .. n /\ k \in 0 .. n
  OBVIOUS
<1>2. \A k \in 0 .. n : T[k] = Seq(V)
  OBVIOUS
<1>3. \A k \in 1 .. n : \A s \in Seq(V) : f[k][s] = s \o F[k]
  OBVIOUS
<1>4. \A k \in 1 .. n : \A s \in Seq(V) : s \o F[k] \in Seq(V)
  BY ConcatProperties
<1>5. <<>> \in Seq(V)
  OBVIOUS
<1> HIDE DEF T, f
<1>6. ASSUME NEW k \in 1 .. n, NEW s \in T[k - 1] PROVE f[k][s] \in T[k]
  <2>1. T[k - 1] = Seq(V) /\ T[k] = Seq(V)
    BY <1>1, <1>2
  <2>2. s \in Seq(V)
    BY <2>1
  <2>3. f[k][s] = s \o F[k] /\ s \o F[k] \in Seq(V)
    BY <1>3, <1>4, <2>2
  <2> QED
    BY <2>1, <2>3
<1>7. 0 \in 0 .. n /\ <<>> \in T[0]
  <2>1. 0 \in 0 .. n
    OBVIOUS
  <2>2. T[0] = Seq(V)
    BY <1>2, <2>1
  <2> QED
    BY <1>5, <2>1, <2>2
<1>8. PICK h : Rounds(h, n, <<>>, f) /\ \A k \in 0 .. n : h[k] \in T[k]
  BY <1>6, <1>7, Iterates
<1>9. \A k \in 0 .. n : h[k] = IF k = 0 THEN <<>> ELSE f[k][h[k - 1]]
  BY <1>8 DEF Rounds
<1>10. h[0] = <<>> /\ \A k \in 0 .. n : h[k] \in Seq(V)
  BY <1>2, <1>7, <1>8, <1>9
<1>11. ASSUME NEW k \in 1 .. n PROVE h[k] = h[k - 1] \o F[k]
  <2>1. k # 0 /\ k \in 0 .. n /\ k - 1 \in 0 .. n
    BY <1>1
  <2>2. h[k] = f[k][h[k - 1]] /\ h[k - 1] \in Seq(V)
    BY <1>9, <1>10, <2>1
  <2> QED
    BY <1>3, <2>2
<1> QED
  BY <1>10, <1>11 DEF Joins

\* The recursive function of FlattenSeq.
Flats(s) == CHOOSE g : g = [k \in 1 .. Len(s) |-> IF k = 1 THEN s[k] ELSE g[k - 1] \o s[k]]

LEMMA FlattenIs ==
  ASSUME NEW s
  PROVE  FlattenSeq(s) = IF Len(s) = 0 THEN s ELSE Flats(s)[Len(s)]
  BY DEF FlattenSeq, Flats

LEMMA FlattenJoins ==
  ASSUME NEW n \in Nat, NEW V, NEW F, NEW h, Joins(h, F, n, V), NEW m \in 0 .. n
  PROVE  FlattenSeq([k \in 1 .. m |-> F[k]]) = h[m]
<1> DEFINE s == [k \in 1 .. m |-> F[k]]
           p == Flats(s)
           H(g) == [k \in 1 .. m |-> IF k = 1 THEN s[k] ELSE g[k - 1] \o s[k]]
           Bad == {k \in 1 .. m : p[k] # h[k]}
<1>1. /\ h[0] = <<>>
      /\ \A k \in 0 .. n : h[k] \in Seq(V)
      /\ \A k \in 1 .. n : F[k] \in Seq(V) /\ h[k] = h[k - 1] \o F[k]
  BY DEF Joins
<1>2. Len(s) = m /\ m \in Nat /\ m <= n
  OBVIOUS
<1>3. \A k \in 1 .. m : k \in 1 .. n /\ s[k] = F[k]
  BY <1>2
<1> HIDE DEF s
<1>4. CASE m = 0
  <2>1. s = <<>>
    BY <1>4 DEF s
  <2>2. FlattenSeq(s) = s
    BY <1>2, <1>4, FlattenIs
  <2> QED
    BY <1>1, <1>4, <2>1, <2>2 DEF s
<1>5. CASE m # 0
  <2>1. h[1] = F[1]
    <3>1. 1 \in 1 .. n /\ 1 - 1 = 0
      BY <1>2, <1>5
    <3>2. h[1] = h[1 - 1] \o F[1] /\ F[1] \in Seq(V)
      BY <1>1, <3>1
    <3>3. <<>> \o F[1] = F[1]
      BY <3>2, ConcatEmptySeq
    <3> QED
      BY <1>1, <3>1, <3>2, <3>3
  <2>2. p = H(p)
    <3> DEFINE r == [k \in 1 .. m |-> h[k]]
    <3>1. \A k \in 1 .. m : r[k] = IF k = 1 THEN s[k] ELSE r[k - 1] \o s[k]
      <4> SUFFICES ASSUME NEW k \in 1 .. m
                   PROVE  r[k] = IF k = 1 THEN s[k] ELSE r[k - 1] \o s[k]
        OBVIOUS
      <4>1. CASE k = 1
        BY <1>3, <2>1, <4>1
      <4>2. CASE k # 1
        <5>1. k - 1 \in 1 .. m
          BY <4>2
        <5>2. r[k] = h[k] /\ r[k - 1] = h[k - 1]
          BY <5>1
        <5> HIDE DEF r
        <5> QED
          BY <1>1, <1>3, <4>2, <5>2
      <4> QED
        BY <4>1, <4>2
    <3>2. r = H(r)
      BY <3>1
    <3> HIDE DEF r
    <3>3. p = CHOOSE e : e = H(e)
      BY <1>2 DEF Flats
    <3> HIDE DEF p, H
    <3> QED
      BY <3>2, <3>3
  <2> HIDE DEF p
  <2>3. \A k \in 1 .. m : p[k] = IF k = 1 THEN s[k] ELSE p[k - 1] \o s[k]
    BY <2>2
  <2>4. Bad = {}
    <3> SUFFICES ASSUME Bad # {} PROVE FALSE
      OBVIOUS
    <3>1. PICK l \in Bad : \A k \in Bad : l <= k
      <4>1. Bad \in SUBSET Nat
        OBVIOUS
      <4> HIDE DEF Bad
      <4> QED
        BY <4>1, LeastNatural
    <3>2. l \in 1 .. m /\ p[l] # h[l]
      OBVIOUS
    <3>3. l # 1
      BY <1>3, <2>1, <2>3, <3>2
    <3>4. l - 1 \in 1 .. m /\ l - 1 < l
      BY <3>2, <3>3
    <3>5. p[l - 1] = h[l - 1]
      <4>1. l - 1 \notin Bad
        <5> HIDE DEF Bad
        <5> QED
          BY <3>1, <3>2, <3>4
      <4> QED
        BY <3>4, <4>1
    <3> QED
      BY <1>1, <1>3, <2>3, <3>2, <3>3, <3>5
  <2>5. p[m] = h[m]
    <3>1. m \in 1 .. m
      BY <1>2, <1>5
    <3> QED
      BY <2>4, <3>1
  <2>6. FlattenSeq(s) = p[m]
    BY <1>2, <1>5, FlattenIs DEF p
  <2> QED
    BY <2>5, <2>6 DEF s
<1> QED
  BY <1>4, <1>5

\* Where the elements of the lists are.
JoinPlaces(h, F, n) ==
  /\ \A k \in 1 .. n : Len(h[k]) = Len(h[k - 1]) + Len(F[k])
  /\ \A k \in 0 .. n : \A l \in k .. n :
       /\ Len(h[k]) <= Len(h[l])
       /\ \A j \in 1 .. Len(h[k]) : h[l][j] = h[k][j]
  /\ \A k \in 1 .. n : \A j \in 1 .. Len(F[k]) : h[k][Len(h[k - 1]) + j] = F[k][j]

LEMMA JoinedAt ==
  ASSUME NEW n \in Nat, NEW V, NEW F, NEW h, Joins(h, F, n, V)
  PROVE  JoinPlaces(h, F, n)
<1>1. /\ h[0] = <<>>
      /\ \A k \in 0 .. n : h[k] \in Seq(V)
      /\ \A k \in 1 .. n : F[k] \in Seq(V) /\ h[k] = h[k - 1] \o F[k]
  BY DEF Joins
<1>2. ASSUME NEW k \in 1 .. n
      PROVE  /\ Len(h[k]) = Len(h[k - 1]) + Len(F[k])
             /\ Len(h[k]) \in Nat /\ Len(h[k - 1]) \in Nat /\ Len(F[k]) \in Nat
             /\ \A j \in 1 .. Len(h[k - 1]) : h[k][j] = h[k - 1][j]
             /\ \A j \in 1 .. Len(F[k]) : h[k][Len(h[k - 1]) + j] = F[k][j]
  <2> DEFINE a == h[k - 1]
             b == F[k]
  <2>1. k - 1 \in 0 .. n /\ k \in 0 .. n
    OBVIOUS
  <2>2. a \in Seq(V) /\ b \in Seq(V) /\ h[k] = a \o b /\ h[k] \in Seq(V)
    BY <1>1, <2>1
  <2> HIDE DEF a, b
  <2>3. /\ Len(h[k]) = Len(a) + Len(b)
        /\ \A j \in 1 .. Len(a) + Len(b) :
             h[k][j] = IF j <= Len(a) THEN a[j] ELSE b[j - Len(a)]
    BY <2>2, ConcatProperties
  <2>4. Len(a) \in Nat /\ Len(b) \in Nat /\ Len(h[k]) \in Nat
    BY <2>2, LenProperties
  <2>5. \A j \in 1 .. Len(a) : h[k][j] = a[j]
    BY <2>3, <2>4
  <2>6. \A j \in 1 .. Len(b) : h[k][Len(a) + j] = b[j]
    <3> SUFFICES ASSUME NEW j \in 1 .. Len(b) PROVE h[k][Len(a) + j] = b[j]
      OBVIOUS
    <3>1. /\ Len(a) + j \in 1 .. Len(a) + Len(b) /\ ~(Len(a) + j <= Len(a))
          /\ (Len(a) + j) - Len(a) = j
      BY <2>4
    <3> QED
      BY <2>3, <3>1
  <2> QED
    BY <2>3, <2>4, <2>5, <2>6 DEF a, b
<1>3. ASSUME NEW k \in 0 .. n, NEW l \in k .. n
      PROVE  Len(h[k]) <= Len(h[l]) /\ \A j \in 1 .. Len(h[k]) : h[l][j] = h[k][j]
  <2> DEFINE Keeps(q) == Len(h[k]) <= Len(h[q]) /\ \A j \in 1 .. Len(h[k]) : h[q][j] = h[k][j]
             Bad == {q \in k .. n : ~Keeps(q)}
  <2> SUFFICES ASSUME Bad # {} PROVE FALSE
    OBVIOUS
  <2>1. PICK q \in Bad : \A r \in Bad : q <= r
    <3>1. Bad \in SUBSET Nat
      OBVIOUS
    <3> HIDE DEF Bad
    <3> QED
      BY <3>1, LeastNatural
  <2>2. q \in k .. n /\ ~Keeps(q) /\ Len(h[k]) \in Nat
    BY <1>1, LenProperties
  <2>3. q # k
    BY <2>2
  <2>4. q \in 1 .. n /\ q - 1 \in k .. n /\ q - 1 < q
    BY <2>2, <2>3
  <2>5. Keeps(q - 1)
    <3>1. q - 1 \notin Bad
      <4> HIDE DEF Bad
      <4> QED
        BY <2>1, <2>2, <2>4
    <3> QED
      BY <2>4, <3>1
  <2>6. /\ Len(h[q]) = Len(h[q - 1]) + Len(F[q])
        /\ Len(h[q]) \in Nat /\ Len(h[q - 1]) \in Nat /\ Len(F[q]) \in Nat
        /\ \A j \in 1 .. Len(h[q - 1]) : h[q][j] = h[q - 1][j]
    BY <1>2, <2>4
  <2>7. Len(h[k]) <= Len(h[q])
    <3>1. Len(h[k]) <= Len(h[q - 1])
      BY <2>5
    <3> DEFINE a == Len(h[k])
               b == Len(h[q - 1])
               d == Len(F[q])
    <3>2. /\ a \in Nat /\ b \in Nat /\ d \in Nat
          /\ a <= b /\ Len(h[q]) = b + d
      BY <2>2, <2>6, <3>1
    <3> HIDE DEF a, b, d
    <3>3. a <= b + d
      BY <3>2
    <3> QED
      BY <3>2, <3>3 DEF a
  <2>8. ASSUME NEW j \in 1 .. Len(h[k]) PROVE h[q][j] = h[k][j]
    <3>1. Len(h[k]) <= Len(h[q - 1]) /\ h[q - 1][j] = h[k][j]
      BY <2>5
    <3> HIDE DEF Keeps, Bad
    <3>2. j \in 1 .. Len(h[q - 1])
      BY <2>2, <2>6, <3>1
    <3> QED
      BY <2>6, <3>1, <3>2
  <2> QED
    BY <2>2, <2>7, <2>8
<1> QED
  BY <1>2, <1>3 DEF JoinPlaces

\* Lists of as many elements each.
LEMMA JoinedAlike ==
  ASSUME NEW n \in Nat, NEW V, NEW F, NEW h, Joins(h, F, n, V),
         NEW W, NEW G, NEW g, Joins(g, G, n, W),
         \A k \in 1 .. n : Len(F[k]) = Len(G[k])
  PROVE  \A k \in 0 .. n : Len(h[k]) = Len(g[k])
<1> DEFINE Bad == {k \in 0 .. n : Len(h[k]) # Len(g[k])}
<1> SUFFICES ASSUME Bad # {} PROVE FALSE
  OBVIOUS
<1>1. PICK l \in Bad : \A k \in Bad : l <= k
  <2>1. Bad \in SUBSET Nat
    OBVIOUS
  <2> HIDE DEF Bad
  <2> QED
    BY <2>1, LeastNatural
<1>2. l \in 0 .. n /\ Len(h[l]) # Len(g[l])
  OBVIOUS
<1>3. l # 0
  BY <1>2 DEF Joins
<1>4. l \in 1 .. n /\ l - 1 \in 0 .. n /\ l - 1 < l
  BY <1>2, <1>3
<1>5. Len(h[l - 1]) = Len(g[l - 1])
  <2>1. l - 1 \notin Bad
    <3> HIDE DEF Bad
    <3> QED
      BY <1>1, <1>2, <1>4
  <2> QED
    BY <1>4, <2>1
<1>6. /\ Len(h[l]) = Len(h[l - 1]) + Len(F[l])
      /\ Len(g[l]) = Len(g[l - 1]) + Len(G[l])
  <2>1. JoinPlaces(h, F, n) /\ JoinPlaces(g, G, n)
    BY JoinedAt
  <2> QED
    BY <1>4, <2>1 DEF JoinPlaces
<1> QED
  BY <1>2, <1>4, <1>5, <1>6

\* Lists of pairs.
PairLists(F, n, V) == \A k \in 1 .. n : F[k] \in Seq(V) /\ Len(F[k]) = 2

PairsAt(s, F, n) == /\ Len(s) = 2 * n
                    /\ \A k \in 1 .. n : s[2 * k - 1] = F[k][1] /\ s[2 * k] = F[k][2]

LEMMA PairsFlattened ==
  ASSUME NEW n \in Nat, NEW V, NEW F, PairLists(F, n, V)
  PROVE  LET s == FlattenSeq([k \in 1 .. n |-> F[k]])
         IN  s \in Seq(V) /\ PairsAt(s, F, n)
<1>0. \A k \in 1 .. n : F[k] \in Seq(V) /\ Len(F[k]) = 2
  BY DEF PairLists
<1>1. PICK h : Joins(h, F, n, V)
  BY <1>0, JoinExists
<1> DEFINE Bad == {k \in 0 .. n : Len(h[k]) # 2 * k}
<1>2. /\ \A k \in 1 .. n : Len(h[k]) = Len(h[k - 1]) + 2
      /\ \A k \in 0 .. n : \A l \in k .. n : \A j \in 1 .. Len(h[k]) : h[l][j] = h[k][j]
      /\ \A k \in 1 .. n : \A j \in 1 .. 2 : h[k][Len(h[k - 1]) + j] = F[k][j]
  <2>1. JoinPlaces(h, F, n)
    BY <1>1, JoinedAt
  <2> QED
    BY <1>0, <2>1 DEF JoinPlaces
<1>3. Bad = {}
  <2> SUFFICES ASSUME Bad # {} PROVE FALSE
    OBVIOUS
  <2>1. PICK l \in Bad : \A k \in Bad : l <= k
    <3>1. Bad \in SUBSET Nat
      OBVIOUS
    <3> HIDE DEF Bad
    <3> QED
      BY <3>1, LeastNatural
  <2>2. l \in 0 .. n /\ Len(h[l]) # 2 * l
    OBVIOUS
  <2>3. l # 0
    BY <1>1, <2>2 DEF Joins
  <2>4. l \in 1 .. n /\ l - 1 \in 0 .. n /\ l - 1 < l
    BY <2>2, <2>3
  <2>5. Len(h[l - 1]) = 2 * (l - 1)
    <3>1. l - 1 \notin Bad
      <4> HIDE DEF Bad
      <4> QED
        BY <2>1, <2>2, <2>4
    <3> QED
      BY <2>4, <3>1
  <2>6. Len(h[l]) = Len(h[l - 1]) + 2
    BY <1>2, <2>4
  <2> QED
    BY <2>2, <2>5, <2>6
<1>4. \A k \in 0 .. n : Len(h[k]) = 2 * k
  BY <1>3
<1>5. n \in 0 .. n
  OBVIOUS
<1>6. FlattenSeq([k \in 1 .. n |-> F[k]]) = h[n]
  BY <1>1, <1>5, FlattenJoins
<1>7. h[n] \in Seq(V) /\ Len(h[n]) = 2 * n
  BY <1>1, <1>4, <1>5 DEF Joins
<1>8. ASSUME NEW k \in 1 .. n PROVE h[n][2 * k - 1] = F[k][1] /\ h[n][2 * k] = F[k][2]
  <2>1. k \in 0 .. n /\ k - 1 \in 0 .. n /\ n \in k .. n
    OBVIOUS
  <2>2. Len(h[k]) = 2 * k /\ Len(h[k - 1]) = 2 * (k - 1)
    BY <1>4, <2>1
  <2>3. /\ 2 * (k - 1) + 1 = 2 * k - 1 /\ 2 * (k - 1) + 2 = 2 * k
        /\ 2 * k - 1 \in 1 .. 2 * k /\ 2 * k \in 1 .. 2 * k /\ 1 \in 1 .. 2 /\ 2 \in 1 .. 2
    OBVIOUS
  <2>4. h[k][2 * k - 1] = F[k][1] /\ h[k][2 * k] = F[k][2]
    <3>1. h[k][2 * (k - 1) + 1] = F[k][1] /\ h[k][2 * (k - 1) + 2] = F[k][2]
      BY <1>2, <2>2, <2>3
    <3> QED
      BY <2>3, <3>1
  <2>5. \A j \in 1 .. 2 * k : h[n][j] = h[k][j]
    BY <1>2, <2>1, <2>2
  <2> QED
    BY <2>3, <2>4, <2>5
<1> QED
  BY <1>6, <1>7, <1>8 DEF PairsAt

-----------------------------------------------------------------------------
\* Three numbers, each with a list behind it.
ThreeParts(s, p, A, q, B, r, C) ==
  /\ Len(s) = 3 + Len(A) + Len(B) + Len(C)
  /\ s[1] = p
  /\ \A k \in 1 .. Len(A) : s[1 + k] = A[k]
  /\ s[2 + Len(A)] = q
  /\ \A k \in 1 .. Len(B) : s[2 + Len(A) + k] = B[k]
  /\ s[3 + Len(A) + Len(B)] = r
  /\ \A k \in 1 .. Len(C) : s[3 + Len(A) + Len(B) + k] = C[k]

\* One element and a list, added to a list.
Extends(s, a, p, A) ==
  /\ Len(s) = Len(a) + 1 + Len(A)
  /\ \A k \in 1 .. Len(a) : s[k] = a[k]
  /\ s[Len(a) + 1] = p
  /\ \A k \in 1 .. Len(A) : s[Len(a) + 1 + k] = A[k]

LEMMA OnePart ==
  ASSUME NEW V, NEW a \in Seq(V), NEW p \in V, NEW A \in Seq(V)
  PROVE  LET s == (a \o <<p>>) \o A
         IN  s \in Seq(V) /\ Extends(s, a, p, A)
<1> DEFINE b == <<p>>
           c == a \o b
           s == c \o A
<1>1. b \in Seq(V) /\ Len(b) = 1 /\ b[1] = p
  OBVIOUS
<1> HIDE DEF b
<1>2. Len(a) \in Nat /\ Len(A) \in Nat
  BY LenProperties
<1>3. /\ c \in Seq(V) /\ Len(c) = Len(a) + Len(b)
      /\ \A k \in 1 .. Len(a) + Len(b) : c[k] = IF k <= Len(a) THEN a[k] ELSE b[k - Len(a)]
  BY <1>1, ConcatProperties
<1> HIDE DEF c
<1>4. /\ s \in Seq(V) /\ Len(s) = Len(c) + Len(A)
      /\ \A k \in 1 .. Len(c) + Len(A) : s[k] = IF k <= Len(c) THEN c[k] ELSE A[k - Len(c)]
  <2>1. c \in Seq(V)
    BY <1>3
  <2> QED
    BY <2>1, ConcatProperties
<1> HIDE DEF s
<1>5. ASSUME NEW k \in 1 .. Len(a) PROVE s[k] = a[k]
  <2>1. k \in 1 .. Len(a) + Len(b) /\ k <= Len(a) /\ k \in 1 .. Len(c) + Len(A) /\ k <= Len(c)
    BY <1>1, <1>2, <1>3
  <2> QED
    BY <1>3, <1>4, <2>1
<1>6. s[Len(a) + 1] = p
  <2> DEFINE k == Len(a) + 1
  <2>1. /\ k \in 1 .. Len(a) + Len(b) /\ ~(k <= Len(a)) /\ k - Len(a) = 1
        /\ k \in 1 .. Len(c) + Len(A) /\ k <= Len(c)
    BY <1>1, <1>2, <1>3
  <2> HIDE DEF k
  <2>2. s[k] = p
    BY <1>1, <1>3, <1>4, <2>1
  <2> QED
    BY <2>2 DEF k
<1>7. ASSUME NEW j \in 1 .. Len(A) PROVE s[Len(a) + 1 + j] = A[j]
  <2> DEFINE k == Len(a) + 1 + j
  <2>1. k \in 1 .. Len(c) + Len(A) /\ ~(k <= Len(c)) /\ k - Len(c) = j
    BY <1>1, <1>2, <1>3
  <2> HIDE DEF k
  <2>2. s[k] = A[j]
    BY <1>4, <2>1
  <2> QED
    BY <2>2 DEF k
<1>8. Len(s) = Len(a) + 1 + Len(A)
  BY <1>1, <1>2, <1>3, <1>4
<1> QED
  BY <1>4, <1>5, <1>6, <1>7, <1>8 DEF b, c, s, Extends

LEMMA ThreePartsAre ==
  ASSUME NEW V, NEW p \in V, NEW q \in V, NEW r \in V,
         NEW A \in Seq(V), NEW B \in Seq(V), NEW C \in Seq(V)
  PROVE  LET s == <<p>> \o A \o <<q>> \o B \o <<r>> \o C
         IN  s \in Seq(V) /\ ThreeParts(s, p, A, q, B, r, C)
<1> DEFINE a == (<<>> \o <<p>>) \o A
           b == (a \o <<q>>) \o B
           s == (b \o <<r>>) \o C
           e == <<>>
<1>1. Len(A) \in Nat /\ Len(B) \in Nat /\ Len(C) \in Nat
  BY LenProperties
<1>2. e \in Seq(V) /\ Len(e) = 0
  OBVIOUS
<1>3. /\ a \in Seq(V) /\ Len(a) = 1 + Len(A)
      /\ a[1] = p
      /\ \A k \in 1 .. Len(A) : a[1 + k] = A[k]
  <2> DEFINE x == (e \o <<p>>) \o A
  <2> HIDE DEF e
  <2>1. /\ x \in Seq(V) /\ Len(x) = Len(e) + 1 + Len(A)
        /\ x[Len(e) + 1] = p
        /\ \A k \in 1 .. Len(A) : x[Len(e) + 1 + k] = A[k]
    <3>1. x \in Seq(V) /\ Extends(x, e, p, A)
      BY <1>2, OnePart
    <3> QED
      BY <3>1 DEF Extends
  <2> HIDE DEF x
  <2>2. /\ x \in Seq(V) /\ Len(x) = 1 + Len(A)
        /\ x[1] = p
        /\ \A k \in 1 .. Len(A) : x[1 + k] = A[k]
    BY <1>1, <1>2, <2>1
  <2> QED
    BY <2>2 DEF x, e
<1> HIDE DEF a
<1>4. /\ b \in Seq(V) /\ Len(b) = Len(a) + 1 + Len(B)
      /\ \A k \in 1 .. Len(a) : b[k] = a[k]
      /\ b[Len(a) + 1] = q
      /\ \A k \in 1 .. Len(B) : b[Len(a) + 1 + k] = B[k]
  <2>1. a \in Seq(V)
    BY <1>3
  <2>2. b \in Seq(V) /\ Extends(b, a, q, B)
    BY <2>1, OnePart
  <2> QED
    BY <2>2 DEF Extends
<1> HIDE DEF b
<1>5. /\ s \in Seq(V) /\ Len(s) = Len(b) + 1 + Len(C)
      /\ \A k \in 1 .. Len(b) : s[k] = b[k]
      /\ s[Len(b) + 1] = r
      /\ \A k \in 1 .. Len(C) : s[Len(b) + 1 + k] = C[k]
  <2>1. b \in Seq(V)
    BY <1>4
  <2>2. s \in Seq(V) /\ Extends(s, b, r, C)
    BY <2>1, OnePart
  <2> QED
    BY <2>2 DEF Extends
<1> HIDE DEF s
<1>6. Len(a) = 1 + Len(A) /\ Len(b) = 2 + Len(A) + Len(B) /\ Len(s) = 3 + Len(A) + Len(B) + Len(C)
  BY <1>1, <1>3, <1>4, <1>5
<1>7. \A k \in 1 .. Len(a) : k \in 1 .. Len(b) /\ s[k] = a[k]
  BY <1>1, <1>4, <1>5, <1>6
<1>8. s[1] = p /\ \A k \in 1 .. Len(A) : s[1 + k] = A[k]
  <2>1. 1 \in 1 .. Len(a) /\ \A k \in 1 .. Len(A) : 1 + k \in 1 .. Len(a)
    BY <1>1, <1>6
  <2> QED
    BY <1>3, <1>7, <2>1
<1>9. s[2 + Len(A)] = q /\ \A k \in 1 .. Len(B) : s[2 + Len(A) + k] = B[k]
  <2>1. Len(a) + 1 = 2 + Len(A) /\ 2 + Len(A) \in 1 .. Len(b)
    BY <1>1, <1>6
  <2>2. ASSUME NEW k \in 1 .. Len(B) PROVE s[2 + Len(A) + k] = B[k]
    <3>1. Len(a) + 1 + k = 2 + Len(A) + k /\ 2 + Len(A) + k \in 1 .. Len(b)
      BY <1>1, <1>6
    <3> QED
      BY <1>4, <1>5, <3>1
  <2> QED
    BY <1>4, <1>5, <2>1, <2>2
<1>10. s[3 + Len(A) + Len(B)] = r /\ \A k \in 1 .. Len(C) : s[3 + Len(A) + Len(B) + k] = C[k]
  <2>1. Len(b) + 1 = 3 + Len(A) + Len(B)
    BY <1>1, <1>6
  <2>2. \A k \in 1 .. Len(C) : Len(b) + 1 + k = 3 + Len(A) + Len(B) + k
    BY <1>1, <1>6
  <2> QED
    BY <1>5, <2>1, <2>2
<1>11. ThreeParts(s, p, A, q, B, r, C)
  BY <1>6, <1>8, <1>9, <1>10 DEF ThreeParts
<1>12. s = <<p>> \o A \o <<q>> \o B \o <<r>> \o C
  <2>1. <<>> \o <<p>> = <<p>>
    OBVIOUS
  <2> QED
    BY <2>1 DEF a, b, s
<1> QED
  BY <1>5, <1>11, <1>12

\* The shape of a module: d pairs, u elements and x pairs.
Shape(s, p, q, r, D, U, X, d, u, x) ==
  /\ Len(s) = 3 + 2 * d + u + 2 * x
  /\ s[1] = p
  /\ \A k \in 1 .. d : s[2 * k] = D[k][1] /\ s[2 * k + 1] = D[k][2]
  /\ s[2 * d + 2] = q
  /\ \A k \in 1 .. u : s[2 * d + 2 + k] = U[k]
  /\ s[2 * d + u + 3] = r
  /\ \A k \in 1 .. x : s[2 * d + u + 2 + 2 * k] = X[k][1] /\ s[2 * d + u + 3 + 2 * k] = X[k][2]

Shaped(p, q, r, D, U, X, d, u, x) ==
  <<p>> \o FlattenSeq([k \in 1 .. d |-> D[k]])
    \o <<q>> \o [k \in 1 .. u |-> U[k]]
    \o <<r>> \o FlattenSeq([k \in 1 .. x |-> X[k]])

Elements(F, n, V) == \A k \in 1 .. n : F[k] \in V

LEMMA ShapeIs ==
  ASSUME NEW V, NEW d \in Nat, NEW u \in Nat, NEW x \in Nat,
         NEW p \in V, NEW q \in V, NEW r \in V, NEW D, NEW U, NEW X,
         PairLists(D, d, V), Elements(U, u, V), PairLists(X, x, V)
  PROVE  LET s == Shaped(p, q, r, D, U, X, d, u, x)
         IN  s \in Seq(V) /\ Shape(s, p, q, r, D, U, X, d, u, x)
<1> DEFINE A == FlattenSeq([k \in 1 .. d |-> D[k]])
           B == [k \in 1 .. u |-> U[k]]
           C == FlattenSeq([k \in 1 .. x |-> X[k]])
           s == <<p>> \o A \o <<q>> \o B \o <<r>> \o C
<1>1. /\ A \in Seq(V) /\ Len(A) = 2 * d
      /\ \A k \in 1 .. d : A[2 * k - 1] = D[k][1] /\ A[2 * k] = D[k][2]
  <2>1. A \in Seq(V) /\ PairsAt(A, D, d)
    BY PairsFlattened
  <2> QED
    BY <2>1 DEF PairsAt
<1>2. /\ C \in Seq(V) /\ Len(C) = 2 * x
      /\ \A k \in 1 .. x : C[2 * k - 1] = X[k][1] /\ C[2 * k] = X[k][2]
  <2>1. C \in Seq(V) /\ PairsAt(C, X, x)
    BY PairsFlattened
  <2> QED
    BY <2>1 DEF PairsAt
<1>3. B \in Seq(V) /\ Len(B) = u /\ \A k \in 1 .. u : B[k] = U[k]
  BY DEF Elements
<1> HIDE DEF A, B, C
<1>4. s \in Seq(V) /\ ThreeParts(s, p, A, q, B, r, C)
  BY <1>1, <1>2, <1>3, ThreePartsAre
<1> HIDE DEF s
<1>5. /\ Len(s) = 3 + 2 * d + u + 2 * x
      /\ s[1] = p
      /\ \A k \in 1 .. 2 * d : s[1 + k] = A[k]
      /\ s[2 + 2 * d] = q
      /\ \A k \in 1 .. u : s[2 + 2 * d + k] = B[k]
      /\ s[3 + 2 * d + u] = r
      /\ \A k \in 1 .. 2 * x : s[3 + 2 * d + u + k] = C[k]
  BY <1>1, <1>2, <1>3, <1>4 DEF ThreeParts
<1>6. ASSUME NEW k \in 1 .. d PROVE s[2 * k] = D[k][1] /\ s[2 * k + 1] = D[k][2]
  <2>1. /\ 2 * k - 1 \in 1 .. 2 * d /\ 1 + (2 * k - 1) = 2 * k
        /\ 2 * k \in 1 .. 2 * d /\ 1 + 2 * k = 2 * k + 1
    OBVIOUS
  <2>2. s[1 + (2 * k - 1)] = A[2 * k - 1] /\ s[1 + 2 * k] = A[2 * k]
    BY <1>5, <2>1
  <2> QED
    BY <1>1, <2>1, <2>2
<1>7. ASSUME NEW k \in 1 .. x
      PROVE  s[2 * d + u + 2 + 2 * k] = X[k][1] /\ s[2 * d + u + 3 + 2 * k] = X[k][2]
  <2>1. /\ 2 * k - 1 \in 1 .. 2 * x /\ 3 + 2 * d + u + (2 * k - 1) = 2 * d + u + 2 + 2 * k
        /\ 2 * k \in 1 .. 2 * x /\ 3 + 2 * d + u + 2 * k = 2 * d + u + 3 + 2 * k
    OBVIOUS
  <2>2. /\ s[3 + 2 * d + u + (2 * k - 1)] = C[2 * k - 1]
        /\ s[3 + 2 * d + u + 2 * k] = C[2 * k]
    BY <1>5, <2>1
  <2> QED
    BY <1>2, <2>1, <2>2
<1>8. s[2 * d + 2] = q /\ s[2 * d + u + 3] = r
  BY <1>5
<1>9. ASSUME NEW k \in 1 .. u PROVE s[2 * d + 2 + k] = U[k]
  <2>1. 2 + 2 * d + k = 2 * d + 2 + k
    OBVIOUS
  <2> QED
    BY <1>3, <1>5, <2>1
<1>10. Shape(s, p, q, r, D, U, X, d, u, x)
  BY <1>5, <1>6, <1>7, <1>8, <1>9 DEF Shape
<1> QED
  BY <1>4, <1>10 DEF s, A, B, C, Shaped

\* The tokens of a definition and of an instruction, and their roles.
DefWords(src)  == [k \in 1 .. Len(src.defs) |-> <<Name(src.defs[k][1]), Number(src.defs[k][2])>>]
UseWords(src)  == [k \in 1 .. Len(src.uses) |-> Name(src.uses[k])]
TextWords(src) == [k \in 1 .. Len(src.text) |-> <<Letter(src.text[k][1]), Number(src.text[k][2])>>]

DefRoles(src)  == [k \in 1 .. Len(src.defs) |-> <<"definition", "number">>]
UseRoles(src)  == [k \in 1 .. Len(src.uses) |-> "use"]
TextRoles(src) == [k \in 1 .. Len(src.text) |-> <<"addressing", "number">>]

Width(src) == 3 + 2 * Len(src.defs) + Len(src.uses) + 2 * Len(src.text)

WordsAre(s, src) ==
  Shape(s, Number(Len(src.defs)), Number(Len(src.uses)), Number(Len(src.text)),
        DefWords(src), UseWords(src), TextWords(src),
        Len(src.defs), Len(src.uses), Len(src.text))

RolesAre(s, src) ==
  Shape(s, "number", "number", "number", DefRoles(src), UseRoles(src), TextRoles(src),
        Len(src.defs), Len(src.uses), Len(src.text))

LEMMA ModuleFacts ==
  ASSUME NEW src, IsModule(src)
  PROVE  /\ Len(src.defs) \in Nat /\ Len(src.uses) \in Nat /\ Len(src.text) \in Nat
         /\ DOMAIN src.defs = 1 .. Len(src.defs)
         /\ DOMAIN src.uses = 1 .. Len(src.uses)
         /\ DOMAIN src.text = 1 .. Len(src.text)
         /\ Width(src) \in Nat \ {0}
<1>1. Len(src.defs) \in Nat /\ Len(src.uses) \in Nat /\ Len(src.text) \in Nat
  BY DEF IsModule, IsPairs, IsList
<1>2. ASSUME NEW s, IsList(s) PROVE DOMAIN s = 1 .. Len(s)
  <2>1. s = [k \in 1 .. Len(s) |-> s[k]]
    BY <1>2 DEF IsList
  <2> QED
    BY <2>1
<1>3. Width(src) \in Nat \ {0}
  <2> DEFINE d == Len(src.defs)
             u == Len(src.uses)
             x == Len(src.text)
  <2>1. d \in Nat /\ u \in Nat /\ x \in Nat
    BY <1>1
  <2> HIDE DEF d, u, x
  <2>2. 3 + 2 * d + u + 2 * x \in Nat \ {0}
    BY <2>1
  <2> QED
    BY <2>2 DEF Width, d, u, x
<1> QED
  BY <1>1, <1>2, <1>3 DEF IsModule, IsPairs

LEMMA WrittenIs ==
  ASSUME NEW src, IsModule(src)
  PROVE  IsList(Written(src)) /\ WordsAre(Written(src), src)
<1> DEFINE d == Len(src.defs)
           u == Len(src.uses)
           x == Len(src.text)
           D == DefWords(src)
           U == UseWords(src)
           X == TextWords(src)
           VD == UNION {{D[k][1], D[k][2]} : k \in 1 .. d}
           VU == {U[k] : k \in 1 .. u}
           VX == UNION {{X[k][1], X[k][2]} : k \in 1 .. x}
           V == {Number(d), Number(u), Number(x)} \cup VD \cup VU \cup VX
<1>1. /\ d \in Nat /\ u \in Nat /\ x \in Nat
      /\ DOMAIN src.defs = 1 .. d /\ DOMAIN src.uses = 1 .. u /\ DOMAIN src.text = 1 .. x
  BY ModuleFacts
<1>2. Written(src) = <<Number(d)>> \o FlattenSeq([k \in 1 .. d |-> D[k]])
                       \o <<Number(u)>> \o [k \in 1 .. u |-> U[k]]
                       \o <<Number(x)>> \o FlattenSeq([k \in 1 .. x |-> X[k]])
  <2>1. [k \in DOMAIN src.defs |-> <<Name(src.defs[k][1]), Number(src.defs[k][2])>>]
          = [k \in 1 .. d |-> D[k]]
    BY <1>1 DEF DefWords
  <2>2. [k \in DOMAIN src.uses |-> Name(src.uses[k])] = [k \in 1 .. u |-> U[k]]
    BY <1>1 DEF UseWords
  <2>3. [k \in DOMAIN src.text |-> <<Letter(src.text[k][1]), Number(src.text[k][2])>>]
          = [k \in 1 .. x |-> X[k]]
    BY <1>1 DEF TextWords
  <2> QED
    BY <2>1, <2>2, <2>3 DEF Written
<1>3. PairLists(D, d, V)
  <2> SUFFICES ASSUME NEW k \in 1 .. d PROVE D[k] \in Seq(V) /\ Len(D[k]) = 2
    BY DEF PairLists
  <2>1. D[k] = <<Name(src.defs[k][1]), Number(src.defs[k][2])>>
    BY DEF DefWords
  <2> DEFINE a == D[k][1]
             b == D[k][2]
  <2>2. D[k] = <<a, b>>
    BY <2>1
  <2> HIDE DEF D, U, X
  <2>3. a \in V /\ b \in V
    <3> DEFINE T == {D[k][1], D[k][2]}
    <3>1. T \in {{D[m][1], D[m][2]} : m \in 1 .. d}
      OBVIOUS
    <3>2. a \in T /\ b \in T
      OBVIOUS
    <3>3. a \in VD /\ b \in VD
      BY <3>1, <3>2
    <3> HIDE DEF VD, VU, VX
    <3> QED
      BY <3>3
  <2> HIDE DEF V, a, b
  <2>4. <<a, b>> \in Seq(V) /\ Len(<<a, b>>) = 2
    BY <2>3
  <2> QED
    BY <2>2, <2>4
<1>4. PairLists(X, x, V)
  <2> SUFFICES ASSUME NEW k \in 1 .. x PROVE X[k] \in Seq(V) /\ Len(X[k]) = 2
    BY DEF PairLists
  <2>1. X[k] = <<Letter(src.text[k][1]), Number(src.text[k][2])>>
    BY DEF TextWords
  <2> DEFINE a == X[k][1]
             b == X[k][2]
  <2>2. X[k] = <<a, b>>
    BY <2>1
  <2> HIDE DEF D, U, X
  <2>3. a \in V /\ b \in V
    <3> DEFINE T == {X[k][1], X[k][2]}
    <3>1. T \in {{X[m][1], X[m][2]} : m \in 1 .. x}
      OBVIOUS
    <3>2. a \in T /\ b \in T
      OBVIOUS
    <3>3. a \in VX /\ b \in VX
      BY <3>1, <3>2
    <3> HIDE DEF VD, VU, VX
    <3> QED
      BY <3>3
  <2> HIDE DEF V, a, b
  <2>4. <<a, b>> \in Seq(V) /\ Len(<<a, b>>) = 2
    BY <2>3
  <2> QED
    BY <2>2, <2>4
<1>5. Elements(U, u, V)
  <2> HIDE DEF D, U, X
  <2>1. \A k \in 1 .. u : U[k] \in VU
    OBVIOUS
  <2> HIDE DEF VD, VU, VX
  <2> QED
    BY <2>1 DEF Elements
<1>6. Number(d) \in V /\ Number(u) \in V /\ Number(x) \in V
  OBVIOUS
<1> DEFINE p == Number(d)
           q == Number(u)
           r == Number(x)
           s == Shaped(p, q, r, D, U, X, d, u, x)
<1>7. s \in Seq(V) /\ Shape(s, p, q, r, D, U, X, d, u, x)
  <2>1. p \in V /\ q \in V /\ r \in V
    BY <1>6
  <2> HIDE DEF D, U, X, V, d, u, x, p, q, r
  <2> QED
    BY <1>1, <1>3, <1>4, <1>5, <2>1, ShapeIs
<1>8. Written(src) = s
  BY <1>2 DEF Shaped
<1>9. Shape(Written(src), Number(d), Number(u), Number(x), D, U, X, d, u, x)
  <2> HIDE DEF s
  <2> QED
    BY <1>7, <1>8
<1> HIDE DEF s, V
<1>10. IsList(s)
  BY <1>7 DEF IsList
<1> QED
  BY <1>8, <1>9, <1>10 DEF WordsAre

LEMMA RolesAreIs ==
  ASSUME NEW src, IsModule(src)
  PROVE  IsList(Roles(src)) /\ RolesAre(Roles(src), src)
<1> DEFINE d == Len(src.defs)
           u == Len(src.uses)
           x == Len(src.text)
           D == DefRoles(src)
           U == UseRoles(src)
           X == TextRoles(src)
           V == {"number", "definition", "use", "addressing"}
<1>1. /\ d \in Nat /\ u \in Nat /\ x \in Nat
      /\ DOMAIN src.defs = 1 .. d /\ DOMAIN src.uses = 1 .. u /\ DOMAIN src.text = 1 .. x
  BY ModuleFacts
<1> DEFINE p == "number"
           s == Shaped(p, p, p, D, U, X, d, u, x)
<1>2. Roles(src) = s
  <2>1. [k \in DOMAIN src.defs |-> <<"definition", "number">>] = [k \in 1 .. d |-> D[k]]
    BY <1>1 DEF DefRoles
  <2>2. [k \in DOMAIN src.uses |-> "use"] = [k \in 1 .. u |-> U[k]]
    BY <1>1 DEF UseRoles
  <2>3. [k \in DOMAIN src.text |-> <<"addressing", "number">>] = [k \in 1 .. x |-> X[k]]
    BY <1>1 DEF TextRoles
  <2> QED
    BY <2>1, <2>2, <2>3 DEF Roles, Shaped
<1>3. PairLists(D, d, V)
  <2> SUFFICES ASSUME NEW k \in 1 .. d PROVE D[k] \in Seq(V) /\ Len(D[k]) = 2
    BY DEF PairLists
  <2>1. D[k] = <<"definition", "number">>
    BY DEF DefRoles
  <2> QED
    BY <2>1
<1>4. PairLists(X, x, V)
  <2> SUFFICES ASSUME NEW k \in 1 .. x PROVE X[k] \in Seq(V) /\ Len(X[k]) = 2
    BY DEF PairLists
  <2>1. X[k] = <<"addressing", "number">>
    BY DEF TextRoles
  <2> QED
    BY <2>1
<1>5. Elements(U, u, V)
  BY DEF UseRoles, Elements
<1>6. p \in V
  OBVIOUS
<1>7. s \in Seq(V) /\ Shape(s, p, p, p, D, U, X, d, u, x)
  <2> HIDE DEF D, U, X, V, d, u, x, p
  <2> QED
    BY <1>1, <1>3, <1>4, <1>5, <1>6, ShapeIs
<1> HIDE DEF s, V
<1>8. IsList(s)
  BY <1>7 DEF IsList
<1> QED
  BY <1>2, <1>7, <1>8 DEF RolesAre

-----------------------------------------------------------------------------
\* A list whose elements are all in V.
LEMMA ListIn ==
  ASSUME NEW s, IsList(s), NEW V, \A k \in 1 .. Len(s) : s[k] \in V
  PROVE  s \in Seq(V)
<1> DEFINE m == Len(s)
<1>1. m \in Nat /\ s = [k \in 1 .. m |-> s[k]] /\ \A k \in 1 .. m : s[k] \in V
  BY DEF IsList
<1> HIDE DEF m
<1> QED
  BY <1>1

\* Lists of lists are in one set together.
Listed(F, n) == \A k \in 1 .. n : IsList(F[k])

Flat(F, m) == FlattenSeq([k \in 1 .. m |-> F[k]])

LEMMA FlatJoins ==
  ASSUME NEW n \in Nat, NEW V, NEW F, NEW h, Joins(h, F, n, V)
  PROVE  \A m \in 0 .. n : Flat(F, m) = h[m]
  BY FlattenJoins DEF Flat

LEMMA InOneSet ==
  ASSUME NEW n \in Nat, NEW F, Listed(F, n)
  PROVE  \E V : \A k \in 1 .. n : F[k] \in Seq(V)
<1> DEFINE V == UNION {{F[k][j] : j \in 1 .. Len(F[k])} : k \in 1 .. n}
<1>1. ASSUME NEW k \in 1 .. n PROVE F[k] \in Seq(V)
  <2> DEFINE W == {F[k][j] : j \in 1 .. Len(F[k])}
  <2>1. W \subseteq V
    OBVIOUS
  <2>2. \A j \in 1 .. Len(F[k]) : F[k][j] \in W
    OBVIOUS
  <2> HIDE DEF V, W
  <2>3. \A j \in 1 .. Len(F[k]) : F[k][j] \in V
    BY <2>1, <2>2
  <2>4. IsList(F[k])
    BY DEF Listed
  <2> QED
    BY <2>3, <2>4, ListIn
<1> HIDE DEF V
<1> QED
  BY <1>1

\* The modules of a file, and where their tokens are.
Spelling  == Tokens(file)

SoundFile == IsList(file) /\ \A k \in 1 .. Len(file) : IsModule(file[k])

Laid(n) ==
  /\ Begin(1) = 1
  /\ \A k \in 1 .. n + 1 : Begin(k) \in Nat \ {0}
  /\ \A k \in 1 .. n : Begin(k + 1) = Begin(k) + Width(file[k])
  /\ \A k \in 1 .. n + 1 : \A l \in k .. n + 1 : Begin(k) <= Begin(l)
  /\ Begin(n + 1) = Len(Spelling) + 1

Filled(n) ==
  /\ IsList(Spelling) /\ DOMAIN Meant = 1 .. Len(Spelling)
  /\ \A k \in 1 .. n : \A j \in 1 .. Width(file[k]) :
       /\ Begin(k) - 1 + j \in 1 .. Len(Spelling)
       /\ Spelling[Begin(k) - 1 + j] = Written(file[k])[j]
       /\ Meant[Begin(k) - 1 + j] = Roles(file[k])[j]

LEMMA FileIs ==
  ASSUME SoundFile, NEW n, n = Len(file)
  PROVE  /\ n \in Nat /\ DOMAIN file = 1 .. n
         /\ Before(n + 1) = file
         /\ \A k \in 1 .. n + 1 : Before(k) = [j \in 1 .. k - 1 |-> file[j]]
<1>1. n \in Nat /\ file = [k \in 1 .. n |-> file[k]]
  BY DEF SoundFile, IsList
<1> DEFINE V == {file[k] : k \in 1 .. n}
<1>2. file \in Seq(V)
  <2>1. \A k \in 1 .. n : file[k] \in V
    OBVIOUS
  <2> HIDE DEF V
  <2>2. \A k \in 1 .. Len(file) : file[k] \in V
    BY <2>1
  <2>3. IsList(file)
    BY DEF SoundFile
  <2> QED
    BY <2>2, <2>3, ListIn
<1> HIDE DEF V
<1>3. ASSUME NEW k \in 1 .. n + 1 PROVE Before(k) = [j \in 1 .. k - 1 |-> file[j]]
  <2> DEFINE b == SubSeq(file, 1, k - 1)
  <2>1. k - 1 \in 0 .. n /\ k - 1 \in Nat /\ k - 1 \in 0 .. Len(file)
    BY <1>1
  <2>2. /\ b \in Seq(V) /\ Len(b) = k - 1
        /\ \A j \in 1 .. k - 1 : b[j] = file[j]
    BY <1>2, <2>1
  <2> HIDE DEF b
  <2>3. DOMAIN b = 1 .. k - 1 /\ b = [j \in DOMAIN b |-> b[j]]
    BY <2>2
  <2>4. b = [j \in 1 .. k - 1 |-> file[j]]
    BY <2>2, <2>3
  <2> QED
    BY <2>4 DEF Before, b
<1>4. Before(n + 1) = file
  <2>1. n + 1 \in 1 .. n + 1 /\ (n + 1) - 1 = n
    BY <1>1
  <2> QED
    BY <1>1, <1>3, <2>1
<1> QED
  BY <1>1, <1>3, <1>4

LEMMA WidthIs ==
  ASSUME NEW src, IsModule(src)
  PROVE  /\ IsList(Written(src)) /\ Len(Written(src)) = Width(src)
         /\ IsList(Roles(src)) /\ Len(Roles(src)) = Width(src)
         /\ Width(src) \in Nat \ {0}
<1>1. IsList(Written(src)) /\ WordsAre(Written(src), src)
  BY WrittenIs
<1>2. IsList(Roles(src)) /\ RolesAre(Roles(src), src)
  BY RolesAreIs
<1>3. Len(Written(src)) = Width(src)
  BY <1>1 DEF WordsAre, Shape, Width
<1>4. Len(Roles(src)) = Width(src)
  BY <1>2 DEF RolesAre, Shape, Width
<1>5. Width(src) \in Nat \ {0}
  BY ModuleFacts
<1> QED
  BY <1>1, <1>2, <1>3, <1>4, <1>5

LEMMA TheLayout ==
  ASSUME SoundFile, NEW n, n = Len(file)
  PROVE  Laid(n) /\ Filled(n)
<1>1. /\ n \in Nat /\ DOMAIN file = 1 .. n
      /\ Before(n + 1) = file
      /\ \A k \in 1 .. n + 1 : Before(k) = [j \in 1 .. k - 1 |-> file[j]]
  BY FileIs
<1> DEFINE F == [k \in 1 .. n |-> Written(file[k])]
           G == [k \in 1 .. n |-> Roles(file[k])]
<1>2. ASSUME NEW k \in 1 .. n
      PROVE  /\ F[k] = Written(file[k]) /\ G[k] = Roles(file[k])
             /\ IsList(F[k]) /\ IsList(G[k])
             /\ Len(F[k]) = Width(file[k]) /\ Len(G[k]) = Width(file[k])
             /\ Width(file[k]) \in Nat \ {0}
  <2>1. IsModule(file[k])
    BY DEF SoundFile
  <2>2. F[k] = Written(file[k]) /\ G[k] = Roles(file[k])
    OBVIOUS
  <2> HIDE DEF F, G
  <2> QED
    BY <2>1, <2>2, WidthIs
<1>3. \A m \in 0 .. n : [j \in 1 .. m |-> F[j]] = [j \in 1 .. m |-> Written(file[j])]
  BY <1>1
<1>4. [j \in 1 .. n |-> G[j]] = [j \in DOMAIN file |-> Roles(file[j])]
  BY <1>1
<1> HIDE DEF F, G
<1>5. PICK V : \A k \in 1 .. n : F[k] \in Seq(V)
  <2>1. Listed(F, n)
    BY <1>2 DEF Listed
  <2> QED
    BY <1>1, <2>1, InOneSet
<1>6. PICK W : \A k \in 1 .. n : G[k] \in Seq(W)
  <2>1. Listed(G, n)
    BY <1>2 DEF Listed
  <2> QED
    BY <1>1, <2>1, InOneSet
<1>7. PICK h : Joins(h, F, n, V)
  BY <1>1, <1>5, JoinExists
<1>8. PICK g : Joins(g, G, n, W)
  BY <1>1, <1>6, JoinExists
<1>9. ASSUME NEW k \in 1 .. n + 1 PROVE Tokens(Before(k)) = h[k - 1]
  <2>1. k - 1 \in 0 .. n
    BY <1>1
  <2>2. Before(k) = [j \in 1 .. k - 1 |-> file[j]]
    BY <1>1
  <2>3. [j \in DOMAIN Before(k) |-> Written(Before(k)[j])] = [j \in 1 .. k - 1 |-> Written(file[j])]
    BY <2>2
  <2>4. Tokens(Before(k)) = FlattenSeq([j \in 1 .. k - 1 |-> F[j]])
    BY <1>3, <2>1, <2>3 DEF Tokens
  <2>5. PICK m \in 0 .. n : m = k - 1
    BY <2>1
  <2>6. FlattenSeq([j \in 1 .. m |-> F[j]]) = h[m]
    <3>1. n \in Nat
      BY <1>1
    <3>2. Flat(F, m) = h[m]
      BY <1>7, <3>1, FlatJoins
    <3> QED
      BY <3>2 DEF Flat
  <2> QED
    BY <2>4, <2>5, <2>6
<1>10. Spelling = h[n]
  <2>1. n + 1 \in 1 .. n + 1 /\ (n + 1) - 1 = n
    BY <1>1
  <2> QED
    BY <1>1, <1>9, <2>1 DEF Spelling
<1>11. Meant = g[n]
  <2>1. n \in 0 .. n
    BY <1>1
  <2>2. FlattenSeq([j \in 1 .. n |-> G[j]]) = g[n]
    <3>1. n \in Nat
      BY <1>1
    <3>2. Flat(G, n) = g[n]
      BY <1>8, <2>1, <3>1, FlatJoins
    <3> QED
      BY <3>2 DEF Flat
  <2> QED
    BY <1>4, <2>2 DEF Meant
<1>12. JoinPlaces(h, F, n) /\ JoinPlaces(g, G, n)
  BY <1>1, <1>7, <1>8, JoinedAt
<1>13. /\ h[0] = <<>>
       /\ \A k \in 0 .. n : Len(h[k]) \in Nat /\ Len(g[k]) = Len(h[k])
       /\ h[n] \in Seq(V) /\ g[n] \in Seq(W)
  <2>1. \A k \in 0 .. n : Len(h[k]) = Len(g[k])
    BY <1>1, <1>2, <1>7, <1>8, JoinedAlike
  <2>2. h[0] = <<>> /\ \A k \in 0 .. n : h[k] \in Seq(V) /\ g[k] \in Seq(W)
    BY <1>7, <1>8 DEF Joins
  <2>3. n \in 0 .. n
    BY <1>1
  <2> QED
    BY <2>1, <2>2, <2>3, LenProperties
<1>14. \A k \in 1 .. n + 1 : Begin(k) = 1 + Len(h[k - 1])
  BY <1>9 DEF Begin
<1>15. Laid(n)
  <2>1. Begin(1) = 1
    <3>1. 1 \in 1 .. n + 1 /\ 1 - 1 = 0 /\ Len(<<>>) = 0
      BY <1>1
    <3> QED
      BY <1>13, <1>14, <3>1
  <2>2. \A k \in 1 .. n + 1 : Begin(k) \in Nat \ {0}
    <3>1. \A k \in 1 .. n + 1 : k - 1 \in 0 .. n
      BY <1>1
    <3> QED
      BY <1>13, <1>14, <3>1
  <2>3. ASSUME NEW k \in 1 .. n PROVE Begin(k + 1) = Begin(k) + Width(file[k])
    <3>1. k \in 1 .. n + 1 /\ k + 1 \in 1 .. n + 1 /\ (k + 1) - 1 = k /\ k - 1 \in 0 .. n
      BY <1>1
    <3>2. Begin(k) = 1 + Len(h[k - 1]) /\ Begin(k + 1) = 1 + Len(h[k])
      BY <1>14, <3>1
    <3>3. Len(h[k]) = Len(h[k - 1]) + Len(F[k])
      BY <1>12 DEF JoinPlaces
    <3>4. Len(h[k - 1]) \in Nat /\ Len(F[k]) \in Nat /\ Len(F[k]) = Width(file[k])
      BY <1>2, <1>13, <3>1
    <3> QED
      BY <3>2, <3>3, <3>4
  <2>4. ASSUME NEW k \in 1 .. n + 1, NEW l \in k .. n + 1 PROVE Begin(k) <= Begin(l)
    <3>1. k - 1 \in 0 .. n /\ l - 1 \in (k - 1) .. n /\ l - 1 \in 0 .. n /\ l \in 1 .. n + 1
      BY <1>1
    <3>2. Len(h[k - 1]) <= Len(h[l - 1])
      BY <1>12, <3>1 DEF JoinPlaces
    <3> QED
      BY <1>13, <1>14, <3>1, <3>2
  <2>5. Begin(n + 1) = Len(Spelling) + 1
    <3>1. n + 1 \in 1 .. n + 1 /\ (n + 1) - 1 = n /\ n \in 0 .. n
      BY <1>1
    <3> QED
      BY <1>10, <1>13, <1>14, <3>1
  <2> QED
    BY <2>1, <2>2, <2>3, <2>4, <2>5 DEF Laid
<1>16. IsList(Spelling) /\ DOMAIN Meant = 1 .. Len(Spelling)
  <2>1. Spelling \in Seq(V) /\ Meant \in Seq(W) /\ Len(Meant) = Len(Spelling)
    <3>1. n \in 0 .. n
      BY <1>1
    <3> QED
      BY <1>10, <1>11, <1>13, <3>1
  <2> QED
    BY <2>1, LenProperties DEF IsList
<1>17. ASSUME NEW k \in 1 .. n, NEW j \in 1 .. Width(file[k])
       PROVE  /\ Begin(k) - 1 + j \in 1 .. Len(Spelling)
              /\ Spelling[Begin(k) - 1 + j] = Written(file[k])[j]
              /\ Meant[Begin(k) - 1 + j] = Roles(file[k])[j]
  <2>1. k \in 1 .. n + 1 /\ k \in 0 .. n /\ k - 1 \in 0 .. n /\ n \in k .. n
    BY <1>1
  <2> DEFINE b == Len(h[k - 1])
             w == Width(file[k])
  <2>2. Begin(k) = 1 + b /\ b \in Nat /\ w \in Nat /\ j \in 1 .. w
    BY <1>2, <1>13, <1>14, <2>1
  <2>3. Len(g[k - 1]) = b /\ Len(F[k]) = w /\ Len(G[k]) = w
    BY <1>2, <1>13, <2>1
  <2>4. Len(h[k]) = b + w /\ Len(g[k]) = b + w
    <3>1. Len(h[k]) = b + Len(F[k])
      BY <1>12 DEF JoinPlaces
    <3>2. Len(g[k]) = Len(h[k])
      BY <1>13, <2>1
    <3> QED
      BY <2>3, <3>1, <3>2
  <2>5. Len(h[k]) <= Len(h[n]) /\ Len(h[n]) \in Nat
    <3>1. n \in 0 .. n
      BY <1>1
    <3> QED
      BY <1>12, <1>13, <2>1, <3>1 DEF JoinPlaces
  <2> DEFINE m == Len(h[n])
  <2> HIDE DEF b, w, m
  <2>6. Begin(k) - 1 + j = b + j
    BY <2>2
  <2>7. b + j \in 1 .. b + w /\ b + j \in 1 .. m
    BY <2>2, <2>4, <2>5 DEF m
  <2>8. h[k][b + j] = F[k][j] /\ g[k][b + j] = G[k][j]
    <3>1. h[k][Len(h[k - 1]) + j] = F[k][j]
      BY <1>12, <2>2, <2>3 DEF JoinPlaces
    <3>2. g[k][Len(g[k - 1]) + j] = G[k][j]
      BY <1>12, <2>2, <2>3 DEF JoinPlaces
    <3> QED
      BY <2>3, <3>1, <3>2 DEF b
  <2>9. h[n][b + j] = h[k][b + j] /\ g[n][b + j] = g[k][b + j]
    <3>1. b + j \in 1 .. Len(h[k]) /\ b + j \in 1 .. Len(g[k])
      BY <2>4, <2>7
    <3>2. /\ \A i \in 1 .. Len(h[k]) : h[n][i] = h[k][i]
          /\ \A i \in 1 .. Len(g[k]) : g[n][i] = g[k][i]
      BY <1>12, <2>1 DEF JoinPlaces
    <3> QED
      BY <3>1, <3>2
  <2> QED
    BY <1>2, <1>10, <1>11, <2>6, <2>7, <2>8, <2>9 DEF m
<1>18. Filled(n)
  BY <1>16, <1>17 DEF Filled
<1> QED
  BY <1>15, <1>18

-----------------------------------------------------------------------------
\* The tokens there are: as written, replaced, or missing at the end.
InputLike(s) ==
  /\ Len(stream) \in Nat /\ Len(stream) <= Len(s)
  /\ \A p \in 1 .. Len(stream) : stream[p] \in {s[p], BAD, LONG}

LEMMA InputIs ==
  ASSUME NEW s, IsList(s), stream \in Damaged(s)
  PROVE  InputLike(s)
<1> DEFINE m == Len(s)
           V == {s[k] : k \in 1 .. m}
<1>1. m \in Nat /\ s \in Seq(V)
  <2>1. \A k \in 1 .. Len(s) : s[k] \in V
    OBVIOUS
  <2>2. m \in Nat
    BY DEF IsList
  <2> HIDE DEF V
  <2> QED
    BY <2>1, <2>2, ListIn
<1> HIDE DEF V
<1>2. DOMAIN s = 1 .. m
  BY <1>1
<1>3. CASE stream = s
  BY <1>1, <1>3 DEF InputLike
<1>4. CASE stream \in {SubSeq(s, 1, k - 1) : k \in DOMAIN s}
  <2>1. PICK k \in 1 .. m : stream = SubSeq(s, 1, k - 1)
    BY <1>2, <1>4
  <2>2. k - 1 \in 0 .. m /\ k - 1 \in Nat
    BY <1>1
  <2>3. /\ Len(stream) = k - 1
        /\ \A p \in 1 .. k - 1 : stream[p] = s[p]
    BY <1>1, <2>1, <2>2
  <2> QED
    BY <1>1, <2>2, <2>3 DEF InputLike
<1>5. CASE stream \in {[s EXCEPT ![k] = t] : k \in DOMAIN s, t \in {BAD, LONG}}
  <2>1. PICK k \in 1 .. m, t \in {BAD, LONG} : stream = [s EXCEPT ![k] = t]
    BY <1>2, <1>5
  <2> DEFINE W == V \cup {BAD, LONG}
  <2>2. s \in Seq(W)
    BY <1>1
  <2>3. t \in W
    OBVIOUS
  <2> HIDE DEF W
  <2>4. stream \in Seq(W) /\ Len(stream) = m
    BY <1>2, <2>1, <2>2, <2>3
  <2>5. \A p \in 1 .. m : stream[p] = IF p = k THEN t ELSE s[p]
    BY <1>2, <2>1
  <2> QED
    BY <1>1, <2>4, <2>5 DEF InputLike
<1> QED
  BY <1>3, <1>4, <1>5 DEF Damaged

Word(k, j) == Written(file[k])[j]
Role(k, j) == Roles(file[k])[j]

\* The limit that the token at place j of module k exceeds.
Limit(k, j, what) ==
  LET d == Len(file[k].defs)
      u == Len(file[k].uses)
  IN  \/ j = 1 /\ what = "TOO_MANY_DEF_IN_MODULE" /\ d > MAX_DEFS
      \/ j = 2 * d + 2 /\ what = "TOO_MANY_USE_IN_MODULE" /\ u > MAX_USES
      \/ j = 2 * d + u + 3 /\ what = "TOO_MANY_INSTR" /\ Size(k) > MAX_WORDS

LEMMA Apart ==
  ASSUME SoundFile, NEW n, n = Len(file),
         NEW k \in 1 .. n, NEW l \in 1 .. n,
         NEW i \in 1 .. Width(file[k]), NEW j \in 1 .. Width(file[l]),
         Begin(k) - 1 + i = Begin(l) - 1 + j
  PROVE  k = l /\ i = j
<1>1. Laid(n) /\ n \in Nat
  BY TheLayout, FileIs
<1>2. ASSUME NEW a \in 1 .. n, NEW b \in 1 .. n, a < b, NEW f \in 1 .. Width(file[a]),
             NEW g \in 1 .. Width(file[b])
      PROVE  Begin(a) - 1 + f < Begin(b) - 1 + g
  <2>1. a \in 1 .. n + 1 /\ b \in 1 .. n + 1 /\ a + 1 \in 1 .. n + 1 /\ b \in a + 1 .. n + 1
    BY <1>1, <1>2
  <2>2. Begin(a + 1) <= Begin(b) /\ Begin(a + 1) = Begin(a) + Width(file[a])
    BY <1>1, <2>1 DEF Laid
  <2>3. Begin(a) \in Nat /\ Begin(b) \in Nat /\ Begin(a + 1) \in Nat
    BY <1>1, <2>1 DEF Laid
  <2>4. Width(file[a]) \in Nat /\ Width(file[b]) \in Nat
    BY WidthIs DEF SoundFile
  <2> DEFINE x == Begin(a)
             y == Begin(b)
             v == Width(file[a])
             w == Width(file[b])
  <2>5. /\ x + v <= y /\ x \in Nat /\ y \in Nat /\ v \in Nat /\ w \in Nat
        /\ f \in 1 .. v /\ g \in 1 .. w
    BY <2>2, <2>3, <2>4
  <2> HIDE DEF x, y, v, w
  <2>6. x - 1 + f < y - 1 + g
    BY <2>5
  <2> QED
    BY <2>6 DEF x, y
<1>3. Begin(k) \in Nat /\ Begin(l) \in Nat
  <2>1. k \in 1 .. n + 1 /\ l \in 1 .. n + 1
    BY <1>1
  <2> QED
    BY <1>1, <2>1 DEF Laid
<1>4. Width(file[k]) \in Nat /\ Width(file[l]) \in Nat
  BY WidthIs DEF SoundFile
<1>5. ~ (Begin(k) - 1 + i < Begin(l) - 1 + j) /\ ~ (Begin(l) - 1 + j < Begin(k) - 1 + i)
  BY <1>3, <1>4
<1>6. k = l
  <2>1. ~ (k < l) /\ ~ (l < k)
    BY <1>2, <1>5
  <2> QED
    BY <1>1, <2>1
<1> QED
  BY <1>3, <1>4, <1>6

LEMMA BrokenIs ==
  ASSUME SoundFile, NEW n, n = Len(file), NEW k \in 1 .. n
  PROVE  /\ \A e \in Broken(k) : \E j \in 1 .. Width(file[k]) :
              e.at = Begin(k) - 1 + j /\ Limit(k, j, e.what)
         /\ \A j \in 1 .. Width(file[k]) : \A what :
              Limit(k, j, what) => [what |-> what, at |-> Begin(k) - 1 + j] \in Broken(k)
<1> DEFINE b == Begin(k)
           d == Len(file[k].defs)
           u == Len(file[k].uses)
           x == Len(file[k].text)
           w == Width(file[k])
<1>1. d \in Nat /\ u \in Nat /\ x \in Nat
  BY ModuleFacts DEF SoundFile
<1>2. b \in Nat
  <2>1. Laid(n) /\ n \in Nat
    BY TheLayout, FileIs
  <2>2. k \in 1 .. n + 1
    BY <2>1
  <2> QED
    BY <2>1, <2>2 DEF Laid
<1>3. w = 3 + 2 * d + u + 2 * x
  BY DEF Width
<1>4. Broken(k) =
        (IF d > MAX_DEFS THEN {[what |-> "TOO_MANY_DEF_IN_MODULE", at |-> b]} ELSE {})
        \cup (IF u > MAX_USES
              THEN {[what |-> "TOO_MANY_USE_IN_MODULE", at |-> b + 1 + 2 * d]} ELSE {})
        \cup (IF Size(k) > MAX_WORDS
              THEN {[what |-> "TOO_MANY_INSTR", at |-> b + 2 + 2 * d + u]} ELSE {})
  BY DEF Broken
<1>5. \A j, what : Limit(k, j, what) <=>
           \/ j = 1 /\ what = "TOO_MANY_DEF_IN_MODULE" /\ d > MAX_DEFS
           \/ j = 2 * d + 2 /\ what = "TOO_MANY_USE_IN_MODULE" /\ u > MAX_USES
           \/ j = 2 * d + u + 3 /\ what = "TOO_MANY_INSTR" /\ Size(k) > MAX_WORDS
  BY DEF Limit
<1> HIDE DEF b, d, u, x, w
<1>6. /\ 1 \in 1 .. w /\ 2 * d + 2 \in 1 .. w /\ 2 * d + u + 3 \in 1 .. w
      /\ b - 1 + 1 = b /\ b - 1 + (2 * d + 2) = b + 1 + 2 * d
      /\ b - 1 + (2 * d + u + 3) = b + 2 + 2 * d + u
  BY <1>1, <1>2, <1>3
<1>7. ASSUME NEW e \in Broken(k)
      PROVE  \E j \in 1 .. w : e.at = b - 1 + j /\ Limit(k, j, e.what)
  <2>1. \/ d > MAX_DEFS /\ e = [what |-> "TOO_MANY_DEF_IN_MODULE", at |-> b]
        \/ u > MAX_USES /\ e = [what |-> "TOO_MANY_USE_IN_MODULE", at |-> b + 1 + 2 * d]
        \/ Size(k) > MAX_WORDS /\ e = [what |-> "TOO_MANY_INSTR", at |-> b + 2 + 2 * d + u]
    BY <1>4
  <2>2. CASE d > MAX_DEFS /\ e = [what |-> "TOO_MANY_DEF_IN_MODULE", at |-> b]
    <3>1. Limit(k, 1, e.what) /\ e.at = b - 1 + 1
      BY <1>5, <1>6, <2>2
    <3> QED
      BY <1>6, <3>1
  <2>3. CASE u > MAX_USES /\ e = [what |-> "TOO_MANY_USE_IN_MODULE", at |-> b + 1 + 2 * d]
    <3>1. Limit(k, 2 * d + 2, e.what) /\ e.at = b - 1 + (2 * d + 2)
      BY <1>5, <1>6, <2>3
    <3> QED
      BY <1>6, <3>1
  <2>4. CASE Size(k) > MAX_WORDS /\ e = [what |-> "TOO_MANY_INSTR", at |-> b + 2 + 2 * d + u]
    <3>1. Limit(k, 2 * d + u + 3, e.what) /\ e.at = b - 1 + (2 * d + u + 3)
      BY <1>5, <1>6, <2>4
    <3> QED
      BY <1>6, <3>1
  <2> QED
    BY <2>1, <2>2, <2>3, <2>4
<1>8. ASSUME NEW j \in 1 .. w, NEW what, Limit(k, j, what)
      PROVE  [what |-> what, at |-> b - 1 + j] \in Broken(k)
  <2>1. \/ j = 1 /\ what = "TOO_MANY_DEF_IN_MODULE" /\ d > MAX_DEFS
        \/ j = 2 * d + 2 /\ what = "TOO_MANY_USE_IN_MODULE" /\ u > MAX_USES
        \/ j = 2 * d + u + 3 /\ what = "TOO_MANY_INSTR" /\ Size(k) > MAX_WORDS
    BY <1>5, <1>8
  <2> QED
    BY <1>4, <1>6, <2>1
<1> QED
  BY <1>7, <1>8 DEF b, w

-----------------------------------------------------------------------------
\* What is read so far is sound.
CleanAt(p) == p <= Len(stream) /\ \A e \in Errors : e.at > p

Failed(what, p) == /\ [what |-> what, at |-> p] \in Errors
                   /\ \A e \in Errors : p <= e.at

\* The next token is at place j of module k.
Standing(k, j) ==
  /\ SoundFile /\ stream \in Damaged(Spelling)
  /\ k \in 1 .. Len(file) /\ j \in 1 .. Width(file[k])
  /\ taken = Begin(k) + j - 2 /\ CleanAt(taken)
  /\ Word(k, j).kind \in {"number", "letter", "name"}

Stands(k, j, p) ==
  /\ taken \in Nat /\ taken + 1 = p
  /\ p = Begin(k) - 1 + j
  /\ p \in 1 .. Len(Spelling) /\ p \in DOMAIN Meant
  /\ Spelling[p] = Word(k, j) /\ Meant[p] = Role(k, j)
  /\ token = TokenAt(p)
  /\ InputLike(Spelling) /\ DOMAIN file = 1 .. Len(file)
  /\ \/ token = Word(k, j) /\ p \notin Damages /\ p <= Len(stream)
     \/ token \in {BAD, LONG, NULL} /\ p \in Damages

LEMMA WhereItStands ==
  ASSUME NEW k, NEW j, Standing(k, j)
  PROVE  \E p : Stands(k, j, p)
<1> DEFINE n == Len(file)
           p == Begin(k) - 1 + j
<1>1. /\ SoundFile /\ stream \in Damaged(Spelling)
      /\ k \in 1 .. n /\ j \in 1 .. Width(file[k])
      /\ taken = Begin(k) + j - 2 /\ CleanAt(taken)
      /\ Word(k, j).kind \in {"number", "letter", "name"}
  BY DEF Standing
<1>2. n \in Nat /\ DOMAIN file = 1 .. n /\ Laid(n) /\ Filled(n)
  BY <1>1, FileIs, TheLayout
<1>3. InputLike(Spelling)
  BY <1>1, <1>2, InputIs DEF Filled
<1>4. p \in 1 .. Len(Spelling) /\ Spelling[p] = Word(k, j) /\ Meant[p] = Role(k, j)
  BY <1>1, <1>2 DEF Filled, Word, Role
<1>5. DOMAIN Meant = 1 .. Len(Spelling)
  BY <1>2 DEF Filled
<1>6. Begin(k) \in Nat \ {0} /\ j \in Nat \ {0}
  <2>1. k \in 1 .. n + 1
    BY <1>1, <1>2
  <2>2. Width(file[k]) \in Nat
    BY <1>1, WidthIs DEF SoundFile
  <2> QED
    BY <1>1, <1>2, <2>1, <2>2 DEF Laid
<1>7. taken \in Nat /\ taken + 1 = p
  BY <1>1, <1>6
<1> HIDE DEF p
<1> DEFINE m == Len(stream)
<1>8. m \in Nat /\ \A q \in 1 .. m : stream[q] \in {Spelling[q], BAD, LONG}
  BY <1>3 DEF InputLike
<1>9. p \in Nat \ {0}
  <2>1. taken \in Nat /\ p = taken + 1
    BY <1>7
  <2> QED
    BY <2>1
<1>10. token = IF p <= m THEN stream[p] ELSE NULL
  BY <1>7, <1>8 DEF token
<1>11. TokenAt(p) = IF p <= m THEN stream[p] ELSE NULL
  BY DEF TokenAt
<1>12. p \in Damages <=> TokenAt(p) # Word(k, j)
  BY <1>4, <1>5 DEF Damages, Spelling
<1> HIDE DEF m
<1>13. /\ Word(k, j) # NULL /\ Word(k, j) # BAD /\ Word(k, j) # LONG
  BY <1>1 DEF NULL, BAD, LONG
<1>14. \/ token = Word(k, j) /\ p \notin Damages /\ p <= m
       \/ token \in {BAD, LONG, NULL} /\ p \in Damages
  <2>1. CASE p <= m
    <3>1. p \in 1 .. m
      BY <1>8, <1>9, <2>1
    <3>2. stream[p] \in {Word(k, j), BAD, LONG}
      BY <1>4, <1>8, <3>1
    <3> QED
      BY <1>10, <1>11, <1>12, <1>13, <2>1, <3>2
  <2>2. CASE ~ (p <= m)
    BY <1>10, <1>11, <1>12, <1>13, <2>2
  <2> QED
    BY <2>1, <2>2
<1>15. p = Begin(k) - 1 + j /\ token = TokenAt(p) /\ p \in DOMAIN Meant
  BY <1>4, <1>5, <1>10, <1>11 DEF p
<1> QED
  BY <1>2, <1>3, <1>4, <1>7, <1>14, <1>15 DEF Stands, m

\* Where the errors are.
LEMMA ErrorIs ==
  ASSUME SoundFile, NEW e \in Errors
  PROVE  /\ e.at \in Nat
         /\ \/ e.at \in Damages
            \/ /\ e.at \notin Damages
               /\ \E l \in 1 .. Len(file) : \E i \in 1 .. Width(file[l]) :
                    e.at = Begin(l) - 1 + i /\ Limit(l, i, e.what)
<1> DEFINE n == Len(file)
<1>1. n \in Nat /\ DOMAIN file = 1 .. n /\ Laid(n) /\ Filled(n)
  BY FileIs, TheLayout
<1>2. DOMAIN Meant = 1 .. Len(Spelling) /\ Len(Spelling) \in Nat
  BY <1>1 DEF Filled, IsList
<1> DEFINE Wrong == {k \in Damages : TokenAt(k) # NULL \/ k # Len(stream) + 1
                                      \/ \A l \in DOMAIN file : k # Begin(l)}
<1>3. \/ e \in {[what |-> Complaint(Meant[k], TokenAt(k)), at |-> k] : k \in Wrong}
      \/ e \in UNION {Broken(k) : k \in DOMAIN file} /\ e.at \notin Damages
  BY DEF Errors
<1>4. CASE e \in {[what |-> Complaint(Meant[k], TokenAt(k)), at |-> k] : k \in Wrong}
  <2>1. PICK k \in Wrong : e = [what |-> Complaint(Meant[k], TokenAt(k)), at |-> k]
    BY <1>4
  <2>2. k \in Damages /\ e.at = k
    BY <2>1
  <2>3. k \in 1 .. Len(Spelling)
    BY <1>2, <2>2 DEF Damages
  <2> QED
    BY <1>2, <2>2, <2>3
<1>5. CASE e \in UNION {Broken(k) : k \in DOMAIN file} /\ e.at \notin Damages
  <2>1. PICK l \in 1 .. n : e \in Broken(l)
    BY <1>1, <1>5
  <2>2. PICK i \in 1 .. Width(file[l]) : e.at = Begin(l) - 1 + i /\ Limit(l, i, e.what)
    BY <2>1, BrokenIs
  <2>3. Begin(l) - 1 + i \in 1 .. Len(Spelling)
    BY <1>1 DEF Filled
  <2>4. e.at \in Nat
    BY <1>2, <2>2, <2>3
  <2> QED
    BY <1>5, <2>2, <2>4
<1> QED
  BY <1>3, <1>4, <1>5

\* A token that is taken, one that does not fit, one that says too much.
LEMMA Accepts ==
  ASSUME NEW k, NEW j, Standing(k, j), token = Word(k, j), \A what : ~ Limit(k, j, what)
  PROVE  CleanAt(taken + 1)
<1>1. PICK p : Stands(k, j, p)
  BY WhereItStands
<1>2. /\ SoundFile /\ k \in 1 .. Len(file) /\ j \in 1 .. Width(file[k])
      /\ \A e \in Errors : e.at > taken
      /\ Word(k, j).kind \in {"number", "letter", "name"}
  BY DEF Standing, CleanAt
<1>3. taken \in Nat /\ taken + 1 = p /\ p = Begin(k) - 1 + j
  BY <1>1 DEF Stands
<1>4. p \notin Damages /\ p <= Len(stream)
  <2>1. Word(k, j) # NULL /\ Word(k, j) # BAD /\ Word(k, j) # LONG
    BY <1>2 DEF NULL, BAD, LONG
  <2> QED
    BY <1>1, <2>1 DEF Stands
<1>5. ASSUME NEW e \in Errors PROVE e.at > p
  <2>1. e.at # p
    <3> SUFFICES ASSUME e.at = p PROVE FALSE
      OBVIOUS
    <3>1. PICK l \in 1 .. Len(file) : \E i \in 1 .. Width(file[l]) :
            e.at = Begin(l) - 1 + i /\ Limit(l, i, e.what)
      BY <1>2, <1>4, ErrorIs
    <3>2. PICK i \in 1 .. Width(file[l]) : e.at = Begin(l) - 1 + i /\ Limit(l, i, e.what)
      BY <3>1
    <3>3. k = l /\ j = i
      BY <1>2, <1>3, <3>2, Apart
    <3> QED
      BY <3>2, <3>3
  <2>2. e.at \in Nat /\ e.at > taken
    BY <1>2, ErrorIs
  <2> QED
    BY <1>3, <2>1, <2>2
<1> QED
  BY <1>3, <1>4, <1>5 DEF CleanAt

LEMMA NoneBefore ==
  ASSUME NEW k, NEW j, Standing(k, j)
  PROVE  \A e \in Errors : taken + 1 <= e.at
<1>1. SoundFile /\ \A e \in Errors : e.at > taken
  BY DEF Standing, CleanAt
<1>2. taken \in Nat
  BY WhereItStands DEF Stands
<1>3. \A e \in Errors : e.at \in Nat
  BY <1>1, ErrorIs
<1> QED
  BY <1>1, <1>2, <1>3

LEMMA Exceeds ==
  ASSUME NEW k, NEW j, Standing(k, j), token = Word(k, j), NEW what, Limit(k, j, what)
  PROVE  Failed(what, taken + 1)
<1>1. PICK p : Stands(k, j, p)
  BY WhereItStands
<1>2. /\ SoundFile /\ k \in 1 .. Len(file) /\ j \in 1 .. Width(file[k])
      /\ Word(k, j).kind \in {"number", "letter", "name"}
  BY DEF Standing
<1>3. taken + 1 = p /\ p = Begin(k) - 1 + j /\ DOMAIN file = 1 .. Len(file)
  BY <1>1 DEF Stands
<1>4. p \notin Damages
  <2>1. Word(k, j) # NULL /\ Word(k, j) # BAD /\ Word(k, j) # LONG
    BY <1>2 DEF NULL, BAD, LONG
  <2> QED
    BY <1>1, <2>1 DEF Stands
<1> DEFINE e == [what |-> what, at |-> p]
<1>5. e \in Broken(k) /\ e.at = p
  BY <1>2, <1>3, BrokenIs
<1> HIDE DEF e
<1>6. e \in UNION {Broken(l) : l \in DOMAIN file}
  BY <1>2, <1>3, <1>5
<1>7. e \in Errors
  BY <1>4, <1>5, <1>6 DEF Errors
<1>8. \A f \in Errors : taken + 1 <= f.at
  BY NoneBefore
<1> QED
  BY <1>3, <1>7, <1>8 DEF Failed, e

LEMMA Rejects ==
  ASSUME NEW k, NEW j, Standing(k, j), token # Word(k, j), j # 1 \/ token # NULL
  PROVE  /\ Failed(Complaint(Role(k, j), token), taken + 1)
         /\ token \in {BAD, LONG, NULL}
<1>1. PICK p : Stands(k, j, p)
  BY WhereItStands
<1>2. SoundFile /\ k \in 1 .. Len(file) /\ j \in 1 .. Width(file[k])
  BY DEF Standing
<1>3. /\ taken + 1 = p /\ p = Begin(k) - 1 + j /\ DOMAIN file = 1 .. Len(file)
      /\ token \in {BAD, LONG, NULL} /\ p \in Damages /\ token = TokenAt(p)
      /\ Meant[p] = Role(k, j)
  BY <1>1 DEF Stands
<1>4. TokenAt(p) # NULL \/ \A l \in DOMAIN file : p # Begin(l)
  <2> SUFFICES ASSUME j # 1, NEW l \in 1 .. Len(file), p = Begin(l) PROVE FALSE
    BY <1>3
  <2>1. 1 \in 1 .. Width(file[l]) /\ Begin(l) = Begin(l) - 1 + 1
    <3>1. Width(file[l]) \in Nat \ {0}
      BY <1>2, WidthIs DEF SoundFile
    <3>2. Len(file) \in Nat /\ Laid(Len(file))
      BY <1>2, FileIs, TheLayout
    <3>3. l \in 1 .. Len(file) + 1
      BY <3>2
    <3>4. Begin(l) \in Nat
      BY <3>2, <3>3 DEF Laid
    <3> QED
      BY <3>1, <3>4
  <2> QED
    BY <1>2, <1>3, <2>1, Apart
<1> DEFINE e == [what |-> Complaint(Meant[p], TokenAt(p)), at |-> p]
<1>5. e \in Errors
  <2> DEFINE Wrong == {q \in Damages : TokenAt(q) # NULL \/ q # Len(stream) + 1
                                        \/ \A l \in DOMAIN file : q # Begin(l)}
  <2>1. p \in Wrong
    BY <1>3, <1>4
  <2> HIDE DEF Wrong
  <2>2. e \in {[what |-> Complaint(Meant[q], TokenAt(q)), at |-> q] : q \in Wrong}
    BY <2>1
  <2> HIDE DEF e
  <2> QED
    BY <2>2 DEF Errors, Wrong
<1>6. \A f \in Errors : taken + 1 <= f.at
  BY NoneBefore
<1> QED
  BY <1>3, <1>5, <1>6 DEF Failed

-----------------------------------------------------------------------------
\* The words up to a module: one sum after the other.
Sums(h, n) == /\ h[0] = 0
              /\ \A k \in 0 .. n : h[k] \in Nat
              /\ \A k \in 1 .. n : h[k] = h[k - 1] + Len(file[k].text)

LEMMA SumsExist ==
  ASSUME SoundFile, NEW n \in Nat, n = Len(file)
  PROVE  \E h : Sums(h, n)
<1> DEFINE T == [k \in 0 .. n |-> Nat]
           f == [k \in 1 .. n |-> [s \in Nat |-> s + Len(file[k].text)]]
<1>1. \A k \in 1 .. n : k - 1 \in 0 .. n /\ k \in 0 .. n
  OBVIOUS
<1>2. \A k \in 0 .. n : T[k] = Nat
  OBVIOUS
<1>3. \A k \in 1 .. n : Len(file[k].text) \in Nat
  BY ModuleFacts DEF SoundFile
<1>4. \A k \in 1 .. n : \A s \in Nat : f[k][s] = s + Len(file[k].text)
  OBVIOUS
<1> HIDE DEF T, f
<1>5. ASSUME NEW k \in 1 .. n, NEW s \in T[k - 1] PROVE f[k][s] \in T[k]
  <2>1. T[k - 1] = Nat /\ T[k] = Nat
    BY <1>1, <1>2
  <2>2. s \in Nat /\ Len(file[k].text) \in Nat
    BY <1>3, <2>1
  <2> DEFINE x == Len(file[k].text)
  <2>3. f[k][s] = s + x
    BY <1>4, <2>2
  <2> HIDE DEF x
  <2>4. f[k][s] \in Nat
    BY <2>2, <2>3 DEF x
  <2> QED
    BY <2>1, <2>4
<1>6. 0 \in 0 .. n /\ 0 \in T[0]
  <2>1. 0 \in 0 .. n /\ 0 \in Nat
    OBVIOUS
  <2> QED
    BY <1>2, <2>1
<1>7. PICK h : Rounds(h, n, 0, f) /\ \A k \in 0 .. n : h[k] \in T[k]
  BY <1>5, <1>6, Iterates
<1>8. \A k \in 0 .. n : h[k] = IF k = 0 THEN 0 ELSE f[k][h[k - 1]]
  BY <1>7 DEF Rounds
<1>9. h[0] = 0 /\ \A k \in 0 .. n : h[k] \in Nat
  BY <1>2, <1>6, <1>7, <1>8
<1>10. ASSUME NEW k \in 1 .. n PROVE h[k] = h[k - 1] + Len(file[k].text)
  <2>1. k # 0 /\ k \in 0 .. n /\ k - 1 \in 0 .. n
    BY <1>1
  <2>2. h[k] = f[k][h[k - 1]] /\ h[k - 1] \in Nat
    BY <1>8, <1>9, <2>1
  <2> QED
    BY <1>4, <2>2
<1> QED
  BY <1>9, <1>10 DEF Sums

\* The recursive function of Size.
Sizes(k) == CHOOSE g : g = [n \in 0 .. k |-> IF n = 0 THEN 0 ELSE g[n - 1] + Len(file[n].text)]

LEMMA SizeOf ==
  ASSUME NEW k
  PROVE  Size(k) = Sizes(k)[k]
  BY DEF Size, Sizes

LEMMA SizeSums ==
  ASSUME SoundFile, NEW n \in Nat, n = Len(file), NEW h, Sums(h, n), NEW m \in 0 .. n
  PROVE  Size(m) = h[m]
<1> DEFINE p == Sizes(m)
           H(g) == [k \in 0 .. m |-> IF k = 0 THEN 0 ELSE g[k - 1] + Len(file[k].text)]
           r == [k \in 0 .. m |-> h[k]]
           Bad == {k \in 0 .. m : p[k] # h[k]}
<1>1. /\ h[0] = 0
      /\ \A k \in 0 .. n : h[k] \in Nat
      /\ \A k \in 1 .. n : h[k] = h[k - 1] + Len(file[k].text)
  BY DEF Sums
<1>2. \A k \in 0 .. m : k = 0 \/ (k \in 1 .. n /\ k - 1 \in 0 .. m /\ k - 1 < k)
  OBVIOUS
<1>3. p = H(p)
  <2>1. \A k \in 0 .. m : r[k] = IF k = 0 THEN 0 ELSE r[k - 1] + Len(file[k].text)
    <3> SUFFICES ASSUME NEW k \in 0 .. m
                 PROVE  r[k] = IF k = 0 THEN 0 ELSE r[k - 1] + Len(file[k].text)
      OBVIOUS
    <3>1. r[k] = h[k]
      OBVIOUS
    <3>2. k # 0 => r[k - 1] = h[k - 1]
      BY <1>2
    <3> HIDE DEF r
    <3> QED
      BY <1>1, <1>2, <3>1, <3>2
  <2>2. r = H(r)
    BY <2>1
  <2> HIDE DEF r
  <2>3. p = CHOOSE e : e = H(e)
    BY DEF Sizes
  <2> HIDE DEF p, H
  <2> QED
    BY <2>2, <2>3
<1> HIDE DEF p
<1>4. \A k \in 0 .. m : p[k] = IF k = 0 THEN 0 ELSE p[k - 1] + Len(file[k].text)
  BY <1>3
<1>5. Bad = {}
  <2> SUFFICES ASSUME Bad # {} PROVE FALSE
    OBVIOUS
  <2>1. PICK l \in Bad : \A k \in Bad : l <= k
    <3>1. Bad \in SUBSET Nat
      OBVIOUS
    <3> HIDE DEF Bad
    <3> QED
      BY <3>1, LeastNatural
  <2>2. l \in 0 .. m /\ p[l] # h[l]
    OBVIOUS
  <2>3. l # 0
    BY <1>1, <1>4, <2>2
  <2>4. l \in 1 .. n /\ l - 1 \in 0 .. m /\ l - 1 < l
    BY <1>2, <2>2, <2>3
  <2>5. p[l - 1] = h[l - 1]
    <3>1. l - 1 \notin Bad
      <4> HIDE DEF Bad
      <4> QED
        BY <2>1, <2>2, <2>4
    <3> QED
      BY <2>4, <3>1
  <2> QED
    BY <1>1, <1>4, <2>2, <2>3, <2>4, <2>5
<1>6. m \in 0 .. m
  OBVIOUS
<1>7. p[m] = h[m]
  BY <1>5, <1>6
<1>8. Size(m) = p[m]
  BY SizeOf DEF p
<1> QED
  BY <1>7, <1>8

LEMMA SizeIs ==
  ASSUME SoundFile, NEW n, n = Len(file)
  PROVE  /\ Size(0) = 0
         /\ \A k \in 0 .. n : Size(k) \in Nat
         /\ \A k \in 1 .. n : Size(k) = Size(k - 1) + Len(file[k].text)
<1>1. n \in Nat
  BY FileIs
<1>2. PICK h : Sums(h, n)
  BY <1>1, SumsExist
<1>3. \A m \in 0 .. n : Size(m) = h[m]
  BY <1>1, <1>2, SizeSums
<1>4. /\ h[0] = 0
      /\ \A k \in 0 .. n : h[k] \in Nat
      /\ \A k \in 1 .. n : h[k] = h[k - 1] + Len(file[k].text)
  BY <1>2 DEF Sums
<1>5. 0 \in 0 .. n /\ \A k \in 1 .. n : k \in 0 .. n /\ k - 1 \in 0 .. n
  BY <1>1
<1> QED
  BY <1>3, <1>4, <1>5

\* The tokens of a module in their places, and their roles.
Spelled(k) ==
  LET src == file[k]
      d == Len(src.defs)
      u == Len(src.uses)
      x == Len(src.text)
  IN  /\ Word(k, 1) = Number(d) /\ Role(k, 1) = "number"
      /\ \A l \in 1 .. d :
           /\ Word(k, 2 * l) = Name(src.defs[l][1]) /\ Role(k, 2 * l) = "definition"
           /\ Word(k, 2 * l + 1) = Number(src.defs[l][2]) /\ Role(k, 2 * l + 1) = "number"
      /\ Word(k, 2 * d + 2) = Number(u) /\ Role(k, 2 * d + 2) = "number"
      /\ \A l \in 1 .. u :
           Word(k, 2 * d + 2 + l) = Name(src.uses[l]) /\ Role(k, 2 * d + 2 + l) = "use"
      /\ Word(k, 2 * d + u + 3) = Number(x) /\ Role(k, 2 * d + u + 3) = "number"
      /\ \A l \in 1 .. x :
           /\ Word(k, 2 * d + u + 2 + 2 * l) = Letter(src.text[l][1])
           /\ Role(k, 2 * d + u + 2 + 2 * l) = "addressing"
           /\ Word(k, 2 * d + u + 3 + 2 * l) = Number(src.text[l][2])
           /\ Role(k, 2 * d + u + 3 + 2 * l) = "number"

LEMMA SpelledIs ==
  ASSUME SoundFile, NEW k \in 1 .. Len(file)
  PROVE  Spelled(k)
<1> DEFINE src == file[k]
           d == Len(src.defs)
           u == Len(src.uses)
           x == Len(src.text)
           s == Written(src)
           r == Roles(src)
<1>1. WordsAre(s, src) /\ RolesAre(r, src)
  BY WrittenIs, RolesAreIs DEF SoundFile
<1>2. /\ s[1] = Number(d)
      /\ \A l \in 1 .. d : s[2 * l] = DefWords(src)[l][1] /\ s[2 * l + 1] = DefWords(src)[l][2]
      /\ s[2 * d + 2] = Number(u)
      /\ \A l \in 1 .. u : s[2 * d + 2 + l] = UseWords(src)[l]
      /\ s[2 * d + u + 3] = Number(x)
      /\ \A l \in 1 .. x : /\ s[2 * d + u + 2 + 2 * l] = TextWords(src)[l][1]
                           /\ s[2 * d + u + 3 + 2 * l] = TextWords(src)[l][2]
  BY <1>1 DEF WordsAre, Shape
<1>3. /\ r[1] = "number"
      /\ \A l \in 1 .. d : r[2 * l] = DefRoles(src)[l][1] /\ r[2 * l + 1] = DefRoles(src)[l][2]
      /\ r[2 * d + 2] = "number"
      /\ \A l \in 1 .. u : r[2 * d + 2 + l] = UseRoles(src)[l]
      /\ r[2 * d + u + 3] = "number"
      /\ \A l \in 1 .. x : /\ r[2 * d + u + 2 + 2 * l] = TextRoles(src)[l][1]
                           /\ r[2 * d + u + 3 + 2 * l] = TextRoles(src)[l][2]
  BY <1>1 DEF RolesAre, Shape
<1>4. \A l \in 1 .. d : /\ DefWords(src)[l] = <<Name(src.defs[l][1]), Number(src.defs[l][2])>>
                        /\ DefRoles(src)[l] = <<"definition", "number">>
  BY DEF DefWords, DefRoles
<1>5. \A l \in 1 .. u : UseWords(src)[l] = Name(src.uses[l]) /\ UseRoles(src)[l] = "use"
  BY DEF UseWords, UseRoles
<1>6. \A l \in 1 .. x : /\ TextWords(src)[l] = <<Letter(src.text[l][1]), Number(src.text[l][2])>>
                        /\ TextRoles(src)[l] = <<"addressing", "number">>
  BY DEF TextWords, TextRoles
<1>7. \A j : Word(k, j) = s[j] /\ Role(k, j) = r[j]
  BY DEF Word, Role
<1>8. \A l \in 1 .. d : /\ s[2 * l] = Name(src.defs[l][1]) /\ s[2 * l + 1] = Number(src.defs[l][2])
                        /\ r[2 * l] = "definition" /\ r[2 * l + 1] = "number"
  <2> HIDE DEF src, d, u, x, s, r
  <2> QED
    BY <1>2, <1>3, <1>4
<1>9. \A l \in 1 .. u : s[2 * d + 2 + l] = Name(src.uses[l]) /\ r[2 * d + 2 + l] = "use"
  <2> HIDE DEF src, d, u, x, s, r
  <2> QED
    BY <1>2, <1>3, <1>5
<1>10. \A l \in 1 .. x : /\ s[2 * d + u + 2 + 2 * l] = Letter(src.text[l][1])
                         /\ s[2 * d + u + 3 + 2 * l] = Number(src.text[l][2])
                         /\ r[2 * d + u + 2 + 2 * l] = "addressing"
                         /\ r[2 * d + u + 3 + 2 * l] = "number"
  <2> HIDE DEF src, d, u, x, s, r
  <2> QED
    BY <1>2, <1>3, <1>6
<1> HIDE DEF src, d, u, x, s, r
<1>11. /\ Word(k, 1) = Number(d) /\ Role(k, 1) = "number"
       /\ Word(k, 2 * d + 2) = Number(u) /\ Role(k, 2 * d + 2) = "number"
       /\ Word(k, 2 * d + u + 3) = Number(x) /\ Role(k, 2 * d + u + 3) = "number"
  BY <1>2, <1>3, <1>7
<1>12. \A l \in 1 .. d :
         /\ Word(k, 2 * l) = Name(src.defs[l][1]) /\ Role(k, 2 * l) = "definition"
         /\ Word(k, 2 * l + 1) = Number(src.defs[l][2]) /\ Role(k, 2 * l + 1) = "number"
  BY <1>7, <1>8
<1>13. \A l \in 1 .. u :
         Word(k, 2 * d + 2 + l) = Name(src.uses[l]) /\ Role(k, 2 * d + 2 + l) = "use"
  BY <1>7, <1>9
<1>14. \A l \in 1 .. x :
         /\ Word(k, 2 * d + u + 2 + 2 * l) = Letter(src.text[l][1])
         /\ Role(k, 2 * d + u + 2 + 2 * l) = "addressing"
         /\ Word(k, 2 * d + u + 3 + 2 * l) = Number(src.text[l][2])
         /\ Role(k, 2 * d + u + 3 + 2 * l) = "number"
  BY <1>7, <1>10
<1> QED
  BY <1>11, <1>12, <1>13, <1>14 DEF Spelled, src, d, u, x

\* What a step does not change.
Static == UNCHANGED <<file, stream, ignore>>

LEMMA SameFile ==
  ASSUME Static
  PROVE  /\ Spelling' = Spelling /\ Damaged(Spelling)' = Damaged(Spelling) /\ SoundFile' = SoundFile
         /\ \A k : Begin(k)' = Begin(k) /\ Size(k)' = Size(k) /\ Before(k)' = Before(k)
         /\ \A s : Skipped(s)' = Skipped(s)
         /\ Meant' = Meant
         /\ \A k : TokenAt(k)' = TokenAt(k)
<1>1. Spelling' = Spelling /\ Damaged(Spelling)' = Damaged(Spelling)
  BY DEF Static, Spelling
<1>2. SoundFile' = SoundFile
  BY DEF Static, SoundFile
<1>3. ASSUME NEW k PROVE Before(k)' = Before(k)
  BY DEF Static, Before
<1>4. ASSUME NEW k PROVE Begin(k)' = Begin(k)
  BY <1>3 DEF Begin
<1>5. ASSUME NEW k PROVE Size(k)' = Size(k)
  BY DEF Static, Size
<1>6. ASSUME NEW s PROVE Skipped(s)' = Skipped(s)
  BY DEF Static, Skipped
<1>7. Meant' = Meant
  BY DEF Static, Meant
<1>8. ASSUME NEW k PROVE TokenAt(k)' = TokenAt(k)
  BY DEF Static, TokenAt
<1> QED
  BY <1>1, <1>2, <1>3, <1>4, <1>5, <1>6, <1>7, <1>8

LEMMA SameErrors ==
  ASSUME Static
  PROVE  Errors' = Errors
<1>1. Damages' = Damages
  BY SameFile DEF Static, Damages
<1>2. ASSUME NEW k PROVE Broken(k)' = Broken(k)
  BY SameFile DEF Static, Broken
<1>3. (UNION {Broken(k) : k \in DOMAIN file})' = UNION {Broken(k) : k \in DOMAIN file}
  BY <1>2 DEF Static
<1> QED
  BY <1>1, <1>3, SameFile DEF Static, Errors

-----------------------------------------------------------------------------
(* What is known while a file is read: how far it is, and that everything  *)
(* up to there was as it should be.                                        *)
Leading(s, l) == [j \in 1 .. l |-> s[j]]

\* The first l of a list of pairs, of the last only the first half.
Half(s, l) == Append(Leading(s, l - 1), <<s[l][1]>>)

NumDefs(k) == Len(file[k].defs)
NumUses(k) == Len(file[k].uses)
NumText(k) == Len(file[k].text)

Held(defs, uses, text) == [defs |-> defs, uses |-> uses, text |-> text]

DefsRead(k, l)   == IF ignore = "SYMBOLS" THEN <<>> ELSE Leading(file[k].defs, l)
DefHalf(k, l)    == IF ignore = "SYMBOLS" THEN <<>> ELSE Half(file[k].defs, l)
UsesRead(k, l)   == IF ignore = "USELIST" THEN <<>> ELSE Leading(file[k].uses, l)
TextRead(k, l)   == Leading(file[k].text, l)
TextHalf(k, l)   == Half(file[k].text, l)

AtModule(k) == expect = "module" /\ offset = Size(k - 1) /\ taken = Begin(k) - 1

AtSymbol(k, l) ==
  /\ l \in 1 .. NumDefs(k) /\ left = NumDefs(k) - l + 1 /\ offset = Size(k - 1)
  /\ taken = Begin(k) + 2 * l - 2
  /\ mod = Held(DefsRead(k, l - 1), <<>>, <<>>)

AtOffset(k, l) ==
  /\ l \in 1 .. NumDefs(k) /\ left = NumDefs(k) - l + 1 /\ offset = Size(k - 1)
  /\ taken = Begin(k) + 2 * l - 1
  /\ mod = Held(DefHalf(k, l), <<>>, <<>>)

AtUses(k) ==
  /\ offset = Size(k - 1) /\ taken = Begin(k) + 2 * NumDefs(k)
  /\ mod = Held(DefsRead(k, NumDefs(k)), <<>>, <<>>)

AtUse(k, l) ==
  /\ l \in 1 .. NumUses(k) /\ left = NumUses(k) - l + 1 /\ offset = Size(k - 1)
  /\ taken = Begin(k) + 2 * NumDefs(k) + l
  /\ mod = Held(DefsRead(k, NumDefs(k)), UsesRead(k, l - 1), <<>>)

AtText(k) ==
  /\ offset = Size(k - 1) /\ taken = Begin(k) + 2 * NumDefs(k) + NumUses(k) + 1
  /\ mod = Held(DefsRead(k, NumDefs(k)), UsesRead(k, NumUses(k)), <<>>)

AtAddressing(k, l) ==
  /\ l \in 1 .. NumText(k) /\ left = NumText(k) - l + 1 /\ offset = Size(k)
  /\ taken = Begin(k) + 2 * NumDefs(k) + NumUses(k) + 2 * l
  /\ mod = Held(DefsRead(k, NumDefs(k)), UsesRead(k, NumUses(k)), TextRead(k, l - 1))

AtInstruction(k, l) ==
  /\ l \in 1 .. NumText(k) /\ left = NumText(k) - l + 1 /\ offset = Size(k)
  /\ taken = Begin(k) + 2 * NumDefs(k) + NumUses(k) + 2 * l + 1
  /\ mod = Held(DefsRead(k, NumDefs(k)), UsesRead(k, NumUses(k)), TextHalf(k, l))

InModule(k) ==
  \/ expect = "symbol" /\ \E l : AtSymbol(k, l)
  \/ expect = "local_offset" /\ \E l : AtOffset(k, l)
  \/ expect = "uses" /\ AtUses(k)
  \/ expect = "use" /\ \E l : AtUse(k, l)
  \/ expect = "text" /\ AtText(k)
  \/ expect = "addressing" /\ \E l : AtAddressing(k, l)
  \/ expect = "instruction" /\ \E l : AtInstruction(k, l)

Delivered(k) == [j \in 1 .. k - 1 |-> Skipped(file[j])]

Reads(k) == /\ k \in 1 .. Len(file) + 1 /\ returned = Delivered(k)
            /\ AtModule(k) \/ (k \in 1 .. Len(file) /\ InModule(k))

Known == SoundFile /\ stream \in Damaged(Spelling)

ReadInv == /\ Known
           /\ expect \notin {"end", "exit"} => CleanAt(taken) /\ \E k : Reads(k)
           /\ ReadsWhatWasWritten

LEMMA LeadingIs ==
  ASSUME NEW s, NEW l \in Nat
  PROVE  /\ Leading(s, 0) = <<>> /\ Len(Leading(s, l)) = l
         /\ l # 0 => Append(Leading(s, l - 1), s[l]) = Leading(s, l)
<1> DEFINE V == {s[j] : j \in 1 .. l}
<1>1. \A j \in 1 .. l : s[j] \in V
  OBVIOUS
<1> HIDE DEF V
<1>2. Leading(s, 0) = <<>> /\ Len(Leading(s, l)) = l
  BY DEF Leading
<1>3. ASSUME l # 0 PROVE Append(Leading(s, l - 1), s[l]) = Leading(s, l)
  <2> DEFINE a == Leading(s, l - 1)
             e == s[l]
             q == Append(a, e)
  <2>1. a \in Seq(V) /\ Len(a) = l - 1 /\ e \in V /\ \A j \in 1 .. l - 1 : a[j] = s[j]
    BY <1>1, <1>3 DEF Leading
  <2> HIDE DEF a, e
  <2>2. /\ q \in Seq(V) /\ Len(q) = l
        /\ \A j \in 1 .. l : q[j] = IF j = l THEN e ELSE a[j]
    BY <1>3, <2>1
  <2> HIDE DEF q
  <2>3. q = [j \in 1 .. l |-> q[j]]
    BY <2>2
  <2>4. \A j \in 1 .. l : q[j] = s[j]
    BY <2>1, <2>2 DEF e
  <2>5. q = [j \in 1 .. l |-> s[j]]
    BY <2>3, <2>4
  <2> QED
    BY <2>5 DEF q, a, e, Leading
<1> QED
  BY <1>2, <1>3

\* The second half of a pair comes to the first.
LEMMA HalfIs ==
  ASSUME NEW s, NEW l \in Nat \ {0}, s[l] = <<s[l][1], s[l][2]>>, NEW h, h = Half(s, l),
         NEW b, b = s[l][2]
  PROVE  [h EXCEPT ![Len(h)] = Append(@, b)] = Leading(s, l)
<1> DEFINE p == Leading(s, l - 1)
           a == s[l][1]
           V == {s[j] : j \in 1 .. l} \cup {<<a>>}
<1>1. /\ p \in Seq(V) /\ Len(p) = l - 1 /\ <<a>> \in V
      /\ \A j \in 1 .. l - 1 : p[j] = s[j]
  BY DEF Leading
<1>2. s[l] = <<a, b>> /\ h = Append(p, <<a>>)
  BY DEF Half
<1> HIDE DEF p, a, V
<1>3. /\ h \in Seq(V) /\ Len(h) = l /\ h[l] = <<a>>
      /\ \A j \in 1 .. l - 1 : h[j] = p[j]
  BY <1>1, <1>2
<1>4. Append(<<a>>, b) = <<a, b>>
  <2> DEFINE W == {a, b}
             r == Append(<<a>>, b)
  <2>1. <<a>> \in Seq(W) /\ Len(<<a>>) = 1 /\ b \in W /\ <<a>>[1] = a
    OBVIOUS
  <2> HIDE DEF W
  <2>2. r \in Seq(W) /\ Len(r) = 2 /\ r[1] = a /\ r[2] = b
    BY <2>1
  <2> HIDE DEF r
  <2>3. <<a, b>> \in Seq(W) /\ Len(<<a, b>>) = 2 /\ <<a, b>>[1] = a /\ <<a, b>>[2] = b
    BY DEF W
  <2>4. r = <<a, b>>
    <3>1. \A j \in 1 .. 2 : j = 1 \/ j = 2
      OBVIOUS
    <3>2. PICK t \in Seq(W) : t = <<a, b>> /\ Len(t) = 2 /\ t[1] = a /\ t[2] = b
      BY <2>3
    <3>3. \A j \in 1 .. Len(r) : r[j] = t[j]
      BY <2>2, <3>1, <3>2
    <3> QED
      BY <2>2, <3>2, <3>3, SeqEqual
  <2> QED
    BY <2>4 DEF r
<1> DEFINE g == [h EXCEPT ![Len(h)] = Append(@, b)]
<1>5. g = [j \in 1 .. l |-> IF j = l THEN Append(h[l], b) ELSE h[j]]
  <2>1. DOMAIN h = 1 .. l
    BY <1>3
  <2> QED
    BY <1>3, <2>1
<1>6. \A j \in 1 .. l : (IF j = l THEN Append(h[l], b) ELSE h[j]) = s[j]
  <2> SUFFICES ASSUME NEW j \in 1 .. l
               PROVE  (IF j = l THEN Append(h[l], b) ELSE h[j]) = s[j]
    OBVIOUS
  <2>1. CASE j = l
    BY <1>2, <1>3, <1>4, <2>1
  <2>2. CASE j # l
    <3>1. j \in 1 .. l - 1
      BY <2>2
    <3> QED
      BY <1>1, <1>3, <2>2, <3>1
  <2> QED
    BY <2>1, <2>2
<1> HIDE DEF g
<1>7. g = [j \in 1 .. l |-> s[j]]
  BY <1>5, <1>6
<1> QED
  BY <1>7 DEF Leading, g

LEMMA SameModules ==
  ASSUME Static
  PROVE  \A k : /\ NumDefs(k)' = NumDefs(k) /\ NumUses(k)' = NumUses(k) /\ NumText(k)' = NumText(k)
                /\ Begin(k)' = Begin(k) /\ Size(k)' = Size(k) /\ Delivered(k)' = Delivered(k)
                /\ \A l : /\ DefsRead(k, l)' = DefsRead(k, l) /\ DefHalf(k, l)' = DefHalf(k, l)
                          /\ UsesRead(k, l)' = UsesRead(k, l)
                          /\ TextRead(k, l)' = TextRead(k, l) /\ TextHalf(k, l)' = TextHalf(k, l)
<1> SUFFICES ASSUME NEW k
             PROVE  /\ NumDefs(k)' = NumDefs(k) /\ NumUses(k)' = NumUses(k)
                    /\ NumText(k)' = NumText(k)
                    /\ Begin(k)' = Begin(k) /\ Size(k)' = Size(k)
                    /\ Delivered(k)' = Delivered(k)
                    /\ \A l : /\ DefsRead(k, l)' = DefsRead(k, l)
                              /\ DefHalf(k, l)' = DefHalf(k, l)
                              /\ UsesRead(k, l)' = UsesRead(k, l)
                              /\ TextRead(k, l)' = TextRead(k, l)
                              /\ TextHalf(k, l)' = TextHalf(k, l)
  OBVIOUS
<1>1. /\ NumDefs(k)' = NumDefs(k) /\ NumUses(k)' = NumUses(k) /\ NumText(k)' = NumText(k)
  BY DEF Static, NumDefs, NumUses, NumText
<1>2. Begin(k)' = Begin(k) /\ Size(k)' = Size(k)
  BY SameFile
<1>3. Delivered(k)' = Delivered(k)
  BY SameFile DEF Static, Delivered
<1>4. ASSUME NEW l PROVE DefsRead(k, l)' = DefsRead(k, l) /\ DefHalf(k, l)' = DefHalf(k, l)
  BY DEF Static, DefsRead, DefHalf
<1>5. ASSUME NEW l PROVE UsesRead(k, l)' = UsesRead(k, l)
  BY DEF Static, UsesRead
<1>6. ASSUME NEW l PROVE TextRead(k, l)' = TextRead(k, l) /\ TextHalf(k, l)' = TextHalf(k, l)
  BY DEF Static, TextRead, TextHalf
<1> QED
  BY <1>1, <1>2, <1>3, <1>4, <1>5, <1>6

LEMMA ModuleIs ==
  ASSUME Known, NEW k \in 1 .. Len(file)
  PROVE  /\ NumDefs(k) \in Nat /\ NumUses(k) \in Nat /\ NumText(k) \in Nat
         /\ Begin(k) \in Nat \ {0}
         /\ Width(file[k]) = 3 + 2 * NumDefs(k) + NumUses(k) + 2 * NumText(k)
         /\ Begin(k + 1) = Begin(k) + Width(file[k])
         /\ Size(k) \in Nat /\ Size(k - 1) \in Nat /\ Size(k) = Size(k - 1) + NumText(k)
         /\ Len(file) \in Nat /\ k \in Nat /\ k \in 1 .. Len(file) + 1
<1>1. SoundFile /\ IsModule(file[k])
  BY DEF Known, SoundFile
<1>2. Len(file) \in Nat /\ Laid(Len(file))
  BY <1>1, FileIs, TheLayout
<1>3. k \in 1 .. Len(file) + 1 /\ k \in 0 .. Len(file) /\ k - 1 \in 0 .. Len(file)
  BY <1>2
<1>4. NumDefs(k) \in Nat /\ NumUses(k) \in Nat /\ NumText(k) \in Nat
  BY <1>1, ModuleFacts DEF NumDefs, NumUses, NumText
<1>5. Begin(k) \in Nat \ {0} /\ Begin(k + 1) = Begin(k) + Width(file[k])
  BY <1>2, <1>3 DEF Laid
<1>6. Size(k) \in Nat /\ Size(k - 1) \in Nat /\ Size(k) = Size(k - 1) + NumText(k)
  BY <1>1, <1>3, SizeIs DEF NumText
<1>7. Width(file[k]) = 3 + 2 * NumDefs(k) + NumUses(k) + 2 * NumText(k)
  BY DEF Width, NumDefs, NumUses, NumText
<1> QED
  BY <1>2, <1>3, <1>4, <1>5, <1>6, <1>7

\* A step that takes a token, and one that ends the program.
LEMMA ThenReads ==
  ASSUME ReadInv, Static, taken' = taken + 1, CleanAt(taken + 1),
         expect' \notin {"end", "exit"}, NEW k, Reads(k)'
  PROVE  ReadInv'
<1>1. Known'
  BY SameFile DEF ReadInv, Known, Static
<1>2. CleanAt(taken)'
  BY SameErrors DEF CleanAt, Static
<1>3. ReadsWhatWasWritten'
  BY DEF ReadsWhatWasWritten
<1> QED
  BY <1>1, <1>2, <1>3 DEF ReadInv

LEMMA ThenFails ==
  ASSUME ReadInv, NEW what, __parseerror(what), Failed(what, taken + 1)
  PROVE  ReadInv'
<1>1. Static /\ expect' = "exit" /\ error' = [what |-> what, at |-> taken + 1]
  BY DEF __parseerror, Static
<1>2. Known'
  BY <1>1, SameFile DEF ReadInv, Known, Static
<1>3. Errors' = Errors
  BY <1>1, SameErrors
<1>4. ReadsWhatWasWritten'
  <2>1. error' \in Errors /\ \A e \in Errors : error'.at <= e.at
    BY <1>1 DEF Failed
  <2> QED
    BY <1>1, <1>3, <2>1 DEF ReadsWhatWasWritten
<1> QED
  BY <1>1, <1>2, <1>4 DEF ReadInv

-----------------------------------------------------------------------------
\* In front of place j of module k, where one of the three things happens.
LEMMA StandsAt ==
  ASSUME ReadInv, expect \notin {"end", "exit"}, NEW k \in 1 .. Len(file),
         NEW j \in 1 .. Width(file[k]), taken = Begin(k) + j - 2,
         Word(k, j).kind \in {"number", "letter", "name"}
  PROVE  Standing(k, j)
  BY DEF ReadInv, Known, Standing

\* A token that is read as it was written, and no limit.
Fits(k, j) == token = Word(k, j) /\ CleanAt(taken + 1)

\* What is expected of the token at place j of module k, and what is wrong.
Wrong(k, j) == /\ token \in {BAD, LONG, NULL}
               /\ Failed(Complaint(Role(k, j), token), taken + 1)

LEMMA FitsOrWrong ==
  ASSUME NEW k, NEW j, Standing(k, j), \A what : ~ Limit(k, j, what),
         j # 1 \/ token # NULL
  PROVE  Fits(k, j) \/ Wrong(k, j)
<1>1. CASE token = Word(k, j)
  BY <1>1, Accepts DEF Fits
<1>2. CASE token # Word(k, j)
  BY <1>2, Rejects DEF Wrong
<1> QED
  BY <1>1, <1>2

\* The kinds of the tokens that stand for damage.
LEMMA WrongKinds ==
  ASSUME token \in {BAD, LONG, NULL}
  PROVE  ~ is_valid_int /\ ~ is_valid_symbol_name /\ ~ is_valid_addressing
  BY DEF BAD, LONG, NULL, is_valid_int, is_valid_symbol_name, is_valid_addressing

LEMMA SymbolReads ==
  ASSUME ReadInv, Symbol
  PROVE  ReadInv'
<1>1. expect = "symbol" /\ expect \notin {"end", "exit"}
  BY DEF Symbol
<1>2. PICK k : Reads(k)
  BY <1>1 DEF ReadInv
<1>3. k \in 1 .. Len(file) /\ \E l : AtSymbol(k, l)
  BY <1>1, <1>2 DEF Reads, AtModule, InModule
<1>4. PICK l : AtSymbol(k, l)
  BY <1>3
<1> DEFINE b == Begin(k)
           d == NumDefs(k)
           u == NumUses(k)
           x == NumText(k)
           w == Width(file[k])
<1>5. d \in Nat /\ u \in Nat /\ x \in Nat /\ b \in Nat \ {0} /\ w = 3 + 2 * d + u + 2 * x
  BY <1>3, ModuleIs DEF ReadInv
<1>6. Spelled(k)
  BY <1>3, SpelledIs DEF ReadInv, Known
<1>7. /\ l \in 1 .. d /\ left = d - l + 1 /\ offset = Size(k - 1) /\ taken = b + 2 * l - 2
      /\ mod = Held(DefsRead(k, l - 1), <<>>, <<>>)
  BY <1>4 DEF AtSymbol
<1> DEFINE j == 2 * l
           name == file[k].defs[l][1]
<1>8. Word(k, j) = Name(name) /\ Role(k, j) = "definition"
  BY <1>6, <1>7 DEF Spelled, NumDefs
<1> HIDE DEF b, d, u, x, w, j, name
<1>9. j \in 1 .. w /\ taken = b + j - 2 /\ j # 1 /\ j # 2 * d + 2 /\ j # 2 * d + u + 3
  BY <1>5, <1>7 DEF j
<1>10. Word(k, j).kind \in {"number", "letter", "name"}
  BY <1>8 DEF Name
<1>11. Standing(k, j)
  BY <1>1, <1>3, <1>9, <1>10, StandsAt DEF b, w
<1>12. \A what : ~ Limit(k, j, what)
  BY <1>9 DEF Limit, NumDefs, NumUses, d, u
<1>13. Fits(k, j) \/ Wrong(k, j)
  BY <1>9, <1>11, <1>12, FitsOrWrong
<1>14. CASE Wrong(k, j)
  <2>1. ~ is_valid_symbol_name
    BY <1>14, WrongKinds DEF Wrong
  <2> DEFINE what == IF token = LONG THEN "SYM_TOLONG" ELSE "SYM_EXPECTED"
  <2>2. __parseerror(what)
    BY <2>1 DEF Symbol
  <2>3. Complaint(Role(k, j), token) = what
    BY <1>8 DEF Complaint
  <2>4. Failed(what, taken + 1)
    BY <1>14, <2>3 DEF Wrong
  <2> HIDE DEF what
  <2> QED
    BY <2>2, <2>4, ThenFails
<1>15. CASE Fits(k, j)
  <2>1. token = Name(name) /\ CleanAt(taken + 1)
    BY <1>8, <1>15 DEF Fits
  <2>2. is_valid_symbol_name /\ token.value = name
    BY <2>1 DEF is_valid_symbol_name, Name
  <2>3. /\ Take("local_offset", left)
        /\ mod' = IF ignore = "SYMBOLS" THEN mod ELSE [mod EXCEPT !.defs = Append(@, <<name>>)]
        /\ UNCHANGED <<returned, offset>>
    BY <2>2 DEF Symbol
  <2>4. Static /\ taken' = taken + 1 /\ expect' = "local_offset" /\ left' = left
    BY <2>3 DEF Take, Static
  <2>5. mod' = Held(DefHalf(k, l), <<>>, <<>>)
    <3>1. mod = Held(DefsRead(k, l - 1), <<>>, <<>>)
      BY <1>7
    <3> QED
      BY <2>3, <3>1 DEF Held, DefsRead, DefHalf, Half, name
  <2>6. AtOffset(k, l)'
    <3>1. /\ d' = d /\ b' = b /\ Size(k - 1)' = Size(k - 1) /\ DefHalf(k, l)' = DefHalf(k, l)
      BY <2>4, SameModules DEF d, b
    <3>2. l \in 1 .. d' /\ left' = d' - l + 1 /\ offset' = Size(k - 1)'
      BY <1>7, <2>3, <2>4, <3>1
    <3>3. taken' = b' + 2 * l - 1
      BY <1>5, <1>7, <2>4, <3>1
    <3> QED
      BY <2>5, <3>1, <3>2, <3>3 DEF AtOffset, d, b, Held
  <2>7. Reads(k)'
    <3>1. Delivered(k)' = Delivered(k) /\ file' = file /\ returned' = returned
      BY <2>3, <2>4, SameModules DEF Static
    <3> QED
      BY <1>2, <1>3, <2>4, <2>6, <3>1 DEF Reads, InModule
  <2> QED
    BY <2>1, <2>4, <2>7, ThenReads
<1> QED
  BY <1>13, <1>14, <1>15

\* Definitions and instructions are pairs; what is held of them.
LEMMA PairsIn ==
  ASSUME Known, NEW k \in 1 .. Len(file)
  PROVE  /\ \A l \in 1 .. NumDefs(k) :
              file[k].defs[l] = <<file[k].defs[l][1], file[k].defs[l][2]>>
         /\ \A l \in 1 .. NumText(k) :
              file[k].text[l] = <<file[k].text[l][1], file[k].text[l][2]>>
  BY DEF Known, SoundFile, IsModule, IsPairs, NumDefs, NumText

LEMMA DefComplete ==
  ASSUME Known, NEW k \in 1 .. Len(file), NEW l \in 1 .. NumDefs(k),
         mod = Held(DefHalf(k, l), <<>>, <<>>), NEW v, v = file[k].defs[l][2]
  PROVE  Held(DefsRead(k, l), <<>>, <<>>)
           = IF ignore = "SYMBOLS" THEN mod
             ELSE [mod EXCEPT !.defs = Completed(@, v)]
<1>1. CASE ignore = "SYMBOLS"
  BY <1>1 DEF DefsRead, DefHalf
<1>2. CASE ignore # "SYMBOLS"
  <2> DEFINE s == file[k].defs
             h == Half(s, l)
             g == Completed(h, v)
  <2>1. l \in Nat \ {0} /\ s[l] = <<s[l][1], s[l][2]>>
    <3>1. NumDefs(k) \in Nat
      BY ModuleIs
    <3>2. l \in Nat \ {0}
      BY <3>1
    <3> QED
      BY <3>2, PairsIn
  <2>2. g = Leading(s, l)
    <3> HIDE DEF s
    <3> QED
      BY <2>1, HalfIs DEF s, Completed
  <2>3. mod = Held(h, <<>>, <<>>)
    BY <1>2 DEF DefHalf
  <2> HIDE DEF h
  <2>4. [mod EXCEPT !.defs = Completed(@, v)] = Held(g, <<>>, <<>>)
    BY <2>3 DEF Held
  <2> QED
    BY <1>2, <2>2, <2>4 DEF DefsRead
<1> QED
  BY <1>1, <1>2

LEMMA TextComplete ==
  ASSUME Known, NEW k \in 1 .. Len(file), NEW l \in 1 .. NumText(k), NEW a, NEW c,
         mod = Held(a, c, TextHalf(k, l)), NEW v, v = file[k].text[l][2]
  PROVE  [mod EXCEPT !.text = Completed(@, v)] = Held(a, c, TextRead(k, l))
<1> DEFINE s == file[k].text
           h == Half(s, l)
           g == Completed(h, v)
<1>1. l \in Nat \ {0} /\ s[l] = <<s[l][1], s[l][2]>>
  <2>1. NumText(k) \in Nat
    BY ModuleIs
  <2>2. l \in Nat \ {0}
    BY <2>1
  <2> QED
    BY <2>2, PairsIn
<1>2. g = Leading(s, l)
  <2> HIDE DEF s
  <2> QED
    BY <1>1, HalfIs DEF s, Completed
<1>3. mod = Held(a, c, h)
  BY DEF TextHalf
<1> HIDE DEF h
<1>4. [mod EXCEPT !.text = Completed(@, v)] = Held(a, c, g)
  BY <1>3 DEF Held
<1> QED
  BY <1>2, <1>4 DEF TextRead

LEMMA SymbolOffsetReads ==
  ASSUME ReadInv, SymbolOffset
  PROVE  ReadInv'
<1>1. expect = "local_offset" /\ expect \notin {"end", "exit"}
  BY DEF SymbolOffset
<1>2. PICK k : Reads(k)
  BY <1>1 DEF ReadInv
<1>3. k \in 1 .. Len(file) /\ \E l : AtOffset(k, l)
  BY <1>1, <1>2 DEF Reads, AtModule, InModule
<1>4. PICK l : AtOffset(k, l)
  BY <1>3
<1> DEFINE b == Begin(k)
           d == NumDefs(k)
           u == NumUses(k)
           x == NumText(k)
           w == Width(file[k])
<1>5. d \in Nat /\ u \in Nat /\ x \in Nat /\ b \in Nat \ {0} /\ w = 3 + 2 * d + u + 2 * x
  BY <1>3, ModuleIs DEF ReadInv
<1>6. Spelled(k)
  BY <1>3, SpelledIs DEF ReadInv, Known
<1>7. /\ l \in 1 .. d /\ left = d - l + 1 /\ offset = Size(k - 1) /\ taken = b + 2 * l - 1
      /\ mod = Held(DefHalf(k, l), <<>>, <<>>)
  BY <1>4 DEF AtOffset
<1> DEFINE j == 2 * l + 1
           value == file[k].defs[l][2]
<1>8. Word(k, j) = Number(value) /\ Role(k, j) = "number"
  BY <1>6, <1>7 DEF Spelled, NumDefs
<1> HIDE DEF b, d, u, x, w, j
<1>9. j \in 1 .. w /\ taken = b + j - 2 /\ j # 1 /\ j # 2 * d + 2 /\ j # 2 * d + u + 3
  BY <1>5, <1>7 DEF j
<1>10. Word(k, j).kind \in {"number", "letter", "name"}
  BY <1>8 DEF Number
<1>11. Standing(k, j)
  BY <1>1, <1>3, <1>9, <1>10, StandsAt DEF b, w
<1>12. \A what : ~ Limit(k, j, what)
  BY <1>9 DEF Limit, NumDefs, NumUses, d, u
<1>13. Fits(k, j) \/ Wrong(k, j)
  BY <1>9, <1>11, <1>12, FitsOrWrong
<1>14. CASE Wrong(k, j)
  <2>1. ~ is_valid_int
    BY <1>14, WrongKinds DEF Wrong
  <2>2. __parseerror("NUM_EXPECTED")
    BY <2>1 DEF SymbolOffset
  <2>3. Complaint(Role(k, j), token) = "NUM_EXPECTED"
    BY <1>8 DEF Complaint
  <2>4. Failed("NUM_EXPECTED", taken + 1)
    BY <1>14, <2>3 DEF Wrong
  <2> QED
    BY <2>2, <2>4, ThenFails
<1>15. CASE Fits(k, j)
  <2>1. token = Number(value) /\ CleanAt(taken + 1)
    BY <1>8, <1>15 DEF Fits
  <2>2. is_valid_int /\ token.value = value
    BY <2>1 DEF is_valid_int, Number
  <2>3. /\ Take(After("symbol", "uses"), left - 1)
        /\ mod' = IF ignore = "SYMBOLS" THEN mod
                  ELSE [mod EXCEPT !.defs = Completed(@, value)]
        /\ UNCHANGED <<returned, offset>>
    BY <2>2 DEF SymbolOffset
  <2>4. /\ Static /\ taken' = taken + 1 /\ left' = left - 1
        /\ expect' = IF left = 1 THEN "uses" ELSE "symbol"
    BY <2>3 DEF Take, Static, After
  <2>5. mod' = Held(DefsRead(k, l), <<>>, <<>>)
    <3>1. l \in 1 .. NumDefs(k) /\ Known
      BY <1>7 DEF d, ReadInv
    <3>2. mod = Held(DefHalf(k, l), <<>>, <<>>)
      BY <1>7
    <3> QED
      BY <1>3, <2>3, <3>1, <3>2, DefComplete
  <2>6. /\ d' = d /\ b' = b /\ Size(k - 1)' = Size(k - 1)
        /\ \A m : DefsRead(k, m)' = DefsRead(k, m)
    BY <2>4, SameModules DEF d, b
  <2>7. (expect = "symbol" /\ \E m : AtSymbol(k, m)) ' \/ (expect = "uses" /\ AtUses(k))'
    <3>1. CASE l = d
      <4>1. left = 1 /\ expect' = "uses"
        BY <1>5, <1>7, <2>4, <3>1
      <4>2. taken' = b' + 2 * d'
        BY <1>5, <1>7, <2>4, <2>6, <3>1
      <4>3. mod' = Held(DefsRead(k, d)', <<>>, <<>>) /\ offset' = Size(k - 1)'
        BY <1>7, <2>3, <2>5, <2>6, <3>1
      <4>4. AtUses(k)'
        BY <2>6, <4>2, <4>3 DEF AtUses, d, b, Held
      <4> QED
        BY <4>1, <4>4
    <3>2. CASE l # d
      <4>1. left # 1 /\ expect' = "symbol"
        BY <1>5, <1>7, <2>4, <3>2
      <4>2. PICK m : m = l + 1
        OBVIOUS
      <4>3. m \in 1 .. d' /\ left' = d' - m + 1 /\ taken' = b' + 2 * m - 2 /\ m - 1 = l
        BY <1>5, <1>7, <2>4, <2>6, <3>2, <4>2
      <4>4. mod' = Held(DefsRead(k, m - 1)', <<>>, <<>>) /\ offset' = Size(k - 1)'
        BY <1>7, <2>3, <2>5, <2>6, <4>3
      <4>5. AtSymbol(k, m)'
        BY <4>3, <4>4 DEF AtSymbol, d, b, Held
      <4> QED
        BY <4>1, <4>5
    <3> QED
      BY <3>1, <3>2
  <2>8. expect' \notin {"end", "exit"}
    BY <2>4
  <2>9. Reads(k)'
    <3>1. Delivered(k)' = Delivered(k) /\ file' = file /\ returned' = returned
      BY <2>3, <2>4, SameModules DEF Static
    <3> QED
      BY <1>2, <1>3, <2>7, <3>1 DEF Reads, InModule
  <2> QED
    BY <2>1, <2>4, <2>8, <2>9, ThenReads
<1> QED
  BY <1>13, <1>14, <1>15

LEMMA UseReads ==
  ASSUME ReadInv, Use
  PROVE  ReadInv'
<1>1. expect = "use" /\ expect \notin {"end", "exit"}
  BY DEF Use
<1>2. PICK k : Reads(k)
  BY <1>1 DEF ReadInv
<1>3. k \in 1 .. Len(file) /\ \E l : AtUse(k, l)
  BY <1>1, <1>2 DEF Reads, AtModule, InModule
<1>4. PICK l : AtUse(k, l)
  BY <1>3
<1> DEFINE b == Begin(k)
           d == NumDefs(k)
           u == NumUses(k)
           x == NumText(k)
           w == Width(file[k])
<1>5. d \in Nat /\ u \in Nat /\ x \in Nat /\ b \in Nat \ {0} /\ w = 3 + 2 * d + u + 2 * x
  BY <1>3, ModuleIs DEF ReadInv
<1>6. Spelled(k)
  BY <1>3, SpelledIs DEF ReadInv, Known
<1>7. /\ l \in 1 .. u /\ left = u - l + 1 /\ offset = Size(k - 1) /\ taken = b + 2 * d + l
      /\ mod = Held(DefsRead(k, d), UsesRead(k, l - 1), <<>>)
  BY <1>4 DEF AtUse
<1> DEFINE j == 2 * d + 2 + l
           value == file[k].uses[l]
<1>8. Word(k, j) = Name(value) /\ Role(k, j) = "use"
  BY <1>6, <1>7 DEF Spelled, NumDefs, NumUses, NumText
<1> HIDE DEF b, d, u, x, w, j
<1>9. j \in 1 .. w /\ taken = b + j - 2 /\ j # 1 /\ j # 2 * d + 2 /\ j # 2 * d + u + 3
  BY <1>5, <1>7 DEF j
<1>10. Word(k, j).kind \in {"number", "letter", "name"}
  BY <1>8 DEF Name
<1>11. Standing(k, j)
  BY <1>1, <1>3, <1>9, <1>10, StandsAt DEF b, w
<1>12. \A what : ~ Limit(k, j, what)
  BY <1>9 DEF Limit, NumDefs, NumUses, d, u
<1>13. Fits(k, j) \/ Wrong(k, j)
  BY <1>9, <1>11, <1>12, FitsOrWrong
<1>14. CASE Wrong(k, j)
  <2>1. ~ is_valid_symbol_name
    BY <1>14, WrongKinds DEF Wrong
  <2>2. __parseerror("SYM_EXPECTED")
    BY <2>1 DEF Use
  <2>3. Complaint(Role(k, j), token) = "SYM_EXPECTED"
    BY <1>8 DEF Complaint
  <2>4. Failed("SYM_EXPECTED", taken + 1)
    BY <1>14, <2>3 DEF Wrong
  <2> QED
    BY <2>2, <2>4, ThenFails
<1>15. CASE Fits(k, j)
  <2>1. token = Name(value) /\ CleanAt(taken + 1)
    BY <1>8, <1>15 DEF Fits
  <2>2. is_valid_symbol_name /\ token.value = value
    BY <2>1 DEF is_valid_symbol_name, Name
  <2>3. /\ Take(After("use", "text"), left - 1)
        /\ mod' = IF ignore # "USELIST" THEN [mod EXCEPT !.uses = Append(@, value)] ELSE mod
        /\ UNCHANGED <<returned, offset>>
    BY <2>2 DEF Use, KeepsUses
  <2>4. /\ Static /\ taken' = taken + 1 /\ left' = left - 1
        /\ expect' = IF left = 1 THEN "text" ELSE "use"
    BY <2>3 DEF Take, Static, After
  <2>5. mod' = Held(DefsRead(k, d), UsesRead(k, l), <<>>)
    <3>1. mod = Held(DefsRead(k, d), UsesRead(k, l - 1), <<>>) /\ l \in Nat /\ l # 0
      BY <1>5, <1>7
    <3>2. CASE ignore = "USELIST"
      BY <2>3, <3>1, <3>2 DEF UsesRead
    <3>3. CASE ignore # "USELIST"
      <4> DEFINE s == file[k].uses
                 a == Leading(s, l - 1)
                 z == Leading(s, l)
      <4>1. Append(a, value) = z
        <5> HIDE DEF s
        <5> QED
          BY <3>1, LeadingIs DEF s
      <4>2. mod = Held(DefsRead(k, d), a, <<>>)
        BY <3>1, <3>3 DEF UsesRead
      <4> HIDE DEF a, value
      <4>3. mod' = Held(DefsRead(k, d), Append(a, value), <<>>)
        BY <2>3, <3>3, <4>2 DEF Held
      <4> QED
        BY <3>3, <4>1, <4>3 DEF UsesRead
    <3> QED
      BY <3>2, <3>3
  <2>6. /\ d' = d /\ u' = u /\ b' = b /\ Size(k - 1)' = Size(k - 1)
        /\ \A m : DefsRead(k, m)' = DefsRead(k, m) /\ UsesRead(k, m)' = UsesRead(k, m)
    BY <2>4, SameModules DEF d, u, b
  <2>7. (expect = "use" /\ \E m : AtUse(k, m))' \/ (expect = "text" /\ AtText(k))'
    <3>1. CASE l = u
      <4>1. left = 1 /\ expect' = "text"
        BY <1>5, <1>7, <2>4, <3>1
      <4>2. taken' = b' + 2 * d' + u' + 1
        BY <1>5, <1>7, <2>4, <2>6, <3>1
      <4>3. /\ mod' = Held(DefsRead(k, d)', UsesRead(k, u)', <<>>)
            /\ offset' = Size(k - 1)'
        BY <1>7, <2>3, <2>5, <2>6, <3>1
      <4>4. AtText(k)'
        BY <2>6, <4>2, <4>3 DEF AtText, d, u, b, Held
      <4> QED
        BY <4>1, <4>4
    <3>2. CASE l # u
      <4>1. left # 1 /\ expect' = "use"
        BY <1>5, <1>7, <2>4, <3>2
      <4>2. PICK m : m = l + 1
        OBVIOUS
      <4>3. m \in 1 .. u' /\ left' = u' - m + 1 /\ taken' = b' + 2 * d' + m /\ m - 1 = l
        BY <1>5, <1>7, <2>4, <2>6, <3>2, <4>2
      <4>4. /\ mod' = Held(DefsRead(k, d)', UsesRead(k, m - 1)', <<>>)
            /\ offset' = Size(k - 1)'
        BY <1>7, <2>3, <2>5, <2>6, <4>3
      <4>5. AtUse(k, m)'
        BY <2>6, <4>3, <4>4 DEF AtUse, d, u, b, Held
      <4> QED
        BY <4>1, <4>5
    <3> QED
      BY <3>1, <3>2
  <2>8. expect' \notin {"end", "exit"}
    BY <2>4
  <2>9. Reads(k)'
    <3>1. Delivered(k)' = Delivered(k) /\ file' = file /\ returned' = returned
      BY <2>3, <2>4, SameModules DEF Static
    <3> QED
      BY <1>2, <1>3, <2>7, <3>1 DEF Reads, InModule
  <2> QED
    BY <2>1, <2>4, <2>8, <2>9, ThenReads
<1> QED
  BY <1>13, <1>14, <1>15

LEMMA AddressingReads ==
  ASSUME ReadInv, Addressing
  PROVE  ReadInv'
<1>1. expect = "addressing" /\ expect \notin {"end", "exit"}
  BY DEF Addressing
<1>2. PICK k : Reads(k)
  BY <1>1 DEF ReadInv
<1>3. k \in 1 .. Len(file) /\ \E l : AtAddressing(k, l)
  BY <1>1, <1>2 DEF Reads, AtModule, InModule
<1>4. PICK l : AtAddressing(k, l)
  BY <1>3
<1> DEFINE b == Begin(k)
           d == NumDefs(k)
           u == NumUses(k)
           x == NumText(k)
           w == Width(file[k])
<1>5. d \in Nat /\ u \in Nat /\ x \in Nat /\ b \in Nat \ {0} /\ w = 3 + 2 * d + u + 2 * x
  BY <1>3, ModuleIs DEF ReadInv
<1>6. Spelled(k)
  BY <1>3, SpelledIs DEF ReadInv, Known
<1>7. /\ l \in 1 .. x /\ left = x - l + 1 /\ offset = Size(k) /\ taken = b + 2 * d + u + 2 * l
      /\ mod = Held(DefsRead(k, d), UsesRead(k, u), TextRead(k, l - 1))
  BY <1>4 DEF AtAddressing
<1> DEFINE j == 2 * d + u + 2 + 2 * l
           value == file[k].text[l][1]
<1>8. Word(k, j) = Letter(value) /\ Role(k, j) = "addressing"
  BY <1>6, <1>7 DEF Spelled, NumDefs, NumUses, NumText
<1> HIDE DEF b, d, u, x, w, j
<1>9. j \in 1 .. w /\ taken = b + j - 2 /\ j # 1 /\ j # 2 * d + 2 /\ j # 2 * d + u + 3
  BY <1>5, <1>7 DEF j
<1>10. Word(k, j).kind \in {"number", "letter", "name"}
  BY <1>8 DEF Letter
<1>11. Standing(k, j)
  BY <1>1, <1>3, <1>9, <1>10, StandsAt DEF b, w
<1>12. \A what : ~ Limit(k, j, what)
  BY <1>9 DEF Limit, NumDefs, NumUses, d, u
<1>13. Fits(k, j) \/ Wrong(k, j)
  BY <1>9, <1>11, <1>12, FitsOrWrong
<1>14. CASE Wrong(k, j)
  <2>1. ~ is_valid_addressing
    BY <1>14, WrongKinds DEF Wrong
  <2>2. __parseerror("ADDR_EXPECTED")
    BY <2>1 DEF Addressing
  <2>3. Complaint(Role(k, j), token) = "ADDR_EXPECTED"
    BY <1>8 DEF Complaint
  <2>4. Failed("ADDR_EXPECTED", taken + 1)
    BY <1>14, <2>3 DEF Wrong
  <2> QED
    BY <2>2, <2>4, ThenFails
<1>15. CASE Fits(k, j)
  <2>1. token = Letter(value) /\ CleanAt(taken + 1)
    BY <1>8, <1>15 DEF Fits
  <2>2. is_valid_addressing /\ token.value = value
    BY <2>1 DEF is_valid_addressing, Letter
  <2>3. /\ Take("instruction", left)
        /\ mod' = [mod EXCEPT !.text = Append(@, <<value>>)]
        /\ UNCHANGED <<returned, offset>>
    BY <2>2 DEF Addressing
  <2>4. Static /\ taken' = taken + 1 /\ left' = left /\ expect' = "instruction"
    BY <2>3 DEF Take, Static
  <2>5. mod' = Held(DefsRead(k, d), UsesRead(k, u), TextHalf(k, l))
    <3>1. mod = Held(DefsRead(k, d), UsesRead(k, u), TextRead(k, l - 1))
      BY <1>7
    <3> QED
      BY <2>3, <3>1 DEF Held, TextRead, TextHalf, Half
  <2>6. /\ d' = d /\ u' = u /\ x' = x /\ b' = b /\ Size(k)' = Size(k)
        /\ \A m : DefsRead(k, m)' = DefsRead(k, m) /\ UsesRead(k, m)' = UsesRead(k, m)
        /\ TextHalf(k, l)' = TextHalf(k, l)
    BY <2>4, SameModules DEF d, u, x, b
  <2>7. AtInstruction(k, l)'
    <3>1. l \in 1 .. x' /\ left' = x' - l + 1 /\ offset' = Size(k)'
      BY <1>7, <2>3, <2>4, <2>6
    <3>2. taken' = b' + 2 * d' + u' + 2 * l + 1
      BY <1>5, <1>7, <2>4, <2>6
    <3>3. mod' = Held(DefsRead(k, d)', UsesRead(k, u)', TextHalf(k, l)')
      BY <2>5, <2>6
    <3> QED
      BY <2>6, <3>1, <3>2, <3>3 DEF AtInstruction, d, u, x, b, Held
  <2>8. expect' \notin {"end", "exit"}
    BY <2>4
  <2>9. Reads(k)'
    <3>1. Delivered(k)' = Delivered(k) /\ file' = file /\ returned' = returned
      BY <2>3, <2>4, SameModules DEF Static
    <3> QED
      BY <1>2, <1>3, <2>4, <2>7, <3>1 DEF Reads, InModule
  <2> QED
    BY <2>1, <2>4, <2>8, <2>9, ThenReads
<1> QED
  BY <1>13, <1>14, <1>15

\* A module is complete.
LEMMA WholeModule ==
  ASSUME Known, NEW k \in 1 .. Len(file)
  PROVE  Held(DefsRead(k, NumDefs(k)), UsesRead(k, NumUses(k)), TextRead(k, NumText(k)))
           = Skipped(file[k])
<1> DEFINE src == file[k]
<1>1. /\ src = [defs |-> src.defs, uses |-> src.uses, text |-> src.text]
      /\ IsList(src.defs) /\ IsList(src.uses) /\ IsList(src.text)
  BY DEF Known, SoundFile, IsModule, IsPairs
<1>2. /\ Leading(src.defs, NumDefs(k)) = src.defs
      /\ Leading(src.uses, NumUses(k)) = src.uses
      /\ Leading(src.text, NumText(k)) = src.text
  BY <1>1 DEF IsList, Leading, NumDefs, NumUses, NumText
<1>3. /\ DefsRead(k, NumDefs(k)) = IF ignore = "SYMBOLS" THEN <<>> ELSE src.defs
      /\ UsesRead(k, NumUses(k)) = IF ignore = "USELIST" THEN <<>> ELSE src.uses
      /\ TextRead(k, NumText(k)) = src.text
  BY <1>2 DEF DefsRead, UsesRead, TextRead
<1> HIDE DEF src
<1>4. Skipped(src) = [defs |-> IF ignore = "SYMBOLS" THEN <<>> ELSE src.defs,
                      uses |-> IF ignore = "USELIST" THEN <<>> ELSE src.uses,
                      text |-> src.text]
  BY DEF Skipped
<1> QED
  BY <1>3, <1>4 DEF Held, src

LEMMA DeliversNext ==
  ASSUME Known, NEW k \in 1 .. Len(file), returned = Delivered(k)
  PROVE  Append(returned, Skipped(file[k])) = Delivered(k + 1)
<1>1. k \in Nat \ {0}
  BY ModuleIs
<1> DEFINE s == [j \in 1 .. k |-> Skipped(file[j])]
<1>2. s[k] = Skipped(file[k])
  BY <1>1
<1>3. Leading(s, k - 1) = Delivered(k)
  BY <1>1 DEF Leading, Delivered
<1>4. Leading(s, k) = Delivered(k + 1)
  BY <1>1 DEF Leading, Delivered
<1> HIDE DEF s
<1>5. Append(Leading(s, k - 1), s[k]) = Leading(s, k)
  BY <1>1, LeadingIs
<1> QED
  BY <1>2, <1>3, <1>4, <1>5

LEMMA InstructionReads ==
  ASSUME ReadInv, InstructionWord
  PROVE  ReadInv'
<1>1. expect = "instruction" /\ expect \notin {"end", "exit"}
  BY DEF InstructionWord
<1>2. PICK k : Reads(k)
  BY <1>1 DEF ReadInv
<1>3. k \in 1 .. Len(file) /\ \E l : AtInstruction(k, l)
  BY <1>1, <1>2 DEF Reads, AtModule, InModule
<1>4. PICK l : AtInstruction(k, l)
  BY <1>3
<1> DEFINE b == Begin(k)
           d == NumDefs(k)
           u == NumUses(k)
           x == NumText(k)
           w == Width(file[k])
<1>5. d \in Nat /\ u \in Nat /\ x \in Nat /\ b \in Nat \ {0} /\ w = 3 + 2 * d + u + 2 * x
  BY <1>3, ModuleIs DEF ReadInv
<1>6. Spelled(k)
  BY <1>3, SpelledIs DEF ReadInv, Known
<1>7. /\ l \in 1 .. x /\ left = x - l + 1 /\ offset = Size(k)
      /\ taken = b + 2 * d + u + 2 * l + 1
      /\ mod = Held(DefsRead(k, d), UsesRead(k, u), TextHalf(k, l))
  BY <1>4 DEF AtInstruction
<1> DEFINE j == 2 * d + u + 3 + 2 * l
           value == file[k].text[l][2]
<1>8. Word(k, j) = Number(value) /\ Role(k, j) = "number"
  BY <1>6, <1>7 DEF Spelled, NumDefs, NumUses, NumText
<1> HIDE DEF b, d, u, x, w, j
<1>9. j \in 1 .. w /\ taken = b + j - 2 /\ j # 1 /\ j # 2 * d + 2 /\ j # 2 * d + u + 3
  BY <1>5, <1>7 DEF j
<1>10. Word(k, j).kind \in {"number", "letter", "name"}
  BY <1>8 DEF Number
<1>11. Standing(k, j)
  BY <1>1, <1>3, <1>9, <1>10, StandsAt DEF b, w
<1>12. \A what : ~ Limit(k, j, what)
  BY <1>9 DEF Limit, NumDefs, NumUses, d, u
<1>13. Fits(k, j) \/ Wrong(k, j)
  BY <1>9, <1>11, <1>12, FitsOrWrong
<1>14. CASE Wrong(k, j)
  <2>1. ~ is_valid_int
    BY <1>14, WrongKinds DEF Wrong
  <2>2. __parseerror("NUM_EXPECTED")
    BY <2>1 DEF InstructionWord
  <2>3. Complaint(Role(k, j), token) = "NUM_EXPECTED"
    BY <1>8 DEF Complaint
  <2>4. Failed("NUM_EXPECTED", taken + 1)
    BY <1>14, <2>3 DEF Wrong
  <2> QED
    BY <2>2, <2>4, ThenFails
<1>15. CASE Fits(k, j)
  <2>1. token = Number(value) /\ CleanAt(taken + 1)
    BY <1>8, <1>15 DEF Fits
  <2>2. is_valid_int /\ token.value = value
    BY <2>1 DEF is_valid_int, Number
  <2> DEFINE z == [mod EXCEPT !.text = Completed(@, value)]
  <2>3. /\ Take(After("addressing", "module"), left - 1)
        /\ mod' = z /\ returned' = IF left = 1 THEN Append(returned, z) ELSE returned
        /\ offset' = offset
    BY <2>2 DEF InstructionWord
  <2>4. /\ Static /\ taken' = taken + 1 /\ left' = left - 1
        /\ expect' = IF left = 1 THEN "module" ELSE "addressing"
    BY <2>3 DEF Take, Static, After
  <2>5. z = Held(DefsRead(k, d), UsesRead(k, u), TextRead(k, l))
    <3>1. l \in 1 .. NumText(k) /\ Known
      BY <1>7 DEF x, ReadInv
    <3>2. mod = Held(DefsRead(k, d), UsesRead(k, u), TextHalf(k, l))
      BY <1>7
    <3> QED
      BY <1>3, <3>1, <3>2, TextComplete
  <2> HIDE DEF z
  <2>6. /\ d' = d /\ u' = u /\ x' = x /\ b' = b
        /\ Size(k)' = Size(k) /\ Size((k + 1) - 1)' = Size((k + 1) - 1)
        /\ Begin(k + 1)' = Begin(k + 1) /\ Delivered(k + 1)' = Delivered(k + 1)
        /\ Delivered(k)' = Delivered(k) /\ file' = file
        /\ \A m : /\ DefsRead(k, m)' = DefsRead(k, m) /\ UsesRead(k, m)' = UsesRead(k, m)
                  /\ TextRead(k, m)' = TextRead(k, m)
    BY <2>4, SameModules DEF d, u, x, b, Static
  <2>7. expect' \notin {"end", "exit"}
    BY <2>4
  <2>8. CASE l = x
    <3>1. left = 1 /\ expect' = "module"
      BY <1>5, <1>7, <2>4, <2>8
    <3>2. /\ Begin(k + 1) = b + w /\ (k + 1) - 1 = k /\ k + 1 \in 1 .. Len(file) + 1
          /\ k + 1 \in Nat
      BY <1>3, ModuleIs DEF ReadInv, b, w
    <3>3. taken' = Begin(k + 1)' - 1 /\ offset' = Size((k + 1) - 1)'
      BY <1>5, <1>7, <2>3, <2>4, <2>6, <2>8, <3>2
    <3>4. returned' = Delivered(k + 1)
      <4>1. z = Skipped(file[k])
        BY <1>3, <2>5, <2>8, WholeModule DEF ReadInv, d, u, x
      <4>2. returned = Delivered(k)
        BY <1>2 DEF Reads
      <4> QED
        BY <1>3, <2>3, <3>1, <4>1, <4>2, DeliversNext DEF ReadInv
    <3>5. PICK m : m = k + 1
      OBVIOUS
    <3>6. Reads(m)'
      BY <2>6, <3>1, <3>2, <3>3, <3>4, <3>5 DEF Reads, AtModule
    <3> QED
      BY <2>1, <2>4, <2>7, <3>6, ThenReads
  <2>9. CASE l # x
    <3>1. left # 1 /\ expect' = "addressing" /\ returned' = returned
      BY <1>5, <1>7, <2>3, <2>4, <2>9
    <3>2. PICK m : m = l + 1
      OBVIOUS
    <3>3. /\ m \in 1 .. x' /\ left' = x' - m + 1 /\ m - 1 = l
          /\ taken' = b' + 2 * d' + u' + 2 * m
      BY <1>5, <1>7, <2>4, <2>6, <2>9, <3>2
    <3>4. /\ mod' = Held(DefsRead(k, d)', UsesRead(k, u)', TextRead(k, m - 1)')
          /\ offset' = Size(k)'
      BY <1>7, <2>3, <2>5, <2>6, <3>3
    <3>5. AtAddressing(k, m)'
      BY <2>6, <3>3, <3>4 DEF AtAddressing, d, u, x, b, Held
    <3>6. Reads(k)'
      BY <1>2, <1>3, <2>6, <3>1, <3>5 DEF Reads, InModule
    <3> QED
      BY <2>1, <2>4, <2>7, <3>6, ThenReads
  <2> QED
    BY <2>8, <2>9
<1> QED
  BY <1>13, <1>14, <1>15

\* Of an empty list.
LEMMA NoneRead ==
  ASSUME NEW k
  PROVE  DefsRead(k, 0) = <<>> /\ UsesRead(k, 0) = <<>> /\ TextRead(k, 0) = <<>>
<1>1. \A s : Leading(s, 0) = <<>>
  BY LeadingIs
<1> QED
  BY <1>1 DEF DefsRead, UsesRead, TextRead

\* A module is only begun where there is one.
LEMMA ThereIsAModule ==
  ASSUME Known, CleanAt(taken), NEW k \in 1 .. Len(file) + 1, taken = Begin(k) - 1, token # NULL
  PROVE  k \in 1 .. Len(file)
<1>1. Len(file) \in Nat /\ Laid(Len(file)) /\ Filled(Len(file))
  BY FileIs, TheLayout DEF Known
<1>2. InputLike(Spelling)
  BY <1>1, InputIs DEF Known, Filled
<1>3. Len(stream) \in Nat /\ Len(stream) <= Len(Spelling) /\ Len(Spelling) \in Nat
  BY <1>1, <1>2 DEF InputLike, Filled, IsList
<1>4. k # Len(file) + 1
  <2> SUFFICES ASSUME k = Len(file) + 1 PROVE FALSE
    OBVIOUS
  <2>1. taken = Len(Spelling)
    BY <1>1, <1>3 DEF Laid
  <2>2. ~ (taken < Len(stream))
    BY <1>3, <2>1
  <2> QED
    BY <2>2 DEF token
<1> QED
  BY <1>1, <1>4

LEMMA SymbolCountReads ==
  ASSUME ReadInv, read_symbol_list
  PROVE  ReadInv'
<1>1. expect = "module" /\ expect \notin {"end", "exit"}
  BY DEF read_symbol_list, Count
<1>2. PICK k : Reads(k)
  BY <1>1 DEF ReadInv
<1>3. k \in 1 .. Len(file) /\ token # NULL
  <2>1. token # NULL
    BY DEF read_symbol_list, Count
  <2>2. k \in 1 .. Len(file) + 1 /\ taken = Begin(k) - 1 /\ Known /\ CleanAt(taken)
    BY <1>1, <1>2 DEF Reads, AtModule, InModule, ReadInv
  <2> QED
    BY <2>1, <2>2, ThereIsAModule
<1>4. AtModule(k)
  BY <1>1, <1>2 DEF Reads, InModule
<1> DEFINE b == Begin(k)
           d == NumDefs(k)
           u == NumUses(k)
           x == NumText(k)
           w == Width(file[k])
<1>5. /\ d \in Nat /\ u \in Nat /\ x \in Nat /\ b \in Nat \ {0} /\ w = 3 + 2 * d + u + 2 * x
      /\ Size(k - 1) \in Nat /\ Size(k) = Size(k - 1) + x
  BY <1>3, ModuleIs DEF ReadInv
<1>6. Spelled(k)
  BY <1>3, SpelledIs DEF ReadInv, Known
<1>7. offset = Size(k - 1) /\ taken = b - 1
  BY <1>4 DEF AtModule
<1> DEFINE j == 1
<1>8. Word(k, j) = Number(d) /\ Role(k, j) = "number"
  BY <1>6 DEF Spelled, NumDefs, NumUses, NumText
<1> HIDE DEF b, d, u, x, w, j
<1>9. /\ j \in 1 .. w /\ taken = b + j - 2
      /\ (j # 1 \/ token # NULL) /\ j # 2 * d + 2 /\ j # 2 * d + u + 3
  BY <1>3, <1>5, <1>7 DEF j
<1>10. Word(k, j).kind \in {"number", "letter", "name"}
  BY <1>8 DEF Number
<1>11. Standing(k, j)
  BY <1>1, <1>3, <1>9, <1>10, StandsAt DEF b, w
<1>12. CASE token # Word(k, j)
  <2>1. /\ Failed(Complaint(Role(k, j), token), taken + 1)
        /\ token \in {BAD, LONG, NULL}
    BY <1>9, <1>11, <1>12, Rejects
  <2>2. ~ is_valid_int
    BY <2>1, WrongKinds
  <2>3. __parseerror("NUM_EXPECTED")
    BY <2>2 DEF read_symbol_list, Count
  <2>4. Complaint(Role(k, j), token) = "NUM_EXPECTED"
    BY <1>8 DEF Complaint
  <2> QED
    BY <2>1, <2>3, <2>4, ThenFails
<1>13. ASSUME token = Word(k, j) PROVE is_valid_int /\ token.value = d
  BY <1>8, <1>13 DEF is_valid_int, Number
<1>14. CASE token = Word(k, j) /\ d > MAX_DEFS
  <2>1. Limit(k, j, "TOO_MANY_DEF_IN_MODULE")
    BY <1>14 DEF Limit, NumDefs, NumUses, d, u, j
  <2>2. Failed("TOO_MANY_DEF_IN_MODULE", taken + 1)
    BY <1>11, <1>14, <2>1, Exceeds
  <2>3. is_valid_int /\ token.value = d /\ d > MAX_DEFS /\ ~ (d <= MAX_DEFS)
    <3>1. MAX_DEFS \in Nat
      BY LimitsAssumption
    <3> QED
      BY <1>5, <1>7, <1>13, <1>14, <3>1
  <2>4. __parseerror("TOO_MANY_DEF_IN_MODULE")
    BY <2>3 DEF read_symbol_list, Count
  <2> QED
    BY <2>2, <2>4, ThenFails
<1>15. CASE token = Word(k, j) /\ ~ (d > MAX_DEFS)
  <2>1. CleanAt(taken + 1)
    <3>1. \A what : ~ Limit(k, j, what)
      BY <1>9, <1>15 DEF Limit, NumDefs, NumUses, d, u
    <3> QED
      BY <1>11, <1>15, <3>1, Accepts
  <2>2. is_valid_int /\ token.value = d /\ ~ (d > MAX_DEFS)
    BY <1>13, <1>15
  <2>3. /\ IF d = 0 THEN Take("uses", 0) ELSE Take("symbol", d)
        /\ mod' = Empty
        /\ UNCHANGED <<returned, offset>>
    BY <2>2 DEF read_symbol_list, Count
  <2>4. /\ Static /\ taken' = taken + 1
        /\ IF d = 0 THEN expect' = "uses" ELSE expect' = "symbol" /\ left' = d
    BY <2>3 DEF Take, Static
  <2>5. mod' = Held(DefsRead(k, 0), <<>>, <<>>)
    BY <2>3, NoneRead DEF Held, Empty
  <2>6. /\ d' = d /\ b' = b /\ Size(k - 1)' = Size(k - 1)
        /\ \A m : DefsRead(k, m)' = DefsRead(k, m)
    BY <2>4, SameModules DEF d, b
  <2>7. (expect = "uses" /\ AtUses(k))' \/ (expect = "symbol" /\ \E m : AtSymbol(k, m))'
    <3>1. CASE d = 0
      <4>1. expect' = "uses" /\ taken' = b' + 2 * d'
        BY <1>5, <1>7, <2>4, <2>6, <3>1
      <4>2. mod' = Held(DefsRead(k, d)', <<>>, <<>>) /\ offset' = Size(k - 1)'
        BY <1>7, <2>3, <2>5, <2>6, <3>1
      <4>3. AtUses(k)'
        BY <2>6, <4>1, <4>2 DEF AtUses, d, b, Held
      <4> QED
        BY <4>1, <4>3
    <3>2. CASE d # 0
      <4>1. PICK m : m = 1
        OBVIOUS
      <4>2. /\ expect' = "symbol" /\ m \in 1 .. d' /\ left' = d' - m + 1 /\ m - 1 = 0
            /\ taken' = b' + 2 * m - 2
        BY <1>5, <1>7, <2>4, <2>6, <3>2, <4>1
      <4>3. mod' = Held(DefsRead(k, m - 1)', <<>>, <<>>) /\ offset' = Size(k - 1)'
        BY <1>7, <2>3, <2>5, <2>6, <4>2
      <4>4. AtSymbol(k, m)'
        BY <4>2, <4>3 DEF AtSymbol, d, b, Held
      <4> QED
        BY <4>2, <4>4
    <3> QED
      BY <3>1, <3>2
  <2>8. expect' \notin {"end", "exit"}
    BY <2>4
  <2>9. Reads(k)'
    <3>1. Delivered(k)' = Delivered(k) /\ file' = file /\ returned' = returned
      BY <2>3, <2>4, SameModules DEF Static
    <3> QED
      BY <1>2, <1>3, <2>7, <3>1 DEF Reads, InModule
  <2> QED
    BY <2>1, <2>4, <2>8, <2>9, ThenReads
<1> QED
  BY <1>12, <1>14, <1>15

LEMMA UseCountReads ==
  ASSUME ReadInv, read_use_list
  PROVE  ReadInv'
<1>1. expect = "uses" /\ expect \notin {"end", "exit"}
  BY DEF read_use_list, Count
<1>2. PICK k : Reads(k)
  BY <1>1 DEF ReadInv
<1>3. k \in 1 .. Len(file) /\ AtUses(k)
  BY <1>1, <1>2 DEF Reads, AtModule, InModule
<1>4. AtUses(k)
  BY <1>3
<1> DEFINE b == Begin(k)
           d == NumDefs(k)
           u == NumUses(k)
           x == NumText(k)
           w == Width(file[k])
<1>5. /\ d \in Nat /\ u \in Nat /\ x \in Nat /\ b \in Nat \ {0} /\ w = 3 + 2 * d + u + 2 * x
      /\ Size(k - 1) \in Nat /\ Size(k) = Size(k - 1) + x
  BY <1>3, ModuleIs DEF ReadInv
<1>6. Spelled(k)
  BY <1>3, SpelledIs DEF ReadInv, Known
<1>7. /\ offset = Size(k - 1) /\ taken = b + 2 * d
      /\ mod = Held(DefsRead(k, d), <<>>, <<>>)
  BY <1>4 DEF AtUses
<1> DEFINE j == 2 * d + 2
<1>8. Word(k, j) = Number(u) /\ Role(k, j) = "number"
  BY <1>6 DEF Spelled, NumDefs, NumUses, NumText
<1> HIDE DEF b, d, u, x, w, j
<1>9. /\ j \in 1 .. w /\ taken = b + j - 2
      /\ j # 1 /\ j # 2 * d + u + 3
  BY <1>5, <1>7 DEF j
<1>10. Word(k, j).kind \in {"number", "letter", "name"}
  BY <1>8 DEF Number
<1>11. Standing(k, j)
  BY <1>1, <1>3, <1>9, <1>10, StandsAt DEF b, w
<1>12. CASE token # Word(k, j)
  <2>1. /\ Failed(Complaint(Role(k, j), token), taken + 1)
        /\ token \in {BAD, LONG, NULL}
    BY <1>9, <1>11, <1>12, Rejects
  <2>2. ~ is_valid_int
    BY <2>1, WrongKinds
  <2>3. __parseerror("NUM_EXPECTED")
    BY <2>2 DEF read_use_list, Count
  <2>4. Complaint(Role(k, j), token) = "NUM_EXPECTED"
    BY <1>8 DEF Complaint
  <2> QED
    BY <2>1, <2>3, <2>4, ThenFails
<1>13. ASSUME token = Word(k, j) PROVE is_valid_int /\ token.value = u
  BY <1>8, <1>13 DEF is_valid_int, Number
<1>14. CASE token = Word(k, j) /\ u > MAX_USES
  <2>1. Limit(k, j, "TOO_MANY_USE_IN_MODULE")
    BY <1>14 DEF Limit, NumDefs, NumUses, d, u, j
  <2>2. Failed("TOO_MANY_USE_IN_MODULE", taken + 1)
    BY <1>11, <1>14, <2>1, Exceeds
  <2>3. is_valid_int /\ token.value = u /\ u > MAX_USES /\ ~ (u <= MAX_USES)
    <3>1. MAX_USES \in Nat
      BY LimitsAssumption
    <3> QED
      BY <1>5, <1>7, <1>13, <1>14, <3>1
  <2>4. __parseerror("TOO_MANY_USE_IN_MODULE")
    BY <2>3 DEF read_use_list, Count
  <2> QED
    BY <2>2, <2>4, ThenFails
<1>15. CASE token = Word(k, j) /\ ~ (u > MAX_USES)
  <2>1. CleanAt(taken + 1)
    <3>1. \A what : ~ Limit(k, j, what)
      BY <1>9, <1>15 DEF Limit, NumDefs, NumUses, d, u
    <3> QED
      BY <1>11, <1>15, <3>1, Accepts
  <2>2. is_valid_int /\ token.value = u /\ ~ (u > MAX_USES)
    BY <1>13, <1>15
  <2>3. /\ IF u = 0 THEN Take("text", 0) ELSE Take("use", u)
        /\ mod' = mod
        /\ UNCHANGED <<returned, offset>>
    BY <2>2 DEF read_use_list, Count
  <2>4. /\ Static /\ taken' = taken + 1
        /\ IF u = 0 THEN expect' = "text" ELSE expect' = "use" /\ left' = u
    BY <2>3 DEF Take, Static
  <2>5. mod' = Held(DefsRead(k, d), UsesRead(k, 0), <<>>)
    <3>1. UsesRead(k, 0) = <<>>
      BY NoneRead
    <3> QED
      BY <1>7, <2>3, <3>1
  <2>6. /\ d' = d /\ u' = u /\ b' = b /\ Size(k - 1)' = Size(k - 1)
        /\ \A m : DefsRead(k, m)' = DefsRead(k, m) /\ UsesRead(k, m)' = UsesRead(k, m)
    BY <2>4, SameModules DEF d, u, b
  <2>7. (expect = "text" /\ AtText(k))' \/ (expect = "use" /\ \E m : AtUse(k, m))'
    <3>1. CASE u = 0
      <4>1. expect' = "text" /\ taken' = b' + 2 * d' + u' + 1
        BY <1>5, <1>7, <2>4, <2>6, <3>1
      <4>2. mod' = Held(DefsRead(k, d)', UsesRead(k, u)', <<>>) /\ offset' = Size(k - 1)'
        BY <1>7, <2>3, <2>5, <2>6, <3>1
      <4>3. AtText(k)'
        BY <2>6, <4>1, <4>2 DEF AtText, d, u, b, Held
      <4> QED
        BY <4>1, <4>3
    <3>2. CASE u # 0
      <4>1. PICK m : m = 1
        OBVIOUS
      <4>2. /\ expect' = "use" /\ m \in 1 .. u' /\ left' = u' - m + 1 /\ m - 1 = 0
            /\ taken' = b' + 2 * d' + m
        BY <1>5, <1>7, <2>4, <2>6, <3>2, <4>1
      <4>3. mod' = Held(DefsRead(k, d)', UsesRead(k, m - 1)', <<>>) /\ offset' = Size(k - 1)'
        BY <1>7, <2>3, <2>5, <2>6, <4>2
      <4>4. AtUse(k, m)'
        BY <2>6, <4>2, <4>3 DEF AtUse, d, u, b, Held
      <4> QED
        BY <4>2, <4>4
    <3> QED
      BY <3>1, <3>2
  <2>8. expect' \notin {"end", "exit"}
    BY <2>4
  <2>9. Reads(k)'
    <3>1. Delivered(k)' = Delivered(k) /\ file' = file /\ returned' = returned
      BY <2>3, <2>4, SameModules DEF Static
    <3> QED
      BY <1>2, <1>3, <2>7, <3>1 DEF Reads, InModule
  <2> QED
    BY <2>1, <2>4, <2>8, <2>9, ThenReads
<1> QED
  BY <1>12, <1>14, <1>15

LEMMA TextCountReads ==
  ASSUME ReadInv, read_program_text
  PROVE  ReadInv'
<1>1. expect = "text" /\ expect \notin {"end", "exit"}
  BY DEF read_program_text
<1>2. PICK k : Reads(k)
  BY <1>1 DEF ReadInv
<1>3. k \in 1 .. Len(file) /\ AtText(k)
  BY <1>1, <1>2 DEF Reads, AtModule, InModule
<1>4. AtText(k)
  BY <1>3
<1> DEFINE b == Begin(k)
           d == NumDefs(k)
           u == NumUses(k)
           x == NumText(k)
           w == Width(file[k])
<1>5. /\ d \in Nat /\ u \in Nat /\ x \in Nat /\ b \in Nat \ {0} /\ w = 3 + 2 * d + u + 2 * x
      /\ Size(k - 1) \in Nat /\ Size(k) = Size(k - 1) + x
  BY <1>3, ModuleIs DEF ReadInv
<1>6. Spelled(k)
  BY <1>3, SpelledIs DEF ReadInv, Known
<1>7. /\ offset = Size(k - 1) /\ taken = b + 2 * d + u + 1
      /\ mod = Held(DefsRead(k, d), UsesRead(k, u), <<>>)
  BY <1>4 DEF AtText
<1> DEFINE j == 2 * d + u + 3
<1>8. Word(k, j) = Number(x) /\ Role(k, j) = "number"
  BY <1>6 DEF Spelled, NumDefs, NumUses, NumText
<1> HIDE DEF b, d, u, x, w, j
<1>9. /\ j \in 1 .. w /\ taken = b + j - 2
      /\ j # 1 /\ j # 2 * d + 2
  BY <1>5, <1>7 DEF j
<1>10. Word(k, j).kind \in {"number", "letter", "name"}
  BY <1>8 DEF Number
<1>11. Standing(k, j)
  BY <1>1, <1>3, <1>9, <1>10, StandsAt DEF b, w
<1>12. CASE token # Word(k, j)
  <2>1. /\ Failed(Complaint(Role(k, j), token), taken + 1)
        /\ token \in {BAD, LONG, NULL}
    BY <1>9, <1>11, <1>12, Rejects
  <2>2. ~ is_valid_int
    BY <2>1, WrongKinds
  <2>3. __parseerror("NUM_EXPECTED")
    BY <2>2 DEF read_program_text
  <2>4. Complaint(Role(k, j), token) = "NUM_EXPECTED"
    BY <1>8 DEF Complaint
  <2> QED
    BY <2>1, <2>3, <2>4, ThenFails
<1>13. ASSUME token = Word(k, j) PROVE is_valid_int /\ token.value = x
  BY <1>8, <1>13 DEF is_valid_int, Number
<1>14. CASE token = Word(k, j) /\ Size(k) > MAX_WORDS
  <2>1. Limit(k, j, "TOO_MANY_INSTR")
    BY <1>14 DEF Limit, NumDefs, NumUses, d, u, j
  <2>2. Failed("TOO_MANY_INSTR", taken + 1)
    BY <1>11, <1>14, <2>1, Exceeds
  <2>3. is_valid_int /\ token.value = x /\ offset + x > MAX_WORDS /\ ~ (offset + x <= MAX_WORDS)
    <3>1. MAX_WORDS \in Nat
      BY LimitsAssumption
    <3> QED
      BY <1>5, <1>7, <1>13, <1>14, <3>1
  <2>4. __parseerror("TOO_MANY_INSTR")
    BY <2>3 DEF read_program_text
  <2> QED
    BY <2>2, <2>4, ThenFails
<1>15. CASE token = Word(k, j) /\ ~ (Size(k) > MAX_WORDS)
  <2>1. CleanAt(taken + 1)
    <3>1. \A what : ~ Limit(k, j, what)
      BY <1>9, <1>15 DEF Limit, NumDefs, NumUses, d, u
    <3> QED
      BY <1>11, <1>15, <3>1, Accepts
  <2>2. is_valid_int /\ token.value = x /\ offset + x = Size(k) /\ ~ (Size(k) > MAX_WORDS)
        /\ offset + x <= MAX_WORDS
    <3>1. offset + x = Size(k) /\ ~ (Size(k) > MAX_WORDS)
      BY <1>5, <1>7, <1>15
    <3>2. Size(k) \in Nat /\ MAX_WORDS \in Nat
      BY <1>5, LimitsAssumption
    <3> QED
      BY <1>13, <1>15, <3>1, <3>2
  <2>3. /\ offset' = Size(k)
        /\ \/ x > 0 /\ Take("addressing", x) /\ UNCHANGED <<mod, returned>>
           \/ x = 0 /\ Take("module", 0) /\ UNCHANGED mod /\ returned' = Append(returned, mod)
    BY <2>2 DEF read_program_text
  <2>4. Static /\ taken' = taken + 1 /\ mod' = mod /\ expect' \in {"addressing", "module"}
    BY <2>3 DEF Take, Static
  <2>5. mod = Held(DefsRead(k, d), UsesRead(k, u), TextRead(k, 0))
    <3>1. TextRead(k, 0) = <<>>
      BY NoneRead
    <3> QED
      BY <1>7, <3>1
  <2>6. /\ d' = d /\ u' = u /\ x' = x /\ b' = b
        /\ Size(k)' = Size(k) /\ Size((k + 1) - 1)' = Size((k + 1) - 1)
        /\ Begin(k + 1)' = Begin(k + 1) /\ Delivered(k + 1)' = Delivered(k + 1)
        /\ Delivered(k)' = Delivered(k) /\ file' = file
        /\ \A m : /\ DefsRead(k, m)' = DefsRead(k, m) /\ UsesRead(k, m)' = UsesRead(k, m)
                  /\ TextRead(k, m)' = TextRead(k, m)
    BY <2>4, SameModules DEF d, u, x, b, Static
  <2>7. expect' \notin {"end", "exit"}
    BY <2>4
  <2>8. CASE x = 0
    <3>1. expect' = "module" /\ returned' = Append(returned, mod)
      BY <2>3, <2>8 DEF Take
    <3>2. /\ Begin(k + 1) = b + w /\ (k + 1) - 1 = k /\ k + 1 \in 1 .. Len(file) + 1
          /\ k + 1 \in Nat
      BY <1>3, ModuleIs DEF ReadInv, b, w
    <3>3. taken' = Begin(k + 1)' - 1 /\ offset' = Size((k + 1) - 1)'
      BY <1>5, <1>7, <2>3, <2>4, <2>6, <2>8, <3>2
    <3>4. returned' = Delivered(k + 1)
      <4>1. mod = Skipped(file[k])
        BY <1>3, <2>5, <2>8, WholeModule DEF ReadInv, d, u, x
      <4>2. returned = Delivered(k)
        BY <1>2 DEF Reads
      <4> QED
        BY <1>3, <3>1, <4>1, <4>2, DeliversNext DEF ReadInv
    <3>5. PICK m : m = k + 1
      OBVIOUS
    <3>6. Reads(m)'
      BY <2>6, <3>1, <3>2, <3>3, <3>4, <3>5 DEF Reads, AtModule
    <3> QED
      BY <2>1, <2>4, <2>7, <3>6, ThenReads
  <2>9. CASE x # 0
    <3>1. expect' = "addressing" /\ returned' = returned /\ left' = x
      BY <1>5, <2>3, <2>9 DEF Take
    <3>2. PICK m : m = 1
      OBVIOUS
    <3>3. /\ m \in 1 .. x' /\ left' = x' - m + 1 /\ m - 1 = 0
          /\ taken' = b' + 2 * d' + u' + 2 * m
      BY <1>5, <1>7, <2>4, <2>6, <2>9, <3>1, <3>2
    <3>4. /\ mod' = Held(DefsRead(k, d)', UsesRead(k, u)', TextRead(k, m - 1)')
          /\ offset' = Size(k)'
      BY <2>3, <2>4, <2>5, <2>6, <3>3
    <3>5. AtAddressing(k, m)'
      BY <2>6, <3>3, <3>4 DEF AtAddressing, d, u, x, b, Held
    <3>6. Reads(k)'
      BY <1>2, <1>3, <2>6, <3>1, <3>5 DEF Reads, InModule
    <3> QED
      BY <2>1, <2>4, <2>7, <3>6, ThenReads
  <2> QED
    BY <2>8, <2>9
<1> QED
  BY <1>12, <1>14, <1>15

LEMMA EndReads ==
  ASSUME ReadInv, EndOfFile
  PROVE  ReadInv'
<1>1. /\ expect = "module" /\ token = NULL /\ expect' = "end"
      /\ UNCHANGED <<file, stream, taken, ignore, left, mod, returned, offset, error>>
      /\ Static /\ Known /\ CleanAt(taken)
  BY DEF EndOfFile, Static, ReadInv
<1>2. PICK k : Reads(k)
  BY <1>1 DEF ReadInv
<1>3. k \in 1 .. Len(file) + 1 /\ returned = Delivered(k) /\ taken = Begin(k) - 1
  BY <1>1, <1>2 DEF Reads, AtModule, InModule
<1> DEFINE n == Len(file)
<1>4. n \in Nat /\ Laid(n) /\ Filled(n) /\ SoundFile
  BY <1>1, FileIs, TheLayout DEF Known
<1>5. InputLike(Spelling)
  BY <1>1, <1>4, InputIs DEF Known, Filled
<1>6. Begin(k) \in Nat \ {0}
  BY <1>3, <1>4 DEF Laid
<1> DEFINE m == Len(stream)
<1>7. m \in Nat /\ Len(Spelling) \in Nat
  BY <1>4, <1>5 DEF InputLike, Filled, IsList
<1>8. taken \in Nat /\ taken <= m
  BY <1>1, <1>3, <1>6 DEF CleanAt
<1>9. ~ (taken < m)
  <2> SUFFICES ASSUME taken < m PROVE FALSE
    OBVIOUS
  <2>1. m <= Len(Spelling)
    BY <1>5 DEF InputLike
  <2>2. k \in 1 .. n
    <3>1. k # n + 1
      <4> SUFFICES ASSUME k = n + 1 PROVE FALSE
        OBVIOUS
      <4>1. Begin(k) = Len(Spelling) + 1
        BY <1>4 DEF Laid
      <4> HIDE DEF m
      <4> QED
        BY <1>3, <1>7, <2>1, <4>1
    <3> HIDE DEF n
    <3> QED
      BY <1>3, <1>4, <3>1 DEF n
  <2>3. Spelled(k)
    BY <1>4, <2>2, SpelledIs
  <2>4. Word(k, 1) = Number(NumDefs(k))
    BY <2>3 DEF Spelled, NumDefs
  <2>5. 1 \in 1 .. Width(file[k]) /\ taken = Begin(k) + 1 - 2
    <3>1. Width(file[k]) \in Nat \ {0}
      BY <1>4, <2>2, WidthIs DEF SoundFile
    <3> QED
      BY <1>3, <1>6, <3>1
  <2>6. Word(k, 1).kind \in {"number", "letter", "name"}
    BY <2>4 DEF Number
  <2>7. Standing(k, 1)
    BY <1>1, <2>2, <2>5, <2>6, StandsAt
  <2>8. PICK p : Stands(k, 1, p)
    BY <2>7, WhereItStands
  <2>9. token = stream[p] /\ p = taken + 1 /\ p \in 1 .. m
    <3>1. p = taken + 1
      BY <2>8 DEF Stands
    <3>2. token = stream[taken + 1]
      BY DEF token
    <3> HIDE DEF m
    <3> QED
      BY <1>7, <1>8, <3>1, <3>2
  <2>10. stream[p] \in {Spelling[p], BAD, LONG} /\ Spelling[p] = Word(k, 1)
    BY <1>5, <2>8, <2>9 DEF InputLike, Stands
  <2>11. NULL # BAD /\ NULL # LONG /\ NULL # Number(NumDefs(k))
    BY DEF NULL, BAD, LONG, Number
  <2> QED
    BY <1>1, <2>4, <2>9, <2>10, <2>11
<1>10. taken = m
  BY <1>7, <1>8, <1>9
<1>11. PICK q : q = k - 1
  OBVIOUS
<1>12. q \in 0 .. n /\ q + 1 = k
  BY <1>3, <1>4, <1>11
<1>13. taken = Len(Tokens(Before(q + 1)))
  BY <1>3, <1>6, <1>12 DEF Begin
<1>14. \A e \in Errors : e.at > taken
  BY <1>1 DEF CleanAt
<1>15. returned = [i \in 1 .. q |-> Skipped(file[i])]
  BY <1>3, <1>11 DEF Delivered
<1>16. ReadsWhatWasWritten'
  <2>1. Errors' = Errors
    BY <1>1, SameErrors
  <2>2. (Len(Tokens(Before(q + 1))))' = Len(Tokens(Before(q + 1)))
    BY <1>1, SameFile
  <2>3. [i \in 1 .. q |-> Skipped(file[i])]' = [i \in 1 .. q |-> Skipped(file[i])]
    BY <1>1, SameFile
  <2> QED
    BY <1>1, <1>10, <1>12, <1>13, <1>14, <1>15, <2>1, <2>2, <2>3 DEF ReadsWhatWasWritten
<1>17. Known'
  BY <1>1, SameFile DEF Known
<1> QED
  BY <1>1, <1>16, <1>17 DEF ReadInv

LEMMA StartsReading ==
  ASSUME ReaderInit
  PROVE  ReadInv
<1>1. SoundFile /\ stream \in Damaged(Spelling)
  BY FilesAssumption DEF ReaderInit, SoundFile, Spelling
<1>2. Known
  BY <1>1 DEF Known
<1>3. Len(file) \in Nat /\ Laid(Len(file)) /\ Filled(Len(file))
  BY <1>1, FileIs, TheLayout
<1>4. taken = 0 /\ expect = "module" /\ offset = 0 /\ returned = <<>>
  BY DEF ReaderInit
<1>5. InputLike(Spelling)
  BY <1>1, <1>3, InputIs DEF Filled
<1>6. ASSUME NEW e \in Errors PROVE e.at > 0
  <2>1. Len(Spelling) \in Nat /\ DOMAIN Meant = 1 .. Len(Spelling)
    BY <1>3 DEF Filled, IsList
  <2>2. CASE e.at \in Damages
    <3>1. e.at \in 1 .. Len(Spelling)
      BY <2>1, <2>2 DEF Damages
    <3> QED
      BY <2>1, <3>1
  <2>3. CASE e.at \notin Damages
    <3>1. PICK l \in 1 .. Len(file) : \E i \in 1 .. Width(file[l]) :
            e.at = Begin(l) - 1 + i /\ Limit(l, i, e.what)
      BY <1>1, <2>3, ErrorIs
    <3>2. PICK i \in 1 .. Width(file[l]) : e.at = Begin(l) - 1 + i
      BY <3>1
    <3>3. Begin(l) - 1 + i \in 1 .. Len(Spelling)
      BY <1>3 DEF Filled
    <3> QED
      BY <2>1, <3>2, <3>3
  <2> QED
    BY <2>2, <2>3
<1>7. CleanAt(taken)
  BY <1>4, <1>5, <1>6 DEF CleanAt, InputLike
<1>8. Reads(1)
  <2>1. 1 \in 1 .. Len(file) + 1 /\ 1 - 1 = 0
    BY <1>3
  <2>2. Begin(1) = 1 /\ Size(0) = 0
    BY <1>1, <1>3, SizeIs DEF Laid
  <2>3. Delivered(1) = <<>>
    BY DEF Delivered
  <2> QED
    BY <1>4, <2>1, <2>2, <2>3 DEF Reads, AtModule
<1>9. ReadsWhatWasWritten
  BY <1>4 DEF ReadsWhatWasWritten
<1> QED
  BY <1>2, <1>7, <1>8, <1>9 DEF ReadInv

LEMMA NothingRead ==
  ASSUME ReadInv, UNCHANGED readervars
  PROVE  ReadInv'
<1>1. /\ Static /\ UNCHANGED <<taken, expect, left, mod, returned, offset, error>>
  BY DEF readervars, Static
<1>2. Errors' = Errors /\ Known' = Known
  BY <1>1, SameErrors, SameFile DEF Static, Known
<1>3. ReadsWhatWasWritten'
  <2>1. CASE expect = "end"
    <3>1. PICK q \in 0 .. Len(file) :
             /\ taken = Len(Tokens(Before(q + 1))) /\ taken = Len(stream)
             /\ \A e \in Errors : e.at > taken
             /\ returned = [i \in 1 .. q |-> Skipped(file[i])]
      BY <2>1 DEF ReadInv, ReadsWhatWasWritten
    <3>2. (Len(Tokens(Before(q + 1))))' = Len(Tokens(Before(q + 1)))
      BY <1>1, SameFile
    <3>3. [i \in 1 .. q |-> Skipped(file[i])]' = [i \in 1 .. q |-> Skipped(file[i])]
      BY <1>1, SameFile DEF Static
    <3> QED
      BY <1>1, <1>2, <2>1, <3>1, <3>2, <3>3 DEF ReadsWhatWasWritten, Static
  <2>2. CASE expect = "exit"
    BY <1>1, <1>2, <2>2 DEF ReadInv, ReadsWhatWasWritten
  <2>3. CASE expect \notin {"end", "exit"}
    BY <1>1, <2>3 DEF ReadsWhatWasWritten
  <2> QED
    BY <2>1, <2>2, <2>3
<1>4. ASSUME NEW k, Reads(k) PROVE Reads(k)'
  <2>1. /\ NumDefs(k)' = NumDefs(k) /\ NumUses(k)' = NumUses(k) /\ NumText(k)' = NumText(k)
        /\ Begin(k)' = Begin(k) /\ Size(k)' = Size(k) /\ Size(k - 1)' = Size(k - 1)
        /\ Delivered(k)' = Delivered(k)
        /\ \A l : /\ DefsRead(k, l)' = DefsRead(k, l) /\ DefHalf(k, l)' = DefHalf(k, l)
                  /\ UsesRead(k, l)' = UsesRead(k, l)
                  /\ TextRead(k, l)' = TextRead(k, l) /\ TextHalf(k, l)' = TextHalf(k, l)
    BY <1>1, SameModules
  <2>2. AtModule(k)' = AtModule(k) /\ AtUses(k)' = AtUses(k) /\ AtText(k)' = AtText(k)
    BY <1>1, <2>1 DEF AtModule, AtUses, AtText, Held
  <2>3. ASSUME NEW l
        PROVE  /\ AtSymbol(k, l)' = AtSymbol(k, l) /\ AtOffset(k, l)' = AtOffset(k, l)
               /\ AtUse(k, l)' = AtUse(k, l)
               /\ AtAddressing(k, l)' = AtAddressing(k, l)
               /\ AtInstruction(k, l)' = AtInstruction(k, l)
    BY <1>1, <2>1 DEF AtSymbol, AtOffset, AtUse, AtAddressing, AtInstruction, Held
  <2>4. InModule(k)' = InModule(k)
    BY <1>1, <2>2, <2>3 DEF InModule
  <2> QED
    BY <1>1, <1>4, <2>1, <2>2, <2>4 DEF Reads, Static
<1>5. CleanAt(taken)' = CleanAt(taken)
  BY <1>1, <1>2 DEF CleanAt, Static
<1> QED
  BY <1>1, <1>2, <1>3, <1>4, <1>5 DEF ReadInv

(* Whatever the files and the limits: what was written is read back, or    *)
(* the first error is reported.                                            *)
THEOREM ReadsAlwaysWhatWasWritten == ReaderSpec => []ReadsWhatWasWritten
<1>1. ReaderInit => ReadInv
  BY StartsReading
<1>2. ReadInv /\ [ReaderNext]_readervars => ReadInv'
  <2> SUFFICES ASSUME ReadInv, [ReaderNext]_readervars PROVE ReadInv'
    OBVIOUS
  <2>1. CASE Stopped \/ UNCHANGED readervars
    BY <2>1, NothingRead DEF Stopped
  <2>2. CASE EndOfFile
    BY <2>2, EndReads
  <2>3. CASE read_symbol_list
    BY <2>3, SymbolCountReads
  <2>4. CASE Symbol
    BY <2>4, SymbolReads
  <2>5. CASE SymbolOffset
    BY <2>5, SymbolOffsetReads
  <2>6. CASE read_use_list
    BY <2>6, UseCountReads
  <2>7. CASE Use
    BY <2>7, UseReads
  <2>8. CASE read_program_text
    BY <2>8, TextCountReads
  <2>9. CASE Addressing
    BY <2>9, AddressingReads
  <2>10. CASE InstructionWord
    BY <2>10, InstructionReads
  <2> QED
    BY <2>1, <2>2, <2>3, <2>4, <2>5, <2>6, <2>7, <2>8, <2>9, <2>10 DEF ReaderNext
<1>3. ReadInv => ReadsWhatWasWritten
  BY DEF ReadInv
<1> QED
  BY <1>1, <1>2, <1>3, PTL DEF ReaderSpec
=============================================================================
