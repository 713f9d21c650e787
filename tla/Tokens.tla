------------------------------- MODULE Tokens -------------------------------
(* The tokens of the linker's input (Lab1/src/token.c): read_token called  *)
(* until the end of the file, one character at a time.  A character is a   *)
(* blank (' ', '\t', '\r'), a newline ('\n', '\f', '\v') or anything else. *)
EXTENDS Integers, Sequences, FiniteSets, FiniteSetTheorems, TLAPS

CONSTANTS Texts,      \* the files tried
          TOKEN_MEM   \* 16 in the code: the first size of a token's buffer

BLANK   == " "
NEWLINE == "\n"
EOF     == "EOF"
Spaces  == {BLANK, NEWLINE}

\* What a file is made of: anything but the end of the file.
Char == STRING \ {EOF}

ASSUME TokensAssumption == Texts \subseteq Seq(Char) /\ TOKEN_MEM \in Nat \ {0}

VARIABLES chars, pos,            \* the file, and how much of it was consumed
          pc,                    \* "call", "space", "letter"; "end" after NULL
          c,                     \* the character last read
          i, mem_size,           \* of the token being read
          linenum, lineoffset,
          tokens                 \* [linenum, lineoffset, size] of those read; 0: NULL

tokenvars == <<chars, pos, pc, c, i, mem_size, linenum, lineoffset, tokens>>

At(p) == IF p <= Len(chars) THEN chars[p] ELSE EOF
-----------------------------------------------------------------------------
\* main in front of the first token of a file.
TokenInit == /\ chars \in Texts /\ pos = 0
             /\ pc = "call" /\ c = EOF
             /\ i = 0 /\ mem_size = TOKEN_MEM
             /\ linenum = 1 /\ lineoffset = 1
             /\ tokens = <<>>

\* fgetc (pos stays behind the end once it is there).
Fetched == /\ c' = At(pos + 1)
           /\ pos' = IF pos < Len(chars) THEN pos + 1 ELSE pos

Call == /\ pc = "call"
        /\ i' = 0 /\ mem_size' = TOKEN_MEM
        /\ pc' = "space"
        /\ Fetched
        /\ UNCHANGED <<chars, linenum, lineoffset, tokens>>

SwallowBlank == /\ pc = "space" /\ c = BLANK
                /\ lineoffset' = lineoffset + 1
                /\ Fetched
                /\ UNCHANGED <<chars, pc, i, mem_size, linenum, tokens>>

\* Mutant of EndsLine: the newline at the end of the file counts, too.
EndsLine_always == TRUE

\* The character behind the newline is looked at and put back.
EndsLine == At(pos + 1) # EOF

SwallowNewline == /\ pc = "space" /\ c = NEWLINE
                  /\ linenum' = IF EndsLine THEN linenum + 1 ELSE linenum
                  /\ lineoffset' = IF EndsLine THEN 1 ELSE lineoffset
                  /\ Fetched
                  /\ UNCHANGED <<chars, pc, i, mem_size, tokens>>

Token(size) == [linenum |-> linenum, lineoffset |-> lineoffset, size |-> size]

\* The end of the file instead of a token: the caller makes no further call.
NoToken == /\ pc = "space" /\ c = EOF
           /\ tokens' = Append(tokens, Token(0))
           /\ pc' = "end"
           /\ UNCHANGED <<chars, pos, c, i, mem_size, linenum, lineoffset>>

\* Mutant of Grown: the buffer grows one letter late.
Grown_late(n) == IF n = mem_size + 1 THEN 2 * mem_size ELSE mem_size

Grown(n) == IF n = mem_size THEN 2 * mem_size ELSE mem_size

\* t->token[i++] = c, and the next character.
StoreLetter == /\ pc \in {"space", "letter"} /\ c \notin Spaces \cup {EOF}
               /\ pc' = "letter"
               /\ i' = i + 1
               /\ mem_size' = Grown(i + 1)
               /\ Fetched
               /\ UNCHANGED <<chars, linenum, lineoffset, tokens>>

\* The space behind the token is put back; its '\0' is stored at i.
Finish == /\ pc = "letter" /\ c \in Spaces \cup {EOF}
          /\ pos' = IF c = EOF THEN pos ELSE pos - 1
          /\ tokens' = Append(tokens, Token(i))
          /\ lineoffset' = lineoffset + i
          /\ pc' = "call"
          /\ UNCHANGED <<chars, c, i, mem_size, linenum>>

Returned == pc = "end" /\ UNCHANGED tokenvars

TokenNext == Returned \/ Call \/ SwallowBlank \/ SwallowNewline \/ NoToken \/ StoreLetter \/ Finish

TokenSpec == TokenInit /\ [][TokenNext]_tokenvars
-----------------------------------------------------------------------------
(* Where things are, from the text alone.                                  *)
Newlines(p) == {q \in 1..p - 1 : At(q) = NEWLINE}

LastOf(S) == IF S = {} THEN 0 ELSE CHOOSE q \in S : \A r \in S : r <= q

Line(p)   == 1 + Cardinality(Newlines(p))
Column(p) == p - LastOf(Newlines(p))

Starts == {p \in DOMAIN chars : /\ chars[p] \notin Spaces
                                /\ p = 1 \/ chars[p - 1] \in Spaces}

\* The length of the run of letters that starts at p.
Run(p) == LET beyond == {q \in p..Len(chars) + 1 : At(q) \in Spaces \cup {EOF}}
          IN  (CHOOSE q \in beyond : \A r \in beyond : q <= r) - p

\* The k-th place where a token starts.
Start(k) == CHOOSE p \in Starts : Cardinality({q \in Starts : q <= p}) = k

\* The end of the file is said to be on its last line, in front of the
\* newline that ends it.
EndPlace == IF chars # <<>> /\ chars[Len(chars)] = NEWLINE THEN Len(chars) ELSE Len(chars) + 1

(* The tokens are the runs of letters of the file, all of them and in      *)
(* order, each with the line and the column of its first letter, however   *)
(* spaces and newlines are mixed, and so is the end of the file; no letter *)
(* or '\0' is stored behind the buffer.                                    *)
TokensAreLocated ==
  /\ \A k \in DOMAIN tokens :
       LET p == IF k <= Cardinality(Starts) THEN Start(k) ELSE EndPlace
           size == IF k <= Cardinality(Starts) THEN Run(p) ELSE 0
       IN  tokens[k] = [linenum |-> Line(p), lineoffset |-> Column(p), size |-> size]
  /\ pc = "end" => Len(tokens) = Cardinality(Starts) + 1
  /\ i < mem_size
-----------------------------------------------------------------------------
(* That they are, for files of any length and any first size of the buffer. *)

\* The place of the character that is looked at.
Here == IF pc = "call" \/ (c = EOF /\ pc # "end") THEN pos + 1 ELSE pos

\* Where a token at q, or the end of the file, is said to be.
SaidAt(q) == IF q <= Len(chars) THEN q ELSE EndPlace

Says(line, column, q) == /\ line = Line(q) /\ column = Column(q)
                         /\ LastOf(Newlines(q)) \in Nat

\* The places in Starts up to s.
UpTo(s) == {r \in Starts : r <= s}

\* The first tokens are those that start in front of q.
Recorded(list, q) ==
  /\ Len(list) = Cardinality({r \in Starts : r < q})
  /\ \A k \in 1 .. Len(list) :
       \E s \in Starts : /\ Cardinality(UpTo(s)) = k
                         /\ list[k] = [linenum |-> Line(s), lineoffset |-> Column(s),
                                       size |-> Run(s)]

IsLetter(q) == At(q) \notin Spaces \cup {EOF}

TypesOK == /\ chars \in Seq(Char) /\ pos \in 0 .. Len(chars)
           /\ pc \in {"call", "space", "letter", "end"}
           /\ i \in Nat /\ mem_size \in Nat /\ i < mem_size
           /\ tokens \in Seq([linenum : Int, lineoffset : Int, size : Int])
           /\ linenum \in Int /\ lineoffset \in Int

\* Between two tokens, in front of q.
Between(list, line, column, q) == /\ Says(line, column, SaidAt(q))
                                  /\ IsLetter(q) => q \in Starts
                                  /\ Recorded(list, q)

\* Inside the token that starts at s, in front of q.
Inside(list, line, column, s, q) == /\ s \in Starts /\ s < q
                                    /\ \A r \in s .. q - 1 : IsLetter(r)
                                    /\ Says(line, column, s)
                                    /\ Recorded(list, s)

AtEnd == \E list \in Seq([linenum : Int, lineoffset : Int, size : Int]) :
           /\ Recorded(list, Len(chars) + 1)
           /\ tokens = Append(list, [linenum |-> Line(EndPlace), lineoffset |-> Column(EndPlace),
                                     size |-> 0])

TokInv == /\ TypesOK
          /\ pc \in {"space", "letter"} => Here > 0 /\ c = At(Here)
          /\ pc \in {"call", "space"} => Between(tokens, linenum, lineoffset, Here)
          /\ pc = "space" => i = 0
          /\ pc = "letter" => Inside(tokens, linenum, lineoffset, Here - i, Here)
          /\ pc = "end" => AtEnd

\* In a file every place behind its end is EOF, and no other.
LEMMA WhereItEnds ==
  ASSUME chars \in Seq(Char)
  PROVE  /\ Len(chars) \in Nat
         /\ \A p \in Nat \ {0} : At(p) = EOF <=> p > Len(chars)
         /\ \A p \in 1 .. Len(chars) : At(p) = chars[p]
         /\ DOMAIN chars = 1 .. Len(chars)
<1>1. Len(chars) \in Nat /\ \A p \in 1 .. Len(chars) : chars[p] \in Char
  OBVIOUS
<1>2. DOMAIN chars = 1 .. Len(chars)
  OBVIOUS
<1>3. \A p \in 1 .. Len(chars) : chars[p] # EOF
  BY <1>1 DEF Char
<1> QED
  BY <1>1, <1>2, <1>3 DEF At

\* One place on.
LEMMA NextPlace ==
  ASSUME NEW p \in Nat \ {0}, NEW line, NEW column, Says(line, column, p)
  PROVE  /\ At(p) = NEWLINE => Says(line + 1, 1, p + 1)
         /\ At(p) # NEWLINE => Says(line, column + 1, p + 1)
<1>1. /\ Newlines(p) \subseteq 1 .. p - 1 /\ p \notin Newlines(p)
      /\ \A q \in Newlines(p) : q \in Nat /\ q <= p
  BY DEF Newlines
<1>2. IsFiniteSet(Newlines(p)) /\ Cardinality(Newlines(p)) \in Nat
  <2>1. p - 1 \in Int
    OBVIOUS
  <2>2. IsFiniteSet(1 .. p - 1)
    BY <2>1, FS_Interval
  <2> QED
    BY <1>1, <2>2, FS_Subset, FS_CardinalityType
<1>3. CASE At(p) = NEWLINE
  <2>1. Newlines(p + 1) = Newlines(p) \cup {p}
    <3>1. \A q : q \in 1 .. (p + 1) - 1 <=> q \in 1 .. p - 1 \/ q = p
      OBVIOUS
    <3> QED
      BY <1>3, <3>1 DEF Newlines
  <2>2. Cardinality(Newlines(p + 1)) = Cardinality(Newlines(p)) + 1
    BY <1>1, <1>2, <2>1, FS_AddElement
  <2>3. LastOf(Newlines(p + 1)) = p
    <3> DEFINE S == Newlines(p + 1)
    <3>1. p \in S /\ \A r \in S : r \in Nat /\ r <= p
      BY <1>1, <2>1
    <3> HIDE DEF S
    <3>2. \A q \in S : (\A r \in S : r <= q) => q = p
      BY <3>1
    <3>3. (CHOOSE q \in S : \A r \in S : r <= q) = p
      BY <3>1, <3>2
    <3> QED
      BY <3>1, <3>3 DEF LastOf, S
  <2> QED
    BY <1>2, <1>3, <2>2, <2>3 DEF Says, Line, Column
<1>4. CASE At(p) # NEWLINE
  <2>1. Newlines(p + 1) = Newlines(p)
    <3>1. \A q : q \in 1 .. (p + 1) - 1 <=> q \in 1 .. p - 1 \/ q = p
      OBVIOUS
    <3> QED
      BY <1>4, <3>1 DEF Newlines
  <2> QED
    BY <1>4, <2>1 DEF Says, Line, Column
<1> QED
  BY <1>3, <1>4

\* Along places without a newline.
LEMMA AlongTheLine ==
  ASSUME NEW p \in Nat \ {0}, NEW q \in Nat, p <= q, \A r \in p .. q - 1 : At(r) # NEWLINE,
         NEW line, NEW column, Says(line, column, p)
  PROVE  Says(line, column + (q - p), q)
<1>1. Newlines(q) = Newlines(p)
  <2>1. \A r : r \in 1 .. q - 1 <=> r \in 1 .. p - 1 \/ r \in p .. q - 1
    OBVIOUS
  <2> QED
    BY <2>1 DEF Newlines
<1> QED
  BY <1>1 DEF Says, Line, Column

LEMMA StartsCount ==
  ASSUME chars \in Seq(Char), NEW S \in SUBSET Starts
  PROVE  IsFiniteSet(S) /\ Cardinality(S) \in Nat /\ S \subseteq 1 .. Len(chars)
<1>1. S \subseteq 1 .. Len(chars) /\ Len(chars) \in Nat
  BY WhereItEnds DEF Starts
<1>2. IsFiniteSet(1 .. Len(chars))
  BY <1>1, FS_Interval
<1> QED
  BY <1>1, <1>2, FS_Subset, FS_CardinalityType

LEMMA StartsAre ==
  ASSUME chars \in Seq(Char)
  PROVE  /\ IsFiniteSet(Starts) /\ Cardinality(Starts) \in Nat
         /\ \A r \in Starts : r \in Nat /\ r \in 1 .. Len(chars)
<1>1. Starts \in SUBSET Starts
  OBVIOUS
<1>2. IsFiniteSet(Starts) /\ Cardinality(Starts) \in Nat /\ Starts \subseteq 1 .. Len(chars)
  BY <1>1, StartsCount
<1>3. \A r \in 1 .. Len(chars) : r \in Nat
  OBVIOUS
<1> QED
  BY <1>2, <1>3

LEMMA RunIs ==
  ASSUME chars \in Seq(Char), NEW s \in Starts, NEW q \in Nat, s < q, q <= Len(chars) + 1,
         \A r \in s .. q - 1 : IsLetter(r), ~ IsLetter(q)
  PROVE  Run(s) = q - s
<1> DEFINE beyond == {r \in s .. Len(chars) + 1 : At(r) \in Spaces \cup {EOF}}
<1>1. s \in Nat /\ Len(chars) \in Nat
  BY WhereItEnds, StartsAre
<1>2. q \in beyond /\ \A r \in beyond : r \in Int /\ q <= r
  <2>1. \A r \in s .. Len(chars) + 1 : r < q => r \in s .. q - 1
    BY <1>1
  <2> QED
    BY <1>1, <2>1 DEF IsLetter
<1> HIDE DEF beyond
<1>3. \A r \in beyond : (\A t \in beyond : r <= t) => r = q
  BY <1>2
<1>4. (CHOOSE r \in beyond : \A t \in beyond : r <= t) = q
  BY <1>2, <1>3
<1> QED
  BY <1>4 DEF Run, beyond

\* A place where no token starts.
LEMMA NothingToRecord ==
  ASSUME chars \in Seq(Char), NEW q \in Nat, q \notin Starts, NEW list, Recorded(list, q)
  PROVE  Recorded(list, q + 1)
<1>1. {r \in Starts : r < q + 1} = {r \in Starts : r < q}
  <2>1. \A r \in Starts : r \in Nat /\ r # q
    BY StartsAre
  <2> QED
    BY <2>1
<1> QED
  BY <1>1 DEF Recorded

LEMMA OneRecorded ==
  ASSUME chars \in Seq(Char), NEW s \in Starts, NEW q \in Nat, s < q, q <= Len(chars) + 1,
         \A r \in s .. q - 1 : IsLetter(r),
         NEW list \in Seq([linenum : Int, lineoffset : Int, size : Int]), Recorded(list, s),
         NEW e \in [linenum : Int, lineoffset : Int, size : Int],
         e = [linenum |-> Line(s), lineoffset |-> Column(s), size |-> Run(s)]
  PROVE  Recorded(Append(list, e), q)
<1> DEFINE less == {r \in Starts : r < s}
           more == Append(list, e)
<1>1. \A r \in Starts : r \in Nat /\ r \in 1 .. Len(chars) /\ chars[r] \notin Spaces
                        /\ (r = 1 \/ chars[r - 1] \in Spaces)
  BY StartsCount DEF Starts
<1>2. \A r \in Starts : r < q <=> r < s \/ r = s
  <2> SUFFICES ASSUME NEW r \in Starts, r < q, s < r PROVE FALSE
    BY <1>1
  <2>1. r - 1 \in s .. q - 1 /\ r - 1 \in 1 .. Len(chars) /\ r # 1
    BY <1>1
  <2>2. chars[r - 1] = At(r - 1) /\ IsLetter(r - 1)
    BY <2>1, WhereItEnds
  <2> QED
    BY <1>1, <2>1, <2>2 DEF IsLetter
<1>3. {r \in Starts : r < q} = less \cup {s} /\ UpTo(s) = less \cup {s} /\ s \notin less
  <2>1. \A r \in Starts : r <= s <=> r < s \/ r = s
    BY <1>1
  <2> QED
    BY <1>1, <1>2, <2>1 DEF UpTo
<1>4. Cardinality(less \cup {s}) = Cardinality(less) + 1 /\ Cardinality(less) \in Nat
  <2>1. less \in SUBSET Starts
    OBVIOUS
  <2>2. IsFiniteSet(less) /\ Cardinality(less) \in Nat
    BY <2>1, StartsCount
  <2> QED
    BY <1>3, <2>2, FS_AddElement
<1>5. Len(list) = Cardinality(less)
  BY DEF Recorded
<1> HIDE DEF less
<1>6. /\ Len(list) \in Nat /\ Len(more) = Len(list) + 1 /\ more[Len(list) + 1] = e
      /\ \A k \in 1 .. Len(list) : more[k] = list[k]
  OBVIOUS
<1> HIDE DEF more
<1>7. ASSUME NEW k \in 1 .. Len(more)
      PROVE  \E t \in Starts : /\ Cardinality(UpTo(t)) = k
                               /\ more[k] = [linenum |-> Line(t), lineoffset |-> Column(t),
                                             size |-> Run(t)]
  <2>1. CASE k \in 1 .. Len(list)
    BY <1>6, <2>1 DEF Recorded
  <2>2. CASE k = Len(list) + 1
    BY <1>3, <1>4, <1>5, <1>6, <2>2
  <2> QED
    BY <1>6, <2>1, <2>2
<1>8. Len(more) = Cardinality({r \in Starts : r < q})
  BY <1>3, <1>4, <1>5, <1>6
<1> QED
  BY <1>7, <1>8 DEF Recorded, more

\* A token is known by how many start up to it.
LEMMA StartIs ==
  ASSUME chars \in Seq(Char), NEW s \in Starts
  PROVE  /\ Start(Cardinality(UpTo(s))) = s
         /\ Cardinality(UpTo(s)) <= Cardinality(Starts)
<1>1. \A t \in Starts : /\ t \in Nat /\ UpTo(t) \in SUBSET Starts
                        /\ IsFiniteSet(UpTo(t)) /\ Cardinality(UpTo(t)) \in Nat
  <2>1. \A t \in Starts : t \in Nat /\ UpTo(t) \in SUBSET Starts
    BY StartsAre DEF UpTo
  <2> QED
    BY <2>1, StartsCount
<1>2. ASSUME NEW t \in Starts, NEW r \in Starts, t < r
      PROVE  Cardinality(UpTo(t)) # Cardinality(UpTo(r))
  <2>1. UpTo(t) \in SUBSET UpTo(r) /\ r \in UpTo(r) /\ r \notin UpTo(t)
    <3>1. \A x \in Starts : x \in Nat
      BY <1>1
    <3>2. /\ \A x \in Starts : x <= t => x <= r
          /\ r <= r /\ ~ (r <= t)
      BY <1>2, <3>1
    <3> QED
      BY <3>2 DEF UpTo
  <2> QED
    BY <1>1, <2>1, FS_Subset
<1>3. \A t \in Starts : Cardinality(UpTo(t)) = Cardinality(UpTo(s)) => t = s
  BY <1>1, <1>2
<1>4. Start(Cardinality(UpTo(s))) = s
  <2>1. Start(Cardinality(UpTo(s)))
          = CHOOSE p \in Starts : Cardinality(UpTo(p)) = Cardinality(UpTo(s))
    BY DEF Start, UpTo
  <2> QED
    BY <1>3, <2>1
<1>5. Cardinality(UpTo(s)) <= Cardinality(Starts)
  BY <1>1, StartsAre, FS_Subset
<1> QED
  BY <1>4, <1>5

LEMMA LocatedIfInv ==
  ASSUME TokInv
  PROVE  TokensAreLocated
<1>1. chars \in Seq(Char) /\ i < mem_size /\ Len(chars) \in Nat
  BY WhereItEnds DEF TokInv, TypesOK
<1>2. ASSUME NEW list, NEW q, Recorded(list, q), NEW k \in 1 .. Len(list)
      PROVE  /\ k <= Cardinality(Starts)
             /\ list[k] = [linenum |-> Line(Start(k)), lineoffset |-> Column(Start(k)),
                           size |-> Run(Start(k))]
  <2>1. PICK s \in Starts : /\ Cardinality(UpTo(s)) = k
                            /\ list[k] = [linenum |-> Line(s), lineoffset |-> Column(s),
                                          size |-> Run(s)]
    BY <1>2 DEF Recorded
  <2>2. Start(k) = s /\ k <= Cardinality(Starts)
    BY <1>1, <2>1, StartIs
  <2> QED
    BY <2>1, <2>2
<1>3. CASE pc # "end"
  <2>1. \E q : Recorded(tokens, q)
    BY <1>3 DEF TokInv, TypesOK, Between, Inside
  <2>2. DOMAIN tokens = 1 .. Len(tokens)
    BY DEF TokInv, TypesOK
  <2> QED
    BY <1>1, <1>2, <1>3, <2>1, <2>2 DEF TokensAreLocated
<1>4. CASE pc = "end"
  <2> DEFINE E == [linenum : Int, lineoffset : Int, size : Int]
             e == [linenum |-> Line(EndPlace), lineoffset |-> Column(EndPlace), size |-> 0]
  <2>1. PICK list \in Seq(E) : Recorded(list, Len(chars) + 1) /\ tokens = Append(list, e)
    BY <1>4 DEF TokInv, AtEnd
  <2> HIDE DEF e
  <2>2. Len(list) = Cardinality(Starts) /\ Cardinality(Starts) \in Nat
    <3>1. {r \in Starts : r < Len(chars) + 1} = Starts
      BY <1>1, StartsAre
    <3> QED
      BY <1>1, <2>1, <3>1, StartsAre DEF Recorded
  <2>3. /\ Len(tokens) = Len(list) + 1 /\ DOMAIN tokens = 1 .. Len(list) + 1
        /\ tokens[Len(list) + 1] = e /\ \A k \in 1 .. Len(list) : tokens[k] = list[k]
    BY <2>1
  <2>4. ASSUME NEW k \in DOMAIN tokens
        PROVE  LET p == IF k <= Cardinality(Starts) THEN Start(k) ELSE EndPlace
                   size == IF k <= Cardinality(Starts) THEN Run(p) ELSE 0
               IN  tokens[k] = [linenum |-> Line(p), lineoffset |-> Column(p), size |-> size]
    <3>1. CASE k \in 1 .. Len(list)
      BY <1>2, <2>1, <2>3, <3>1
    <3>2. CASE k = Len(list) + 1
      BY <2>2, <2>3, <3>2 DEF e
    <3> QED
      BY <2>2, <2>3, <3>1, <3>2
  <2> QED
    BY <1>1, <2>2, <2>3, <2>4 DEF TokensAreLocated
<1> QED
  BY <1>3, <1>4

LEMMA StartsLocated ==
  ASSUME TokenInit
  PROVE  TokInv
<1>1. /\ chars \in Seq(Char) /\ pos = 0 /\ pc = "call" /\ i = 0 /\ linenum = 1
      /\ lineoffset = 1 /\ tokens = << >> /\ mem_size \in Nat \ {0}
  BY TokensAssumption DEF TokenInit
<1>2. TypesOK
  BY <1>1, WhereItEnds DEF TypesOK
<1>3. Here = 1
  BY <1>1 DEF Here
<1>4. SaidAt(1) = 1
  <2>1. CASE 1 <= Len(chars)
    BY <2>1 DEF SaidAt
  <2>2. CASE ~ (1 <= Len(chars))
    <3>1. chars = << >> /\ Len(chars) = 0
      BY <1>1, <2>2
    <3> QED
      BY <3>1 DEF SaidAt, EndPlace
  <2> QED
    BY <2>1, <2>2
<1>5. Says(1, 1, 1)
  <2>1. Newlines(1) = {}
    BY DEF Newlines
  <2>2. LastOf({}) = 0 /\ Cardinality({}) = 0
    BY FS_EmptySet DEF LastOf
  <2>3. LastOf(Newlines(1)) = 0 /\ Cardinality(Newlines(1)) = 0
    BY ONLY <2>1, <2>2
  <2>4. Line(1) = 1 /\ Column(1) = 1
    BY ONLY <2>3 DEF Line, Column
  <2> QED
    BY ONLY <2>3, <2>4 DEF Says
<1>6. IsLetter(1) => 1 \in Starts
  BY <1>1, WhereItEnds DEF IsLetter, Starts
<1>7. Recorded(tokens, 1)
  <2>1. {r \in Starts : r < 1} = {}
    BY <1>1, StartsAre
  <2>2. Cardinality({}) = 0 /\ Len(tokens) = 0 /\ \A k \in 1 .. Len(tokens) : FALSE
    BY <1>1, FS_EmptySet
  <2> QED
    BY <2>1, <2>2 DEF Recorded
<1>8. Between(tokens, linenum, lineoffset, Here)
  BY <1>1, <1>3, <1>4, <1>5, <1>6, <1>7 DEF Between
<1> QED
  BY <1>1, <1>2, <1>8 DEF TokInv

\* fgetc: what is looked at next.
LEMMA FetchedIs ==
  ASSUME TypesOK, Fetched, pc' \in {"space", "letter"}
  PROVE  /\ pos' \in 0 .. Len(chars) /\ Here' = pos + 1 /\ c' = At(pos + 1)
         /\ pos + 1 \in Nat \ {0} /\ pos + 1 <= Len(chars) + 1
<1>1. /\ chars \in Seq(Char) /\ Len(chars) \in Nat /\ pos \in Nat /\ pos <= Len(chars)
      /\ c' = At(pos + 1) /\ pos' = IF pos < Len(chars) THEN pos + 1 ELSE pos
  BY WhereItEnds DEF TypesOK, Fetched
<1>2. c' = EOF <=> pos + 1 > Len(chars)
  <2>1. pos + 1 \in Nat \ {0}
    BY <1>1
  <2> QED
    BY <1>1, <2>1, WhereItEnds
<1>3. Here' = IF c' = EOF THEN pos' + 1 ELSE pos'
  BY DEF Here
<1> QED
  BY <1>1, <1>2, <1>3

\* What is looked at, unless it is the end, is the last character consumed.
LEMMA HereIs ==
  ASSUME TokInv, pc \in {"space", "letter"}
  PROVE  /\ Here \in 1 .. Len(chars) + 1 /\ Here \in Nat \ {0} /\ c = At(Here)
         /\ c = EOF => Here = Len(chars) + 1 /\ pos = Len(chars)
         /\ c # EOF => Here = pos /\ Here \in 1 .. Len(chars) /\ c = chars[Here]
<1>1. /\ chars \in Seq(Char) /\ Len(chars) \in Nat /\ pos \in Nat /\ pos <= Len(chars)
      /\ Here > 0 /\ c = At(Here)
  BY WhereItEnds DEF TokInv, TypesOK
<1>2. Here = IF c = EOF THEN pos + 1 ELSE pos
  BY DEF Here
<1>3. Here \in Nat \ {0}
  BY <1>1, <1>2
<1>4. c = EOF <=> Here > Len(chars)
  BY <1>1, <1>3, WhereItEnds
<1>5. c # EOF => c = chars[Here]
  BY <1>1, <1>3, <1>4, WhereItEnds
<1> QED
  BY <1>1, <1>2, <1>3, <1>4, <1>5

\* Where the end of the file is said to be.
LEMMA SaidAtEnd ==
  ASSUME chars \in Seq(Char)
  PROVE  /\ \A q \in 1 .. Len(chars) : SaidAt(q) = q
         /\ Len(chars) > 0 /\ chars[Len(chars)] = NEWLINE => SaidAt(Len(chars) + 1) = Len(chars)
         /\ Len(chars) > 0 /\ chars[Len(chars)] # NEWLINE =>
              SaidAt(Len(chars) + 1) = Len(chars) + 1
<1>1. Len(chars) \in Nat /\ (Len(chars) > 0 => chars # << >>)
  OBVIOUS
<1>2. ~ (Len(chars) + 1 <= Len(chars))
  BY <1>1
<1> QED
  BY <1>1, <1>2 DEF SaidAt, EndPlace

\* What is said of places depends on the text alone.
LEMMA SameText ==
  ASSUME chars' = chars
  PROVE  /\ EndPlace' = EndPlace /\ Starts' = Starts /\ \A p : At(p)' = At(p)
         /\ \A p : /\ Newlines(p)' = Newlines(p) /\ Line(p)' = Line(p)
                   /\ Column(p)' = Column(p) /\ SaidAt(p)' = SaidAt(p)
                   /\ Run(p)' = Run(p) /\ UpTo(p)' = UpTo(p) /\ IsLetter(p)' = IsLetter(p)
<1>1. \A p : At(p)' = At(p)
  BY DEF At
<1>2. EndPlace' = EndPlace
  BY DEF EndPlace
<1>3. Starts' = Starts
  BY DEF Starts
<1>4. \A p : Newlines(p)' = Newlines(p)
  BY <1>1 DEF Newlines
<1>5. \A p : Line(p)' = Line(p) /\ Column(p)' = Column(p)
  BY <1>4 DEF Line, Column
<1>6. \A p : SaidAt(p)' = SaidAt(p)
  BY <1>2 DEF SaidAt
<1>7. \A p : Run(p)' = Run(p)
  BY <1>1 DEF Run
<1>8. \A p : UpTo(p)' = UpTo(p) /\ IsLetter(p)' = IsLetter(p)
  BY <1>1, <1>3 DEF UpTo, IsLetter
<1> QED
  BY <1>1, <1>2, <1>3, <1>4, <1>5, <1>6, <1>7, <1>8

LEMMA BetweenThen ==
  ASSUME chars' = chars, NEW q, q = Here', NEW list, list = tokens', NEW line, line = linenum',
         NEW column, column = lineoffset', Between(list, line, column, q)
  PROVE  Between(tokens, linenum, lineoffset, Here)'
<1>1. Says(line, column, SaidAt(q))'
  BY SameText DEF Between, Says
<1>2. (IsLetter(q) => q \in Starts)'
  BY SameText DEF Between
<1>3. Recorded(list, q)'
  BY SameText DEF Between, Recorded
<1> QED
  BY <1>1, <1>2, <1>3 DEF Between

LEMMA InsideThen ==
  ASSUME chars' = chars, NEW q, q = Here', NEW s, s = Here' - i', NEW list, list = tokens',
         NEW line, line = linenum', NEW column, column = lineoffset',
         Inside(list, line, column, s, q)
  PROVE  Inside(tokens, linenum, lineoffset, Here - i, Here)'
<1>1. Says(line, column, s)'
  BY SameText DEF Inside, Says
<1>2. (s \in Starts /\ s < q /\ \A r \in s .. q - 1 : IsLetter(r))'
  BY SameText DEF Inside
<1>3. Recorded(list, s)'
  BY SameText DEF Inside, Recorded
<1> QED
  BY <1>1, <1>2, <1>3 DEF Inside

\* What holds behind a step that goes on with a space, or with a letter.
LEMMA SpaceThen ==
  ASSUME chars' = chars, pc' = "space", i' = 0, TypesOK', NEW q \in Nat \ {0}, q = Here', c' = At(q),
         NEW line, line = linenum', NEW column, column = lineoffset',
         NEW list, list = tokens', Between(list, line, column, q)
  PROVE  TokInv'
<1>1. Between(tokens, linenum, lineoffset, Here)'
  BY BetweenThen
<1>2. (Here > 0 /\ c = At(Here))'
  <2>1. At(q)' = At(q)
    BY SameText
  <2> QED
    BY <2>1
<1> QED
  BY <1>1, <1>2 DEF TokInv

LEMMA LetterThen ==
  ASSUME chars' = chars, pc' = "letter", TypesOK', NEW q \in Nat \ {0}, q = Here', c' = At(q),
         NEW s, s = q - i', NEW line, line = linenum', NEW column, column = lineoffset',
         NEW list, list = tokens', Inside(list, line, column, s, q)
  PROVE  TokInv'
<1>1. Inside(tokens, linenum, lineoffset, Here - i, Here)'
  BY InsideThen
<1>2. (Here > 0 /\ c = At(Here))'
  <2>1. At(q)' = At(q)
    BY SameText
  <2> QED
    BY <2>1
<1> QED
  BY <1>1, <1>2 DEF TokInv

LEMMA CallLocates ==
  ASSUME TokInv, Call
  PROVE  TokInv'
<1>1. Here = pos + 1 /\ Between(tokens, linenum, lineoffset, pos + 1) /\ TypesOK
  BY DEF TokInv, Call, Here
<1>2. /\ pos' \in 0 .. Len(chars) /\ Here' = pos + 1 /\ c' = At(pos + 1)
      /\ pos + 1 \in Nat \ {0}
  BY <1>1, FetchedIs DEF Call
<1>3. TypesOK'
  BY <1>1, <1>2, TokensAssumption DEF TypesOK, Call
<1>4. PICK q : q = pos + 1
  OBVIOUS
<1> QED
  BY <1>1, <1>2, <1>3, <1>4, SpaceThen DEF Call

LEMMA SwallowLocates ==
  ASSUME TokInv, SwallowBlank \/ SwallowNewline
  PROVE  TokInv'
<1>1. /\ pc = "space" /\ TypesOK /\ i = 0 /\ Fetched /\ pc' = "space" /\ c \in Spaces /\ c # EOF
      /\ UNCHANGED <<chars, i, mem_size, tokens>>
      /\ chars \in Seq(Char) /\ Len(chars) \in Nat
  <2>1. c \in Spaces /\ c # EOF
    <3>1. c \in Spaces
      BY DEF SwallowBlank, SwallowNewline, Spaces
    <3>2. BLANK # EOF /\ NEWLINE # EOF
      BY DEF BLANK, NEWLINE, EOF
    <3> QED
      BY <3>1, <3>2 DEF Spaces
  <2>2. /\ pc = "space" /\ Fetched /\ pc' = "space"
        /\ UNCHANGED <<chars, i, mem_size, tokens>>
    BY DEF SwallowBlank, SwallowNewline
  <2> QED
    BY <2>1, <2>2, WhereItEnds DEF TokInv, TypesOK
<1>2. /\ Here = pos /\ Here \in 1 .. Len(chars) /\ c = chars[Here] /\ c = At(Here)
  BY <1>1, HereIs
<1>3. PICK p : p = Here
  OBVIOUS
<1>4. /\ p \in Nat \ {0} /\ p \in 1 .. Len(chars) /\ pos = p /\ chars[p] = c /\ At(p) = c
      /\ Between(tokens, linenum, lineoffset, p) /\ SaidAt(p) = p
  <2>1. SaidAt(p) = p
    BY <1>1, <1>2, <1>3, SaidAtEnd
  <2>2. p \in Nat \ {0} /\ p \in 1 .. Len(chars) /\ pos = p
    BY <1>1, <1>2, <1>3
  <2>3. chars[p] = c /\ At(p) = c
    BY <1>2, <1>3
  <2>4. Between(tokens, linenum, lineoffset, p)
    BY <1>1, <1>3 DEF TokInv
  <2> QED
    BY <2>1, <2>2, <2>3, <2>4
<1>5. /\ pos' \in 0 .. Len(chars) /\ Here' = p + 1 /\ c' = At(p + 1) /\ p + 1 \in Nat \ {0}
      /\ p + 1 <= Len(chars) + 1
  BY <1>1, <1>4, FetchedIs
<1>6. Says(linenum, lineoffset, p)
  BY <1>4 DEF Between
<1>7. TypesOK'
  <2>1. linenum' \in Int /\ lineoffset' \in Int
    BY <1>1 DEF SwallowBlank, SwallowNewline, TypesOK
  <2> QED
    BY <1>1, <1>5, <2>1 DEF TypesOK
<1>8. IsLetter(p + 1) => p + 1 \in Starts
  <2> SUFFICES ASSUME IsLetter(p + 1) PROVE p + 1 \in Starts
    OBVIOUS
  <2>1. p + 1 \in 1 .. Len(chars)
    BY <1>1, <1>5, WhereItEnds DEF IsLetter
  <2>2. At(p + 1) = chars[p + 1] /\ DOMAIN chars = 1 .. Len(chars)
    BY <1>1, <2>1, WhereItEnds
  <2>3. (p + 1) - 1 = p
    BY <1>4
  <2> QED
    BY <1>1, <1>4, <2>1, <2>2, <2>3 DEF IsLetter, Starts
<1>9. Recorded(tokens, p + 1)
  <2>1. p \notin Starts
    BY <1>1, <1>4 DEF Starts
  <2> QED
    BY <1>1, <1>4, <2>1, NothingToRecord DEF Between
<1>10. CASE SwallowBlank
  <2>1. c # NEWLINE /\ linenum' = linenum /\ lineoffset' = lineoffset + 1
    BY <1>10 DEF SwallowBlank, BLANK, NEWLINE
  <2>2. Says(linenum, lineoffset + 1, p + 1)
    BY <1>4, <1>6, <2>1, NextPlace
  <2>3. SaidAt(p + 1) = p + 1
    <3>1. CASE p + 1 \in 1 .. Len(chars)
      BY <1>1, <3>1, SaidAtEnd
    <3>2. CASE p = Len(chars)
      BY <1>1, <1>4, <2>1, <3>2, SaidAtEnd
    <3> QED
      BY <1>4, <3>1, <3>2
  <2>4. Between(tokens, linenum', lineoffset', p + 1)
    BY <1>8, <1>9, <2>1, <2>2, <2>3 DEF Between
  <2>5. PICK q, line, column : q = p + 1 /\ line = linenum' /\ column = lineoffset'
    OBVIOUS
  <2> QED
    BY <1>1, <1>5, <1>7, <2>4, <2>5, SpaceThen
<1>11. CASE SwallowNewline
  <2>1. /\ c = NEWLINE
        /\ linenum' = IF EndsLine THEN linenum + 1 ELSE linenum
        /\ lineoffset' = IF EndsLine THEN 1 ELSE lineoffset
    BY <1>11 DEF SwallowNewline
  <2>2. EndsLine <=> p + 1 <= Len(chars)
    BY <1>1, <1>4, <1>5, WhereItEnds DEF EndsLine
  <2>3. Says(linenum', lineoffset', SaidAt(p + 1))
    <3>1. CASE EndsLine
      <4>1. SaidAt(p + 1) = p + 1
        BY <1>1, <1>5, <2>2, <3>1, SaidAtEnd
      <4>2. Says(linenum + 1, 1, p + 1)
        BY <1>4, <1>6, <2>1, NextPlace
      <4> QED
        BY <2>1, <3>1, <4>1, <4>2
    <3>2. CASE ~ EndsLine
      <4>1. p = Len(chars)
        BY <1>1, <1>4, <2>2, <3>2
      <4>2. SaidAt(p + 1) = p
        BY <1>1, <1>4, <2>1, <4>1, SaidAtEnd
      <4> QED
        BY <1>6, <2>1, <3>2, <4>2
    <3> QED
      BY <3>1, <3>2
  <2>4. Between(tokens, linenum', lineoffset', p + 1)
    BY <1>8, <1>9, <2>3 DEF Between
  <2>5. PICK q, line, column : q = p + 1 /\ line = linenum' /\ column = lineoffset'
    OBVIOUS
  <2> QED
    BY <1>1, <1>5, <1>7, <2>4, <2>5, SpaceThen
<1> QED
  BY <1>10, <1>11

LEMMA StoreLocates ==
  ASSUME TokInv, StoreLetter
  PROVE  TokInv'
<1>1. /\ pc \in {"space", "letter"} /\ TypesOK /\ Fetched /\ pc' = "letter"
      /\ c \notin Spaces \cup {EOF}
      /\ i' = i + 1 /\ mem_size' = Grown(i + 1)
      /\ UNCHANGED <<chars, linenum, lineoffset, tokens>>
      /\ chars \in Seq(Char) /\ Len(chars) \in Nat /\ i \in Nat /\ mem_size \in Nat
      /\ i < mem_size
  BY WhereItEnds DEF TokInv, StoreLetter, TypesOK
<1>2. PICK p : p = Here
  OBVIOUS
<1>3. p \in Nat \ {0} /\ p \in 1 .. Len(chars) /\ pos = p /\ At(p) = c
  BY <1>1, <1>2, HereIs
<1>4. /\ pos' \in 0 .. Len(chars) /\ Here' = p + 1 /\ c' = At(p + 1) /\ p + 1 \in Nat \ {0}
  BY <1>1, <1>3, FetchedIs
<1>5. mem_size' \in Nat /\ i + 1 < mem_size'
  BY <1>1 DEF Grown
<1>6. TypesOK'
  BY <1>1, <1>4, <1>5 DEF TypesOK
<1>7. IsLetter(p)
  BY <1>1, <1>3 DEF IsLetter
<1>8. Inside(tokens, linenum, lineoffset, p - i, p + 1)
  <2>1. CASE pc = "space"
    <3>1. i = 0 /\ Between(tokens, linenum, lineoffset, p) /\ SaidAt(p) = p /\ p - i = p
      BY <1>1, <1>2, <1>3, <2>1, SaidAtEnd DEF TokInv
    <3>2. \A r \in p .. (p + 1) - 1 : r = p
      BY <1>3
    <3> QED
      BY <1>3, <1>7, <3>1, <3>2 DEF Between, Inside
  <2>2. CASE pc = "letter"
    <3>1. Inside(tokens, linenum, lineoffset, p - i, p)
      BY <1>2, <2>2 DEF TokInv
    <3>2. \A r \in p - i .. (p + 1) - 1 : r \in p - i .. p - 1 \/ r = p
      BY <1>1, <1>3
    <3>3. p - i < p + 1
      BY <1>1, <1>3
    <3> QED
      BY <1>7, <3>1, <3>2, <3>3 DEF Inside
  <2> QED
    BY <1>1, <2>1, <2>2
<1>9. PICK q, s, line, column, list :
        /\ q = p + 1 /\ s = p - i /\ line = linenum' /\ column = lineoffset' /\ list = tokens'
  OBVIOUS
<1>10. s = q - i'
  BY <1>1, <1>3, <1>9
<1> QED
  BY <1>1, <1>4, <1>6, <1>8, <1>9, <1>10, LetterThen

LEMMA FinishLocates ==
  ASSUME TokInv, Finish
  PROVE  TokInv'
<1>1. /\ pc = "letter" /\ TypesOK /\ pc' = "call" /\ c \in Spaces \cup {EOF}
      /\ pos' = IF c = EOF THEN pos ELSE pos - 1
      /\ tokens' = Append(tokens, Token(i))
      /\ lineoffset' = lineoffset + i
      /\ UNCHANGED <<chars, i, mem_size, linenum>>
      /\ chars \in Seq(Char) /\ Len(chars) \in Nat /\ i \in Nat /\ pos \in Nat
      /\ linenum \in Int /\ lineoffset \in Int
  BY WhereItEnds DEF TokInv, Finish, TypesOK
<1>2. PICK q : q = Here
  OBVIOUS
<1>3. /\ q \in Nat \ {0} /\ q \in 1 .. Len(chars) + 1 /\ At(q) = c
      /\ c = EOF => q = Len(chars) + 1 /\ pos = Len(chars)
      /\ c # EOF => q = pos
  BY <1>1, <1>2, HereIs
<1>4. pos' \in 0 .. Len(chars) /\ Here' = q
  BY <1>1, <1>3 DEF Here
<1>5. PICK s : s = q - i
  OBVIOUS
<1>6. Inside(tokens, linenum, lineoffset, s, q)
  BY <1>1, <1>2, <1>5 DEF TokInv
<1>7. /\ s \in Starts /\ s \in Nat \ {0} /\ s \in 1 .. Len(chars) /\ s < q /\ q - s = i
      /\ \A r \in s .. q - 1 : IsLetter(r)
      /\ Recorded(tokens, s) /\ Says(linenum, lineoffset, s)
  BY <1>1, <1>3, <1>5, <1>6, StartsAre DEF Inside
<1>8. ~ IsLetter(q)
  BY <1>1, <1>3 DEF IsLetter
<1>9. Run(s) = i
  BY <1>1, <1>3, <1>7, <1>8, RunIs
<1> DEFINE Entry == [linenum : Int, lineoffset : Int, size : Int]
           e == Token(i)
<1>10. /\ e \in Entry /\ e = [linenum |-> Line(s), lineoffset |-> Column(s), size |-> Run(s)]
  BY <1>1, <1>7, <1>9 DEF Token, Says
<1>11. tokens \in Seq(Entry) /\ tokens' = Append(tokens, e)
  BY <1>1 DEF TypesOK
<1> HIDE DEF e
<1>12. Recorded(tokens', q)
  <2>1. q \in Nat /\ q <= Len(chars) + 1
    BY <1>1, <1>3
  <2>2. PICK list \in Seq(Entry) : list = tokens
    BY <1>11
  <2>3. Recorded(Append(list, e), q)
    BY <1>1, <1>7, <1>10, <2>1, <2>2, OneRecorded
  <2> QED
    BY <1>11, <2>2, <2>3
<1>13. tokens' \in Seq(Entry)
  BY <1>10, <1>11
<1>14. TypesOK'
  BY <1>1, <1>4, <1>13 DEF TypesOK
<1>15. Says(linenum, lineoffset + i, q)
  <2>1. \A r \in s .. q - 1 : At(r) # NEWLINE
    BY <1>7 DEF IsLetter, Spaces
  <2>2. Says(linenum, lineoffset + (q - s), q)
    BY <1>3, <1>7, <2>1, AlongTheLine
  <2> QED
    BY <1>7, <2>2
<1>16. SaidAt(q) = q
  <2>1. CASE q \in 1 .. Len(chars)
    BY <1>1, <2>1, SaidAtEnd
  <2>2. CASE q = Len(chars) + 1
    <3>1. Len(chars) \in s .. q - 1 /\ Len(chars) \in 1 .. Len(chars)
      BY <1>1, <1>7, <2>2
    <3>2. chars[Len(chars)] # NEWLINE
      BY <1>1, <1>7, <3>1, WhereItEnds DEF IsLetter, Spaces
    <3> QED
      BY <1>1, <2>2, <3>1, <3>2, SaidAtEnd
  <2> QED
    BY <1>3, <2>1, <2>2
<1>17. Between(tokens', linenum', lineoffset', q)
  BY <1>1, <1>8, <1>12, <1>15, <1>16 DEF Between
<1>18. PICK list, line, column : list = tokens' /\ line = linenum' /\ column = lineoffset'
  OBVIOUS
<1>19. Between(tokens, linenum, lineoffset, Here)'
  BY <1>1, <1>4, <1>17, <1>18, BetweenThen
<1> QED
  BY <1>1, <1>14, <1>19 DEF TokInv

LEMMA EndLocates ==
  ASSUME TokInv, NoToken
  PROVE  TokInv'
<1>1. /\ pc = "space" /\ TypesOK /\ pc' = "end" /\ c = EOF
      /\ tokens' = Append(tokens, Token(0))
      /\ UNCHANGED <<chars, pos, i, mem_size, linenum, lineoffset>>
      /\ chars \in Seq(Char) /\ Len(chars) \in Nat
      /\ linenum \in Int /\ lineoffset \in Int
  BY WhereItEnds DEF TokInv, NoToken, TypesOK
<1>2. Here = Len(chars) + 1 /\ Between(tokens, linenum, lineoffset, Len(chars) + 1)
  BY <1>1, HereIs DEF TokInv
<1>3. SaidAt(Len(chars) + 1) = EndPlace
  BY <1>1 DEF SaidAt
<1> DEFINE Entry == [linenum : Int, lineoffset : Int, size : Int]
           e == Token(0)
<1>4. e \in Entry /\ e = [linenum |-> Line(EndPlace), lineoffset |-> Column(EndPlace), size |-> 0]
  BY <1>1, <1>2, <1>3 DEF Token, Between, Says
<1>5. tokens \in Seq(Entry) /\ tokens' = Append(tokens, e)
  BY <1>1 DEF TypesOK
<1> HIDE DEF e
<1>6. TypesOK'
  <2>1. tokens' \in Seq(Entry)
    BY <1>4, <1>5
  <2> QED
    BY <1>1, <2>1 DEF TypesOK
<1>7. AtEnd'
  <2>1. PICK list \in Seq(Entry) : list = tokens
    BY <1>5
  <2>2. Recorded(list, Len(chars) + 1)
    BY <1>2, <2>1 DEF Between
  <2>3. Recorded(list, Len(chars) + 1)'
    BY <1>1, <2>2, SameText DEF Recorded
  <2>4. tokens' = Append(list, [linenum |-> Line(EndPlace)', lineoffset |-> Column(EndPlace)',
                                size |-> 0])
    <3>1. EndPlace' = EndPlace
      BY <1>1, SameText
    <3>2. Line(EndPlace)' = Line(EndPlace) /\ Column(EndPlace)' = Column(EndPlace)
      <4>1. \A p : Newlines(p)' = Newlines(p)
        BY <1>1, SameText
      <4> QED
        BY <3>1, <4>1 DEF Line, Column
    <3> QED
      BY <1>4, <1>5, <2>1, <3>2
  <2> QED
    BY <2>3, <2>4 DEF AtEnd
<1> QED
  BY <1>1, <1>6, <1>7 DEF TokInv

LEMMA NothingLocates ==
  ASSUME TokInv, UNCHANGED tokenvars
  PROVE  TokInv'
<1>1. /\ chars' = chars /\ Here' = Here /\ pc' = pc /\ c' = c /\ i' = i /\ TypesOK'
      /\ UNCHANGED <<tokens, linenum, lineoffset>>
  BY DEF TokInv, TypesOK, Here, tokenvars
<1>2. (pc \in {"space", "letter"} => Here > 0 /\ c = At(Here))'
  <2>1. PICK q : q = Here
    OBVIOUS
  <2>2. At(q)' = At(q)
    BY <1>1, SameText
  <2> QED
    BY <1>1, <2>1, <2>2 DEF TokInv
<1>3. (pc \in {"call", "space"} => Between(tokens, linenum, lineoffset, Here))'
  <2>1. PICK q, list, line, column :
          q = Here /\ list = tokens /\ line = linenum /\ column = lineoffset
    OBVIOUS
  <2> QED
    BY <1>1, <2>1, BetweenThen DEF TokInv
<1>4. (pc = "letter" => Inside(tokens, linenum, lineoffset, Here - i, Here))'
  <2>1. PICK q, s, list, line, column :
          /\ q = Here /\ s = Here - i /\ list = tokens /\ line = linenum
          /\ column = lineoffset
    OBVIOUS
  <2> QED
    BY <1>1, <2>1, InsideThen DEF TokInv
<1>5. (pc = "end" => AtEnd)'
  <2> SUFFICES ASSUME pc = "end" PROVE AtEnd'
    BY <1>1
  <2>1. PICK list \in Seq([linenum : Int, lineoffset : Int, size : Int]) :
           /\ Recorded(list, Len(chars) + 1)
           /\ tokens = Append(list, [linenum |-> Line(EndPlace),
                                     lineoffset |-> Column(EndPlace), size |-> 0])
    BY DEF TokInv, AtEnd
  <2>2. Recorded(list, Len(chars) + 1)'
    BY <1>1, <2>1, SameText DEF Recorded
  <2>3. Line(EndPlace)' = Line(EndPlace) /\ Column(EndPlace)' = Column(EndPlace)
    <3>1. EndPlace' = EndPlace /\ \A p : Newlines(p)' = Newlines(p)
      BY <1>1, SameText
    <3> QED
      BY <3>1 DEF Line, Column
  <2> QED
    BY <1>1, <2>1, <2>2, <2>3 DEF AtEnd
<1> QED
  BY <1>1, <1>2, <1>3, <1>4, <1>5 DEF TokInv

(* Whatever the file and the first size of the buffer, the tokens read are *)
(* the runs of letters, in order, each where it is.                        *)
THEOREM TokensAlwaysLocated == TokenSpec => []TokensAreLocated
<1>1. TokenInit => TokInv
  BY StartsLocated
<1>2. TokInv /\ [TokenNext]_tokenvars => TokInv'
  BY CallLocates, SwallowLocates, StoreLocates, FinishLocates, EndLocates, NothingLocates
     DEF TokenNext, Returned
<1>3. TokInv => TokensAreLocated
  BY LocatedIfInv
<1> QED
  BY <1>1, <1>2, <1>3, PTL DEF TokenSpec
=============================================================================
