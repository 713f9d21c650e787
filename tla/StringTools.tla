----------------------------- MODULE StringTools -----------------------------
(* The functions on strings and numbers of parser/utilsV4.c: most as pure  *)
(* functions, and at the end of the module split_str and split_str_lite,   *)
(* one turn of their loop a step.  A string is a sequence of characters,   *)
(* which the code sees with '\0' behind it; places count from 0 as in the  *)
(* code.                                                                   *)
EXTENDS Integers, Sequences, SequencesExt, FiniteSets

CONSTANTS Samples,  \* the strings tried
          Numbers,  \* the numbers tried
          Texts     \* the strings split; SEP is the separator

NUL  == "NUL"
NULL == -1
At(s, k) == IF k < Len(s) THEN s[k + 1] ELSE NUL
Least(S) == CHOOSE k \in S : \A l \in S : k <= l
Part(s, from, to) == SubSeq(s, from + 1, to)   \* s[from] .. s[to - 1]

SpaceChar(ch) == ch = " "
-----------------------------------------------------------------------------
\* Stein's algorithm: v loses its factors of two and the smaller number.
RECURSIVE Odd(_)
Odd(n) == IF n % 2 = 0 THEN Odd(n \div 2) ELSE n

\* Mutant of Subtract: the two are not swapped.
RECURSIVE Subtract_unswapped(_, _)
Subtract_unswapped(u, v) == IF Odd(v) <= u THEN u ELSE Subtract_unswapped(u, Odd(v) - u)

RECURSIVE Subtract(_, _)
Subtract(u, v) ==
  LET w == Odd(v)
      low == IF u > w THEN w ELSE u
      high == IF u > w THEN u ELSE w
  IN  IF high = low THEN low ELSE Subtract(low, high - low)

RECURSIVE gcd(_, _)
gcd(u, v) == IF u = 0 THEN v
             ELSE IF v = 0 THEN u
             ELSE IF u % 2 = 0 /\ v % 2 = 0 THEN 2 * gcd(u \div 2, v \div 2)
             ELSE Subtract(Odd(u), v)

\* The word it ends at is the last one with a space behind it; if there is
\* none, the first word.
trim(s) ==
  LET start == Least({k \in 0..Len(s) : ~SpaceChar(At(s, k))})
      word  == Least({k \in start..Len(s) : SpaceChar(At(s, k)) \/ k = Len(s)})
      ends  == {k \in word..Len(s) - 1 : SpaceChar(At(s, k)) /\ ~SpaceChar(At(s, k - 1))}
      end   == IF ends = {} THEN word ELSE CHOOSE k \in ends : \A l \in ends : l <= k
  IN  Part(s, start, end)

\* NULL is the empty set, a string s is {s}.
extract(s, start, end) ==
  LET opens == {k \in 0..Len(s) - 1 : At(s, k) = start}
      ends  == {k \in Least(opens) + 1..Len(s) - 1 : At(s, k) = end}
  IN  IF opens = {} \/ ends = {} THEN {} ELSE {Part(s, Least(opens) + 1, Least(ends))}

insert_str(s, ins, pos) == Part(s, 0, pos) \o ins \o Part(s, pos, Len(s))
erase_str(s, pos, len)  == Part(s, 0, pos) \o Part(s, pos + len, Len(s))

\* What the two may answer: of two empty strings the characters behind
\* their ends are compared.
startswith(s, prefix) ==
  IF s = <<>> /\ prefix = <<>> THEN BOOLEAN
  ELSE LET stop == Least({k \in 0..Len(s) : \/ At(s, k) # At(prefix, k)
                                            \/ k > 0 /\ At(s, k) = NUL})
       IN  {At(prefix, stop) = NUL}

endswith(s, suffix) ==
  Len(s) >= Len(suffix)
    /\ \A k \in 0..Len(suffix) : At(s, Len(s) - k) = At(suffix, Len(suffix) - k)

\* while(*s++ == c): s ends up behind the first other character, which for
\* a string of c alone is its '\0': what lies there is not known.
neg_strchr(s, ch) ==
  LET behind == 1 + Least({k \in 0..Len(s) : At(s, k) # ch})
  IN  IF behind > Len(s) THEN {NULL, behind}
      ELSE IF behind = Len(s) THEN {NULL} ELSE {behind}

\* The digits from the right, as many as it takes to divide n down to 0.
RECURSIVE Digits(_)
Digits(n) == IF n = 0 THEN <<>> ELSE Append(Digits(n \div 10), n % 10)

itoa(n) == IF n < 0 THEN <<"-">> \o Digits(-n) ELSE Digits(n)
-----------------------------------------------------------------------------
VARIABLES str, str2, u, v   \* the arguments of a call of any of them

toolvars == <<str, str2, u, v>>

Init == \/ str \in Samples /\ str2 \in Samples /\ u = 0 /\ v = 0
        \/ str = <<>> /\ str2 = <<>> /\ u \in Numbers /\ v \in Numbers
Next == UNCHANGED toolvars
Spec == Init /\ [][Next]_toolvars
-----------------------------------------------------------------------------
Divides(d, k) == k % d = 0

GcdIsGreatest ==
  LET g == gcd(u, v)
  IN  IF u = 0 /\ v = 0 THEN g = 0
      ELSE /\ Divides(g, u) /\ Divides(g, v)
           /\ \A d \in 1..u + v : Divides(d, u) /\ Divides(d, v) => d <= g

Value(digits) == FoldLeft(LAMBDA k, d : 10 * k + d, 0, digits)

Places == 0..Len(str) - 1

\* Where a word of the string starts and where one ends.
WordAt(k)    == ~SpaceChar(At(str, k)) /\ (k > 0 => SpaceChar(At(str, k - 1)))
WordStarts   == {k \in Places : WordAt(k)}
Words        == Cardinality(WordStarts)
Blank(p)     == \A k \in DOMAIN p : SpaceChar(p[k])
Inner(p)     == p # <<>> => ~SpaceChar(p[1]) /\ ~SpaceChar(Last(p))

\* str without the blanks around it.
Bare(p) == \E from, to \in 0..Len(str) :
             /\ from <= to /\ p = Part(str, from, to) /\ Inner(p)
             /\ Blank(Part(str, 0, from)) /\ Blank(Part(str, to, Len(str)))

\* str up to the last of its words.
LessLast(p) == \E last \in WordStarts :
                 /\ \A k \in WordStarts : k <= last
                 /\ \E from, to \in 0..last :
                      /\ from <= to /\ p = Part(str, from, to) /\ Inner(p)
                      /\ Blank(Part(str, 0, from)) /\ Blank(Part(str, to, last))

Between(a, b) ==
  {Part(str, q[1] + 1, q[2]) :
     q \in {r \in Places \X Places :
            /\ r[1] < r[2] /\ At(str, r[1]) = a /\ At(str, r[2]) = b
            /\ \A k \in Places : /\ k < r[1] => At(str, k) # a
                                 /\ r[1] < k /\ k < r[2] => At(str, k) # b}}

(* What the functions compute, for short strings and small numbers.  gcd   *)
(* is the greatest common divisor; itoa writes a number that is not 0.     *)
(* startswith (unless both strings are empty) and endswith compare all of  *)
(* the prefix and suffix; extract takes what is between the first start    *)
(* and the next end; what insert_str put in erase_str takes out.  trim     *)
(* drops the blanks around a string, and with them the last of several     *)
(* words if no blank follows it.                                           *)
ToolsDoThis ==
  /\ GcdIsGreatest
  /\ u # 0 => Value(itoa(u)) = u
  /\ str # <<>> \/ str2 # <<>> => startswith(str, str2) = {IsPrefix(str2, str)}
  /\ endswith(str, str2) = IsSuffix(str2, str)
  /\ extract(str, "-", "0") = Between("-", "0")
  /\ \A p \in 0..Len(str) :
       erase_str(insert_str(str, str2, p), p, Len(str2)) = str
  /\ IF Words > 1 /\ ~SpaceChar(Last(str)) THEN LessLast(trim(str)) ELSE Bare(trim(str))

(* What the header says of three of them (parser/utils.h): neg_strchr      *)
(* points at the first character that is not the one given, itoa writes    *)
(* some digit, and every string starts with the empty one.                 *)
FindsOther  == neg_strchr(str, "x") = {Least({k \in 0..Len(str) : At(str, k) # "x"})}
WritesDigit == itoa(u) # <<>>
StartsEmpty == startswith(str2, <<>>) = {TRUE}
-----------------------------------------------------------------------------
(* The array of words is allocated by one count and filled by another.     *)
(* split_str_lite differs from split_str in that it does not copy, and in  *)
(* the number it returns.                                                  *)
SEP == " "

VARIABLES fun, input,
          pos,       \* where str points, from 0
          pc,        \* "loop", "rest", "done"
          i,
          words,     \* the entries filled: [from, size]
          room,      \* the entries allocated
          returned   \* the number returned

splitvars == <<fun, input, pos, pc, i, words, room, returned>>

Leading == Least({n \in 0..Len(input) : At(input, n) # SEP})

\* Mutant of Room: the count of the commented line, for empty words, too.
Room_all(p) == 1 + Cardinality({k \in p..Len(input) : At(input, k) = SEP})

\* The first loop: separators with something else behind them.
Room(p) == 1 + Cardinality({k \in p..Len(input) :
                              At(input, k) = SEP /\ At(input, k + 1) \notin {SEP, NUL}})

SplitInit ==
  /\ fun \in {"split_str", "split_str_lite"} /\ input \in Texts
  /\ pos = Leading /\ i = 0 /\ words = <<>> /\ returned = 0
  /\ IF At(input, Leading) = NUL THEN pc = "done" /\ room = 0
     ELSE pc = "loop" /\ room = Room(Leading)

Here == At(input, pos + i)
Word == [from |-> pos, size |-> i]

Turn ==
  /\ pc = "loop" /\ Here # NUL
  /\ IF Here # SEP THEN i' = i + 1 /\ UNCHANGED <<pos, words, returned>>
     ELSE /\ i' = 0
          /\ IF i = 0 THEN pos' = pos + 1 /\ UNCHANGED <<words, returned>>
             ELSE /\ words' = Append(words, Word) /\ returned' = returned + 1
                  /\ pos' = pos + i + 1
  /\ UNCHANGED <<fun, input, pc, room>>

\* The word behind the last separator, which the second does not count.
Rest ==
  /\ pc = "loop" /\ Here = NUL
  /\ words' = IF i # 0 THEN Append(words, Word) ELSE words
  /\ returned' = IF i # 0 /\ fun = "split_str" THEN returned + 1 ELSE returned
  /\ pc' = "done"
  /\ UNCHANGED <<fun, input, pos, i, room>>

Returned == pc = "done" /\ UNCHANGED splitvars

SplitNext == Turn \/ Rest \/ Returned
SplitSpec == SplitInit /\ [][SplitNext]_splitvars
-----------------------------------------------------------------------------
\* The runs of other characters, in order.
Starts == {p \in 0..Len(input) - 1 :
             At(input, p) # SEP /\ (p > 0 => At(input, p - 1) = SEP)}

EndOf(p) == Least({q \in p..Len(input) : At(input, q) \in {SEP, NUL}})

WordsOf == LET from == SelectSeq([k \in DOMAIN input |-> k - 1], LAMBDA p : p \in Starts)
           IN  [k \in DOMAIN from |-> [from |-> from[k], size |-> EndOf(from[k]) - from[k]]]

(* The string is separated into its non-empty words, with one entry of the *)
(* array for each: none is written behind its end, none left uninitialised.*)
(* split_str returns their number.                                         *)
SplitsText ==
  /\ Len(words) <= room
  /\ IsPrefix(words, WordsOf)
  /\ pc = "done" =>
       /\ words = WordsOf /\ room = Len(WordsOf)
       /\ fun = "split_str" => returned = Len(WordsOf)

\* The header says it of split_str_lite, too: the size of the array.
ReturnsSize == returned = room
=============================================================================
