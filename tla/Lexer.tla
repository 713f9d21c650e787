------------------------------- MODULE Lexer -------------------------------
(* The finished functions of the parser's lexer (parser/fsm.c), each called *)
(* behind what it begins with: two that skip comments, one that skips      *)
(* white space, and read_string.  fsm.c does not compile: the functions    *)
(* are taken as they are written, with __TOKEN_MEM_SIZE for the macro of   *)
(* that name with more underscores.                                        *)
EXTENDS Integers, Sequences, FiniteSets

CONSTANTS Inputs,     \* the texts tried: sequences of characters
          TOKEN_MEM   \* 16 in the code, a power of two

NEWLINE == "\n"       \* '\v' and '\f', too
CR      == "\r"
QUOTE   == "quote"
ESCAPE  == "\\"
EOF     == "EOF"

VARIABLES fun, input,
          pos,                  \* how much of it was read
          linenum, lineoffset,
          size, room,           \* of the token, which begins with a quote
          pc                    \* "in", "out"; "stray": written behind the token

lexvars == <<fun, input, pos, linenum, lineoffset, size, room, pc>>

Skips == {"skip_multiline_comment", "skip_eol_comment", "swallow_whitespace"}

At(k) == IF k \in DOMAIN input THEN input[k] ELSE EOF
c     == At(pos + 1)
after == At(pos + 2)
-----------------------------------------------------------------------------
Init == /\ fun \in Skips \cup {"read_string"} /\ input \in Inputs
        /\ pos = 0 /\ linenum = 1 /\ lineoffset = 1
        /\ size = 1 /\ room = TOKEN_MEM /\ pc = "in"

Takes(n) == pos' = pos + n

OnLine(n) == lineoffset' = lineoffset + n /\ linenum' = linenum

\* Mutant of NewLine: counted even if the file ends behind it.
NewLine_always == linenum' = linenum + 1 /\ lineoffset' = 1

\* A newline counts if something follows.
NewLine == IF after = EOF THEN UNCHANGED <<linenum, lineoffset>>
           ELSE linenum' = linenum + 1 /\ lineoffset' = 1

EndOfFile == c = EOF /\ pc' = "out" /\ UNCHANGED <<pos, linenum, lineoffset>>

LineBreak(next) == c = NEWLINE /\ Takes(1) /\ NewLine /\ pc' = next

Return == c = CR /\ Takes(1) /\ lineoffset' = 1 /\ pc' = pc /\ UNCHANGED linenum

\* One turn of each loop.
skip_multiline_comment ==
  \/ EndOfFile \/ LineBreak(pc) \/ Return
  \/ c = "*" /\ after = "/" /\ Takes(2) /\ OnLine(2) /\ pc' = "out"
  \/ c = "*" /\ after # "/" /\ Takes(1) /\ OnLine(1) /\ pc' = pc
  \/ c \notin {EOF, NEWLINE, CR, "*"} /\ Takes(1) /\ OnLine(1) /\ pc' = pc

skip_eol_comment ==
  \/ EndOfFile \/ LineBreak("out")
  \/ c \notin {EOF, NEWLINE} /\ Takes(1) /\ OnLine(1) /\ pc' = pc

swallow_whitespace ==
  \/ LineBreak(pc) \/ Return
  \/ c = " " /\ Takes(1) /\ OnLine(1) /\ pc' = pc
  \/ c \notin {" ", CR, NEWLINE} /\ pc' = "out" /\ UNCHANGED <<pos, linenum, lineoffset>>

Skip == /\ pc = "in"
        /\ \/ fun = "skip_multiline_comment" /\ skip_multiline_comment
           \/ fun = "skip_eol_comment" /\ skip_eol_comment
           \/ fun = "swallow_whitespace" /\ swallow_whitespace
        /\ UNCHANGED <<fun, input, size, room>>
-----------------------------------------------------------------------------
\* Mutant of needs_more_mem: one place too late.
needs_more_mem_late == \E k \in 0..size : 2^k = size /\ size >= TOKEN_MEM

\* size + 1 is a power of two from the first size on.
needs_more_mem == \E k \in 0..size : 2^k = size + 1 /\ size + 1 >= TOKEN_MEM

\* The memory is looked at before the turn's first character is stored, and
\* only then.
Grown == IF c # EOF /\ needs_more_mem THEN 2 * (size + 1) ELSE room

Stores(n, next) == /\ Takes(n) /\ room' = Grown /\ size' = size + n
                   /\ pc' = IF size + n > Grown THEN "stray" ELSE next

read_string ==
  \/ EndOfFile /\ UNCHANGED <<size, room>>
  \/ c = QUOTE /\ Stores(1, "out") /\ OnLine(1)
  \/ c = ESCAPE /\ after = QUOTE /\ Stores(2, pc) /\ OnLine(2)
  \/ c = ESCAPE /\ after # QUOTE /\ Stores(1, pc) /\ OnLine(1)
  \/ c = NEWLINE /\ Stores(1, pc) /\ NewLine
  \/ c \notin {EOF, QUOTE, ESCAPE, NEWLINE} /\ Stores(1, pc) /\ OnLine(0)

ReadString == /\ pc = "in" /\ fun = "read_string" /\ read_string
              /\ UNCHANGED <<fun, input>>

Stopped == pc # "in" /\ UNCHANGED lexvars

Next == Skip \/ ReadString \/ Stopped
Spec == Init /\ [][Next]_lexvars
-----------------------------------------------------------------------------
\* Where the text that is to be read ends: the first place that closes it,
\* or the end of the file.  What is looked at is whether the quote has a
\* backslash in front of it, also where that is escaped itself.
Closes(k) == CASE fun = "skip_multiline_comment" -> At(k) = "/" /\ k > 1 /\ At(k - 1) = "*"
               [] fun = "skip_eol_comment"       -> At(k) = NEWLINE
               [] fun = "swallow_whitespace"     -> At(k + 1) \notin {" ", CR, NEWLINE}
               [] fun = "read_string" -> At(k) = QUOTE /\ ~(k > 1 /\ At(k - 1) = ESCAPE)
Earliest  == IF fun = "swallow_whitespace" THEN 0 ELSE 1
Close     == LET closing == {k \in Earliest..Len(input) : Closes(k)}
             IN  IF closing = {} THEN Len(input)
                 ELSE CHOOSE k \in closing : \A l \in closing : k <= l

\* The newlines that count, and the places that begin a column count.
Breaks  == {k \in 1..pos : At(k) = NEWLINE /\ k < Len(input)}
Resets  == {0} \cup Breaks
               \cup (IF fun \in {"skip_eol_comment", "read_string"} THEN {}
                     ELSE {k \in 1..pos : At(k) = CR})
Counted(k) == IF fun = "read_string"
              THEN At(k) \in {QUOTE, ESCAPE} ELSE k < Len(input) \/ At(k) # NEWLINE
Latest  == CHOOSE r \in Resets : \A q \in Resets : q <= r

(* Each function reads to the end of what it is for and no further, and    *)
(* the place it says it is at is right: but a newline at the very end of   *)
(* the file is not counted, and of a string only quotes and backslashes    *)
(* are.  The token stays inside its memory if it has no escaped quote.     *)
LexesText ==
  /\ pos <= Close
  /\ pc = "out" => pos = Close
  /\ linenum = 1 + Cardinality(Breaks)
  /\ lineoffset = 1 + Cardinality({k \in Latest + 1..pos : Counted(k)})
  /\ fun = "read_string" =>
       /\ pc # "stray" => size = 1 + pos
       /\ (\A k \in DOMAIN input : At(k) = ESCAPE => At(k + 1) # QUOTE) => size < room

\* The comment in front of the functions: no limit on the token's size.
HasRoom == pc # "stray"
=============================================================================
