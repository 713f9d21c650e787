------------------------------ MODULE Reading ------------------------------
(* Files read into memory by the library beside the parser                 *)
(* (parser/utilsV4.c): xfopen and readLine, or xopen and                   *)
(* read_file_descriptor.  A call of the system may fail at any time;       *)
(* opening and xrealloc try again.  A read may return less than was asked  *)
(* for.  (EINVAL is an error like others: _GNU_SOURCE is not defined.)     *)
EXTENDS Integers, Sequences, FiniteSets

CONSTANTS Chars,         \* the characters of the files tried
          Short, Long,   \* bounds on their length: of any, of plain ones
          READ_MEM,      \* 32 in the code: the first size of the buffer
          MAX_RETRIES,   \* 5 in the code
          MaxInterrupts  \* bound of the model: EINTR while a file is opened

ASSUME ReadingAssumption ==
  /\ READ_MEM \in Nat \ {0} /\ {Short, Long, MAX_RETRIES, MaxInterrupts} \subseteq Nat
  /\ {"EOF", "?"} \cap Chars = {}

NEWLINE == "\n"
FF      == "0xFF"    \* as a char it equals EOF
EOT     == "EOT"
EOF     == "EOF"
GARBAGE == "?"       \* what uninitialised memory holds

\* The files tried: all that are short, and longer ones of printable
\* characters alone, which take several doublings.
FilesTried == (UNION {[1..k -> Chars] : k \in 0..Short})
              \cup {[k \in 1..l |-> "p"] : l \in 0..Long}

Printable(ch) == ch \notin {NEWLINE, FF, EOT}

VARIABLES fun,              \* "readLine" or "read_file_descriptor"
          input, pos,       \* the file, and how much of it was read
          at,               \* "open", "read", "test", "grow", "finish",
                            \* "shrink", "returned", "null", "underrun", "exit"
          str, currentSize, \* what was stored, and the places allocated
          place,            \* the place behind it, as the code keeps it
          count,            \* of the retry loop
          failed            \* what went wrong so far: "memory", "read", "short"

readingvars == <<fun, input, pos, at, str, currentSize, place, count, failed>>

CharHere == IF pos < Len(input) THEN input[pos + 1] ELSE EOF
-----------------------------------------------------------------------------
ReadingInit == /\ fun \in {"readLine", "read_file_descriptor"}
               /\ input \in FilesTried /\ pos = 0
               /\ at = "open" /\ str = <<>> /\ currentSize = READ_MEM
               /\ place = 0 /\ count = 0 /\ failed = {}

\* ENOMEM, in every retry loop.
OutOfMemory == IF count < MAX_RETRIES THEN at' = at /\ count' = count + 1
               ELSE at' = "exit" /\ count' = count + 1

OtherError == at' = "exit" /\ count' = count

\* xopen, xfopen.  (The first xmalloc of a reader is of this kind, too.)
Open == /\ at = "open"
        /\ \/ OutOfMemory
           \/ OtherError
           \/ count < MAX_RETRIES + MaxInterrupts /\ count' = count + 1 /\ at' = at
           \/ count' = 0 /\ at' = "read"
        /\ UNCHANGED <<fun, input, pos, str, currentSize, place, failed>>

\* realloc moves what is stored.  But the first failure has replaced the
\* pointer by NULL, and a retry allocates a new block.
Moved == IF count = 0 THEN str ELSE [k \in DOMAIN str |-> GARBAGE]

\* One turn of xrealloc's loop.
Reallocate(size, next) ==
  \/ OutOfMemory /\ failed' = failed \cup {"memory"} /\ UNCHANGED <<str, currentSize>>
  \/ OtherError /\ UNCHANGED <<str, currentSize, failed>>
  \/ /\ str' = Moved /\ currentSize' = size
     /\ count' = 0 /\ at' = next
     /\ UNCHANGED failed

Grow == /\ at = "grow"
        /\ Reallocate(2 * currentSize, "read")
        /\ UNCHANGED <<fun, input, pos, place>>
-----------------------------------------------------------------------------
\* Mutant of Full: the buffer grows when it is to be overrun.
Full_over(n) == n > currentSize

\* Both loops let the buffer grow then.
Full(n) == n = currentSize

\* The loop of readLine.
EndsLine == CharHere \in {EOF, NEWLINE, FF}

StoreChar == /\ fun = "readLine" /\ at = "read" /\ ~EndsLine
             /\ IF Full(place) THEN at' = "grow" /\ UNCHANGED <<pos, str, place>>
                ELSE /\ str' = Append(str, CharHere)
                     /\ place' = place + 1 /\ pos' = pos + 1 /\ at' = at
             /\ UNCHANGED <<fun, input, currentSize, count, failed>>

EndOfLine == /\ fun = "readLine" /\ at = "read" /\ EndsLine
             /\ pos' = IF CharHere = EOF THEN pos ELSE pos + 1
             /\ at' = IF place = 0 /\ CharHere # NEWLINE THEN "null" ELSE "shrink"
             /\ UNCHANGED <<fun, input, str, currentSize, place, count, failed>>

\* The loop of read_file_descriptor: n is what read returns.
Read ==
  /\ fun = "read_file_descriptor" /\ at = "read"
  /\ \E n \in -1..currentSize - place :
       /\ n > 0 => n <= Len(input) - pos
       /\ n = 0 => pos = Len(input)
       /\ place' = place + n /\ at' = "test"
       /\ pos' = IF n > 0 THEN pos + n ELSE pos
       /\ str' = IF n > 0 THEN str \o SubSeq(input, pos + 1, pos + n) ELSE str
       /\ failed' = failed \cup (IF n = -1 THEN {"read"} ELSE {})
                           \cup (IF n \in 0..currentSize - place - 1 /\ pos + n < Len(input)
                                 THEN {"short"} ELSE {})
  /\ UNCHANGED <<fun, input, currentSize, count>>

\* It goes on when the array has been filled, or half of it.
Test == /\ at = "test"
        /\ at' = IF Full(place) THEN "grow"
                 ELSE IF 2 * place = currentSize THEN "read" ELSE "finish"
        /\ UNCHANGED <<fun, input, pos, str, currentSize, place, count, failed>>

\* What isprint may say of a place.
MayPrint(k)   == Printable(str[k])
MayBeOther(k) == ~Printable(str[k]) \/ str[k] = GARBAGE

\* Behind the loop: an error or EOT at once, or the end is cut down to the
\* last printable character; without any, places in front of the array are
\* read.  (That the place of an empty array is read at all is left out.)
Finish ==
  /\ fun = "read_file_descriptor" /\ at = "finish"
  /\ \/ place = -1 /\ at' = "null" /\ UNCHANGED place
     \/ /\ place > 0 /\ str[1] \in {EOT, GARBAGE}
        /\ at' = "null" /\ UNCHANGED place
     \/ /\ place >= 0 /\ (place > 0 => str[1] # EOT)
        /\ \E last \in 0..place :
             /\ \A k \in last + 1..place : MayBeOther(k)
             /\ last > 0 => MayPrint(last)
             /\ place' = last /\ at' = IF last = 0 THEN "underrun" ELSE "shrink"
  /\ UNCHANGED <<fun, input, pos, str, currentSize, count, failed>>

\* The last xrealloc, to the size needed, and the '\0' at place i.
Shrink == /\ at = "shrink"
          /\ Reallocate(place + 1, "returned")
          /\ UNCHANGED <<fun, input, pos, place>>

ReadingStopped == at \in {"returned", "null", "underrun", "exit"} /\ UNCHANGED readingvars

ReadingNext == \/ Open \/ Grow \/ StoreChar \/ EndOfLine \/ Read \/ Test \/ Finish \/ Shrink
               \/ ReadingStopped

ReadingSpec == ReadingInit /\ [][ReadingNext]_readingvars /\ WF_readingvars(ReadingNext)
-----------------------------------------------------------------------------
\* The characters in front of the first newline, and whether it has an FF.
FirstLine ==
  LET ends == {k \in DOMAIN input : input[k] = NEWLINE}
  IN  IF ends = {} THEN input
      ELSE SubSeq(input, 1, (CHOOSE k \in ends : \A l \in ends : k <= l) - 1)

HasFF(s) == \E k \in DOMAIN s : s[k] = FF

\* s without what cannot be printed at its end.
Stripped(s) == LET good == {k \in DOMAIN s : Printable(s[k])}
               IN  SubSeq(s, 1, Cardinality({k \in DOMAIN s : \E l \in good : k <= l}))

Result == SubSeq(str, 1, place)

(* What the readers do whatever fails on the way.  Nothing is written      *)
(* behind the buffer.  A line is returned whole: all that is in front of   *)
(* the first newline or end of file.  Of a descriptor all is returned that *)
(* was read, without what cannot be printed at the end: the whole file     *)
(* unless a read failed or fell short.  Nothing is said here of lines with *)
(* an FF and of reallocations that were tried again: see Support's         *)
(* AsDocumented.                                                           *)
KeepData ==
  /\ at \in {"read", "test", "grow"} => Len(str) <= currentSize
  /\ at = "returned" => place < currentSize
  /\ at = "returned" /\ "memory" \notin failed =>
       IF fun = "readLine" THEN HasFF(FirstLine) \/ Result = FirstLine
       ELSE /\ \E n \in 0..pos : Result = Stripped(SubSeq(input, 1, n))
            /\ failed = {} => Result = Stripped(input)
  /\ at = "null" /\ failed = {} =>
       IF fun = "readLine" THEN HasFF(FirstLine) \/ FirstLine = <<>> ELSE input[1] = EOT
  /\ at = "underrun" /\ failed = {} => Stripped(input) = <<>>

(* read_file_descriptor reads as much as possible from the file descriptor *)
(* and returns.                                                            *)
ReadEnds == at = "read" ~> at \in {"returned", "null", "underrun", "exit"}
=============================================================================
