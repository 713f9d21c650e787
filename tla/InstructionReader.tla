-------------------------- MODULE InstructionReader --------------------------
(* The input of the memory manager (Lab3/src/vmm.c, utils.c): run calls    *)
(* read_instruction until it returns an invalid one.  The file is a        *)
(* sequence of characters, but that a number is one element of it; two     *)
(* numbers never touch.                                                    *)
EXTENDS Integers, Sequences, FiniteSets

CONSTANTS InputFiles,       \* the files tried
          ValueOf,          \* of each number that files are made of
          NUM_VIRT_PAGES    \* 64 in the code

LF   == "\n"
HASH == "#"
CR   == "\r"                \* for '\f' and '\v', too
END  == "END"
Swallowed  == {" ", LF}     \* ... and '\t'
Whitespace == Swallowed \cup {CR}

IsNum(e) == e \in DOMAIN ValueOf

ASSUME InputAssumption ==
  /\ NUM_VIRT_PAGES \in Nat
  /\ \A f \in InputFiles : Len(f) \in Nat /\ DOMAIN f = 1..Len(f)
                           /\ \A k \in 1..Len(f) : f[k] # END
  /\ \A e \in Whitespace \cup {HASH, END} : ~IsNum(e)

VARIABLES stream, seen,
          stage,         \* "swallow", "comment", "scan"; "end", "exit"
          instructions   \* [operation_type, virtual_page] of those returned

instrvars == <<stream, seen, stage, instructions>>

CharAt(k) == IF k \in DOMAIN stream THEN stream[k] ELSE END
-----------------------------------------------------------------------------
InstrInit == /\ stream \in InputFiles /\ seen = 0
             /\ stage = "swallow" /\ instructions = <<>>

\* Mutant of Skipped: tabs, newlines and carriage returns alike.
Skipped_none == {" "}

\* What swallow_whitespace reads over.
Skipped == Swallowed

\* swallow_whitespace, one character a step; the last is put back.
Swallow ==
  /\ stage = "swallow"
  /\ \/ CharAt(seen + 1) \in Skipped /\ seen' = seen + 1 /\ stage' = stage
     \/ CharAt(seen + 1) = HASH /\ seen' = seen + 1 /\ stage' = "comment"
     \/ CharAt(seen + 1) \notin Skipped \cup {HASH} /\ seen' = seen /\ stage' = "scan"
  /\ UNCHANGED <<stream, instructions>>

\* empty_buffer: to the end of the line or of the file.
Comment ==
  /\ stage = "comment"
  /\ IF CharAt(seen + 1) = END THEN seen' = seen ELSE seen' = seen + 1
  /\ stage' = IF CharAt(seen + 1) \in {END, LF} THEN "swallow" ELSE stage
  /\ UNCHANGED <<stream, instructions>>

\* The next place behind p that fscanf does not skip.
NextOf(p) == CHOOSE k \in 1..Len(stream) + 1 :
               /\ k > p \/ k > Len(stream)
               /\ CharAt(k) \notin Whitespace
               /\ \A l \in p + 1..k - 1 : CharAt(l) \in Whitespace

\* fscanf: two numbers, of which the first must be READ or WRITE and the
\* second a page; anything else ends the run.
Scanf ==
  LET first  == NextOf(seen)
      second == NextOf(first)
      read   == IsNum(CharAt(first)) /\ IsNum(CharAt(second))
      valid  == /\ ValueOf[CharAt(first)] \in {0, 1}
                /\ ValueOf[CharAt(second)] \in 0..NUM_VIRT_PAGES - 1
  IN  /\ stage = "scan"
      /\ \/ ~read /\ stage' = "end" /\ UNCHANGED <<seen, instructions>>
         \/ read /\ ~valid /\ stage' = "exit" /\ seen' = second /\ UNCHANGED instructions
         \/ /\ read /\ valid
            /\ instructions' = Append(instructions,
                                 [operation_type |-> ValueOf[CharAt(first)],
                                  virtual_page |-> ValueOf[CharAt(second)]])
            /\ seen' = second /\ stage' = "swallow"
      /\ UNCHANGED stream

Stopped == stage \in {"end", "exit"} /\ UNCHANGED instrvars

InstrNext == Swallow \/ Comment \/ Scanf \/ Stopped
InstrSpec == InstrInit /\ [][InstrNext]_instrvars
-----------------------------------------------------------------------------
\* The places that are not part of a comment.
Code == {k \in DOMAIN stream :
           \A h \in 1..k : stream[h] = HASH => \E n \in h..k - 1 : stream[n] = LF}
Comments == {k \in DOMAIN stream \ Code : k - 1 \in Code \cup {0}}

\* Where the numbers are, those in front of place k, and the j-th.
Places == {k \in Code : IsNum(stream[k])}
NumbersBefore(k) == Cardinality({n \in Places : n < k})
Number(S, j) == CHOOSE k \in S : Cardinality({n \in S : n <= k}) = j

\* The places where reading stops short: anything else among the numbers, or
\* a comment between the two numbers of an instruction.
Obstacles == {k \in Code : ~IsNum(stream[k]) /\ stream[k] \notin Whitespace}
             \cup {k \in Comments : NumbersBefore(k) % 2 = 1}

\* The comments with a carriage return between them and the instruction, or
\* the start of the file, in front of them.
Hidden == {k \in Comments : \E r \in Code : /\ r < k /\ stream[r] = CR
                                           /\ NumbersBefore(r) = NumbersBefore(k)}

\* The instructions in front of the first obstacle.
Complete == LET places == Places
                n == IF Obstacles = {} THEN Cardinality(places)
                     ELSE NumbersBefore(CHOOSE k \in Obstacles : \A l \in Obstacles : k <= l)
            IN  [j \in 1..n \div 2 |->
                   [operation_type |-> ValueOf[stream[Number(places, 2 * j - 1)]],
                    virtual_page   |-> ValueOf[stream[Number(places, 2 * j)]]]]

IsValid(ins) == ins.operation_type \in {0, 1} /\ ins.virtual_page \in 0..NUM_VIRT_PAGES - 1

(* The instructions performed are those of the file with the comments and  *)
(* all white space between them left out, in order, from the first on; the *)
(* program exits only at one that is not valid.  It stops nowhere else, up *)
(* to the first place that cannot be read, unless a comment is hidden:     *)
(* what is done about those is the next property's.                        *)
InstructionsAreRead ==
  /\ \A j \in DOMAIN instructions : /\ j \in DOMAIN Complete
                                    /\ instructions[j] = Complete[j]
                                    /\ IsValid(instructions[j])
  /\ stage = "end" /\ Hidden = {} => Len(instructions) = Len(Complete)
  /\ stage = "exit" => /\ Len(instructions) + 1 \in DOMAIN Complete
                       /\ ~IsValid(Complete[Len(instructions) + 1])

(* White space and comment lines in front of an instruction are skipped    *)
(* (vmm.c:110, utils.h:56): none of them keeps the instructions behind it  *)
(* from being performed.                                                   *)
CommentLinesAreSkipped == stage = "end" => Len(instructions) = Len(Complete)
=============================================================================
