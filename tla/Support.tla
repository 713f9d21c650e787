------------------------------ MODULE Support ------------------------------
(* What the programs stand on, one part at a time; the variables of the    *)
(* other parts do not change.  Lab3's program with each of its policies;   *)
(* the object systems of Lab3 and Lab2, a call of initialize_vector, a     *)
(* client of a memory pool, the file of random numbers, a client of one of *)
(* the container classes; then text: the instructions of Lab3's input, and *)
(* the library beside the parser.                                          *)
EXTENDS MMU, Utils, Containers, RandomFile, InstructionReader, Reading, TLC

CONSTANTS Parts,      \* those that are run
          TOKEN_MEM   \* of the lexer, 16 in the code

ASSUME TextAssumption == TOKEN_MEM \in {2, 4, 8, 16}

VARIABLES part,
          call, broken,                                   \* see LibrarySpec
          lt, lt_initialized, bld,                        \* the object systems
          words, entries, returned,                       \* strings being split
          str2, u, v,                                     \* the string functions
          linenum, lineoffset                             \* the lexer

tables == <<lt, lt_initialized, bld>>
text   == <<instrvars, readingvars, words, entries, returned, str2, u, v, linenum, lineoffset>>
lab    == <<vectorvars, tables, poolvars, random, cvars>>
svars  == <<part, call, broken, mmuvars, lab, text>>
-----------------------------------------------------------------------------
\* Lines of Lab3's input: instructions, one for a page there is not, one in
\* two lines, comments and other line ends.
Lines == {<<"n0", " ", "n0", "\n">>, <<"n1", " ", "n2", "\n">>, <<" ", "n1", "\n", "n0", "#">>,
          <<"n1", " ">>, <<"#", "n0", "\r", "\n">>, <<"\r", "\n">>, <<"x">>}

Flat(ss) == LET flat[k \in 0..Len(ss)] == IF k = 0 THEN <<>> ELSE flat[k - 1] \o ss[k]
            IN  flat[Len(ss)]
LinesOf  == {Flat(ls) : ls \in UNION {[1..k -> Lines] : k \in 0..4}}
Values == [n0 |-> 0, n1 |-> 1, n2 |-> 2]
Untouched == {f \in LinesOf : \A k \in 1..Len(f) - 1 :
                ~({f[k], f[k + 1]} \subseteq {"n0", "n1", "n2"})}

\* The characters of the files read by Reading.
ReadChars == {"p", "\n", "0xFF", "EOT"}

Texts   == UNION {[1..k -> {"x", " "}] : k \in 0..7}
Samples == UNION {[1..k -> {"x", " ", "0", "-"}] : k \in 0..3}
             \cup {<<"x", " ", "x", " ", "x">>, <<" ", "x", " ", " ", "x", " ">>}
Numbers == 0..24

\* Short texts of all kinds, and strings with an escaped quote at any place.
Escaped(l, k) == [j \in 1..l |-> CASE j = k -> "\\" [] j = k + 1 -> "quote" [] OTHER -> "x"]
ToLex == UNION {[1..k -> {"x", " ", "\n", "\r", "*", "/", "quote", "\\"}] : k \in 0..3}
           \cup {Escaped(10, k) : k \in 1..10}

Tables    == INSTANCE Classes
Tables2   == INSTANCE LookupTables
Tools     == INSTANCE StringTools WITH pc <- at, i <- place, room <- entries
Lexing    == INSTANCE Lexer WITH Inputs <- ToLex, pc <- at, size <- place,
                                 room <- currentSize

NoPolicy == MMUInit /\ algorithm = "r"   \* nothing is asked of it
NoTables == lt = NONE /\ lt_initialized = NONE /\ bld = NONE
NoVector == nmemb = NONE /\ filled = NONE /\ i = NONE /\ pc = "none"
NoPool   == PoolInit /\ lifo  \* nobody uses it
NoRandom == /\ length = NONE /\ allocated = FALSE /\ randvals = NONE /\ drawn = NONE
            /\ offset = NONE /\ emptied_file = NONE /\ out = NONE
NoBoxes  == class = "none" /\ NoCells /\ answer = NONE /\ NoArray
NoLab    == NoTables /\ NoVector /\ NoPool /\ NoRandom /\ NoBoxes
NoFiles  == currentSize = NONE /\ count = NONE /\ failed = NONE
NoSplits == words = NONE /\ entries = NONE /\ returned = NONE
NoTools  == str2 = NONE /\ u = NONE /\ v = NONE
NoLexer  == linenum = NONE /\ lineoffset = NONE
NoInstrs == stream = NONE /\ seen = NONE /\ stage = "none" /\ instructions = <<>>
NoReading == /\ input = NONE /\ at = "none" /\ pos = NONE
             /\ fun = NONE /\ str = NONE /\ place = NONE /\ NoFiles
NoText   == NoInstrs /\ NoReading /\ NoSplits /\ NoTools /\ NoLexer
-----------------------------------------------------------------------------
LabInit ==
  \/ part = "classes" /\ Tables!Init /\ NoVector /\ NoPool /\ NoRandom /\ NoBoxes
  \/ part = "classes of Lab2" /\ Tables2!Init /\ NoVector /\ NoPool /\ NoRandom /\ NoBoxes
  \/ part = "vector" /\ VectorInit /\ NoTables /\ NoPool /\ NoRandom /\ NoBoxes
  \/ part = "mempool" /\ PoolInit /\ NoTables /\ NoVector /\ NoRandom /\ NoBoxes
  \/ part = "random" /\ RandomInit /\ NoTables /\ NoVector /\ NoPool /\ NoBoxes
  \/ part = "containers" /\ CInit /\ NoTables /\ NoVector /\ NoPool /\ NoRandom

TextInit ==
  \/ /\ part = "instructions" /\ InstrInit
     /\ NoReading /\ NoSplits /\ NoTools /\ NoLexer
  \/ /\ part = "reading" /\ ReadingInit
     /\ NoInstrs /\ NoSplits /\ NoTools /\ NoLexer
  \/ /\ part = "splitting" /\ Tools!SplitInit
     /\ NoInstrs /\ str = NONE /\ NoFiles /\ NoTools /\ NoLexer
  \/ /\ part = "strings" /\ Tools!Init
     /\ input = NONE /\ at = "none" /\ pos = NONE /\ fun = NONE /\ place = NONE
     /\ NoInstrs /\ NoFiles /\ NoSplits /\ NoLexer
  \/ /\ part = "lexing" /\ Lexing!Init
     /\ NoInstrs /\ str = NONE /\ count = NONE /\ failed = NONE
     /\ NoSplits /\ NoTools

PInit == /\ part \in Parts
         /\ call = NONE /\ broken = {}
         /\ \/ part = "mmu" /\ MMUInit /\ NoLab /\ NoText
            \/ LabInit /\ NoPolicy /\ NoText
            \/ TextInit /\ NoPolicy /\ NoLab

LabNext ==
  \/ part = "classes" /\ Tables!Next /\ UNCHANGED <<vectorvars, poolvars, random, cvars>>
  \/ part = "classes of Lab2" /\ Tables2!Next /\ UNCHANGED <<vectorvars, poolvars, random, cvars>>
  \/ part = "vector" /\ VectorNext /\ UNCHANGED <<tables, poolvars, random, cvars>>
  \/ part = "mempool" /\ PoolNext /\ UNCHANGED <<vectorvars, tables, random, cvars>>
  \/ part = "random" /\ RandomNext /\ UNCHANGED <<vectorvars, tables, poolvars, cvars>>
  \/ part = "containers" /\ CNext /\ UNCHANGED <<vectorvars, tables, poolvars, random>>

TextNext ==
  \/ /\ part = "instructions" /\ InstrNext
     /\ UNCHANGED <<readingvars, words, entries, returned, str2, u, v, linenum, lineoffset>>
  \/ /\ part = "reading" /\ ReadingNext
     /\ UNCHANGED <<instrvars, words, entries, returned, str2, u, v, linenum, lineoffset>>
  \/ /\ part = "splitting" /\ Tools!SplitNext
     /\ UNCHANGED <<instrvars, str, currentSize, count, failed, str2, u, v, linenum, lineoffset>>
  \/ /\ part = "strings" /\ Tools!Next
     /\ UNCHANGED <<instrvars, input, at, pos, fun, currentSize, place, count, failed,
                    words, entries, returned, linenum, lineoffset>>
  \/ /\ part = "lexing" /\ Lexing!Next
     /\ UNCHANGED <<instrvars, str, count, failed, words, entries, returned, str2, u, v>>

PNext == /\ UNCHANGED <<part, call, broken>>
         /\ \/ part = "mmu" /\ MMUNext /\ UNCHANGED <<lab, text>>
            \/ LabNext /\ UNCHANGED <<mmuvars, text>>
            \/ TextNext /\ UNCHANGED <<mmuvars, lab>>

PSpec == PInit /\ [][PNext]_svars

\* The names of containers and the cells of the heap are alike.
Alike == Permutations(Names) \cup Permutations(Cells)
-----------------------------------------------------------------------------
(* What Classes and LookupTables promise: after any order of first use     *)
(* each table holds the most specific methods, calls go up to Object's     *)
(* without NIL, and instance_of knows each object by its classes.         *)
CallsAreAnswered ==
  /\ part = "classes" => Tables!MostSpecific /\ Tables!CallsAreAnswered
  /\ part = "classes of Lab2" => Tables2!ListsAndProcesses

(* The functions on strings do what they say; the lexer reads its strings, *)
(* comments and blanks to their end and knows the place: StringTools, Lexer. *)
TextIsTaken ==
  /\ part = "strings" => Tools!ToolsDoThis
  /\ part = "lexing" => Lexing!LexesText

(* split_str and split_str_lite fill an array of just as many entries as   *)
(* the string has words: StringTools.                                      *)
SplitsIntoWords == part = "splitting" => Tools!SplitsText
-----------------------------------------------------------------------------
(* The library beside the parser, held against its header: one call after  *)
(* the other, each answered before the next.  `broken` has the claims of   *)
(* the header that an answer broke.                                        *)
Call(f, s, c) == [fun |-> f, input |-> s, claim |-> c]
Asked == <<Call("readLine", <<"p", FF, "p">>, "a complete line"),
           Call("readLine", <<"p", "p">>, "a complete line, memory short once"),
           Call("read_file_descriptor", [k \in 1..5 |-> "p"], "as much as possible"),
           Call("split_str_lite", <<"x", " ", "x">>, "the size of the array"),
           Call("read_string", Escaped(10, 2), "no limit on token size"),
           Call("neg_strchr", <<"x", "0">>, "the first char not equal to c"),
           Call("itoa", <<>>, "base 10 representation"),
           Call("startswith", <<>>, "true if str starts with prefix")>>

Begin == /\ fun = Asked[call].fun /\ input = Asked[call].input
         /\ CASE call \in 1..3 -> part = "reading" /\ ReadingInit
              [] call = 4      -> part = "splitting" /\ Tools!SplitInit
              [] call = 5      -> part = "lexing" /\ Lexing!Init
              [] call \in 6..8 -> part = "strings" /\ str = input /\ str2 = <<>> /\ u = 0

LibraryInit == /\ call = 1 /\ broken = {} /\ part = "reading" /\ ReadingInit /\ Begin
               /\ NoPolicy /\ NoLab /\ NoInstrs /\ NoSplits /\ NoTools /\ NoLexer

\* The first calls are made until what is to go wrong has gone wrong.
Answered == \/ call = 1 /\ at = "returned" /\ failed = {}
            \/ call = 2 /\ at = "returned" /\ failed = {"memory"}
            \/ call = 3 /\ at = "returned" /\ failed = {"short"}
            \/ call = 4 /\ at = "done"
            \/ call = 5 /\ at # "in"
            \/ call \in 6..8

Kept == CASE call \in {1, 2} -> Result = FirstLine
          [] call = 3 -> Result = input
          [] call = 4 -> Tools!ReturnsSize
          [] call = 5 -> Lexing!HasRoom
          [] call = 6 -> Tools!FindsOther
          [] call = 7 -> Tools!WritesDigit
          [] call = 8 -> Tools!StartsEmpty

Answer == /\ Answered
          /\ broken' = broken \cup (IF Kept THEN {} ELSE {Asked[call].claim})
          /\ call' = call + 1

\* The variables the next call uses; Begin' says what they start with.
NextCall ==
  /\ call < Len(Asked)
  /\ fun' = Asked[call + 1].fun /\ input' = Asked[call + 1].input
  /\ \/ /\ part' = "reading" /\ pos' = 0 /\ at' = "open" /\ str' = <<>> /\ place' = 0
        /\ currentSize' = READ_MEM /\ count' = 0 /\ failed' = {}
        /\ UNCHANGED <<words, entries, returned, str2, u, linenum, lineoffset>>
     \/ /\ part' = "splitting" /\ pos' = 0 /\ at' = "loop" /\ place' = 0
        /\ words' = <<>> /\ entries' = Tools!Room(0)' /\ returned' = 0
        /\ UNCHANGED <<str, currentSize, count, failed, str2, u, linenum, lineoffset>>
     \/ /\ part' = "lexing" /\ pos' = 0 /\ at' = "in" /\ place' = 1
        /\ currentSize' = TOKEN_MEM /\ linenum' = 1 /\ lineoffset' = 1
        /\ UNCHANGED <<str, count, failed, words, entries, returned, str2, u>>
     \/ /\ part' = "strings" /\ str' = input' /\ str2' = <<>> /\ u' = 0
        /\ UNCHANGED <<pos, at, currentSize, place, count, failed, words, entries,
                       returned, linenum, lineoffset>>
  /\ UNCHANGED <<instrvars, v>>
  /\ Begin'

LibraryNext ==
  /\ UNCHANGED <<mmuvars, lab>>
  /\ \/ call <= Len(Asked) /\ TextNext /\ UNCHANGED <<part, call, broken>>
     \/ Answer /\ NextCall
     \/ Answer /\ call = Len(Asked) /\ UNCHANGED <<part, text>>

LibrarySpec == LibraryInit /\ [][LibraryNext]_svars

(* All of the header's claims that the calls ask about are kept: whole     *)
(* lines, as much of a descriptor as possible, the size of the array, the  *)
(* first other character, a number in base 10, the prefixes of a string,   *)
(* and tokens of any size (parser/utils.h, fsm.c:3).                       *)
AsDocumented == call > Len(Asked) => broken = {}
=============================================================================
