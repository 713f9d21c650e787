---------------------------- MODULE ModuleReader ----------------------------
(* The grammar of the linker's input (Lab1/src/module.c, symbol.c,         *)
(* instruction.c): read_module called until it returns NULL or an error    *)
(* ends the program.  One token is one step.  A token is what the reader   *)
(* can tell of it: a number, one of the letters I, A, R, E, a name, LONG   *)
(* (a name of more than 16 characters) or BAD (anything else).             *)
EXTENDS Integers, Sequences, SequencesExt

CONSTANTS Files,              \* the files tried: sequences of [defs, uses, text]
          MAX_DEFS, MAX_USES, \* MAX_DEFLIST_SIZE and MAX_USELIST_SIZE, 16 in the code
          MAX_WORDS           \* ADDR_MEM_SIZE, 512 in the code

ASSUME LimitsAssumption == {MAX_DEFS, MAX_USES, MAX_WORDS} \subseteq Nat

\* What is written in a file: lists of definitions and of instructions, which
\* are pairs, and of the symbols used.
IsList(s)  == Len(s) \in Nat /\ s = [k \in 1..Len(s) |-> s[k]]
IsPairs(s) == IsList(s) /\ \A k \in 1..Len(s) : s[k] = <<s[k][1], s[k][2]>>
IsModule(src) ==
  /\ src = [defs |-> src.defs, uses |-> src.uses, text |-> src.text]
  /\ IsPairs(src.defs) /\ IsList(src.uses) /\ IsPairs(src.text)

ASSUME FilesAssumption ==
  \A f \in Files : IsList(f) /\ \A k \in 1..Len(f) : IsModule(f[k])

Number(n) == [kind |-> "number", value |-> n]
Letter(a) == [kind |-> "letter", value |-> a]
Name(s)   == [kind |-> "name", value |-> s]
LONG      == [kind |-> "long", value |-> 0]
BAD       == [kind |-> "bad", value |-> 0]
NULL      == [kind |-> "null", value |-> 0]

VARIABLES file, stream,   \* the modules meant, and the tokens there are
          taken,          \* tokens read
          ignore,         \* the list to be skipped: "NONE", "USELIST", "SYMBOLS"
          expect, left,   \* what comes next, and how many of the list it is in
          mod, returned,  \* the module being read, and those read
          offset,         \* global_offset
          error           \* [what, at] of the parse error, or NULL

readervars == <<file, stream, taken, ignore, expect, left, mod, returned,
                offset, error>>
-----------------------------------------------------------------------------
(* A module as it is written down, and the damage a file may have: it ends *)
(* early, or a token is replaced.                                          *)
Written(src) ==
  <<Number(Len(src.defs))>>
    \o FlattenSeq([k \in DOMAIN src.defs |-> <<Name(src.defs[k][1]), Number(src.defs[k][2])>>])
    \o <<Number(Len(src.uses))>>
    \o [k \in DOMAIN src.uses |-> Name(src.uses[k])]
    \o <<Number(Len(src.text))>>
    \o FlattenSeq([k \in DOMAIN src.text |-> <<Letter(src.text[k][1]), Number(src.text[k][2])>>])

Tokens(f)  == FlattenSeq([k \in DOMAIN f |-> Written(f[k])])
Damaged(s) == {s} \cup {SubSeq(s, 1, k - 1) : k \in DOMAIN s}
                  \cup {[s EXCEPT ![k] = t] : k \in DOMAIN s, t \in {BAD, LONG}}
-----------------------------------------------------------------------------
Empty == [defs |-> <<>>, uses |-> <<>>, text |-> <<>>]

ReaderInit == /\ file \in Files
              /\ stream \in Damaged(Tokens(file))
              /\ ignore \in {"NONE", "USELIST", "SYMBOLS"}
              /\ taken = 0 /\ expect = "module" /\ left = 0
              /\ mod = Empty /\ returned = <<>>
              /\ offset = 0 /\ error = NULL

token == IF taken < Len(stream) THEN stream[taken + 1] ELSE NULL

is_valid_int         == token.kind = "number"
is_valid_symbol_name == token.kind \in {"letter", "name"}
is_valid_addressing  == token.kind = "letter"

__parseerror(what) ==
  /\ error' = [what |-> what, at |-> taken + 1]
  /\ expect' = "exit" /\ taken' = taken + 1
  /\ UNCHANGED <<file, stream, ignore, left, mod, returned, offset>>

\* The token is taken, and next is what comes then.
Take(next, n) == /\ expect' = next /\ left' = n /\ taken' = taken + 1
                 /\ UNCHANGED <<file, stream, ignore, error>>

\* read_module finds no token: the end of the file.
EndOfFile ==
  /\ expect = "module" /\ token = NULL
  /\ expect' = "end"
  /\ UNCHANGED <<file, stream, taken, ignore, left, mod, returned, offset, error>>

\* The number of definitions (of uses) of a module.
Count(of, item, next, max, what) ==
  /\ expect = of
  /\ of = "module" => token # NULL
  /\ \/ ~is_valid_int /\ __parseerror("NUM_EXPECTED")
     \/ is_valid_int /\ token.value > max /\ __parseerror(what)
     \/ /\ is_valid_int /\ token.value <= max
        /\ IF token.value = 0 THEN Take(next, 0) ELSE Take(item, token.value)
        /\ mod' = IF of = "module" THEN Empty ELSE mod
        /\ UNCHANGED <<returned, offset>>

read_symbol_list == Count("module", "symbol", "uses", MAX_DEFS, "TOO_MANY_DEF_IN_MODULE")
read_use_list    == Count("uses", "use", "text", MAX_USES, "TOO_MANY_USE_IN_MODULE")

\* read_symbol, for a list that is kept or skipped.
Symbol ==
  /\ expect = "symbol"
  /\ \/ ~is_valid_symbol_name
        /\ __parseerror(IF token = LONG THEN "SYM_TOLONG" ELSE "SYM_EXPECTED")
     \/ /\ is_valid_symbol_name
        /\ Take("local_offset", left)
        /\ mod' = IF ignore = "SYMBOLS" THEN mod
                  ELSE [mod EXCEPT !.defs = Append(@, <<token.value>>)]
        /\ UNCHANGED <<returned, offset>>

\* What comes behind an item of a list.
After(item, next) == IF left = 1 THEN next ELSE item

\* The second half of the last pair of a list.
Completed(s, v) == [s EXCEPT ![Len(s)] = Append(@, v)]

SymbolOffset ==
  /\ expect = "local_offset"
  /\ \/ ~is_valid_int /\ __parseerror("NUM_EXPECTED")
     \/ /\ is_valid_int
        /\ Take(After("symbol", "uses"), left - 1)
        /\ mod' = IF ignore = "SYMBOLS" THEN mod
                  ELSE [mod EXCEPT !.defs = Completed(@, token.value)]
        /\ UNCHANGED <<returned, offset>>

\* Mutant of KeepsUses: the list to be skipped is kept.
KeepsUses_all == TRUE

\* Is the use list kept?
KeepsUses == ignore # "USELIST"

Use ==
  /\ expect = "use"
  /\ \/ ~is_valid_symbol_name /\ __parseerror("SYM_EXPECTED")
     \/ /\ is_valid_symbol_name
        /\ Take(After("use", "text"), left - 1)
        /\ mod' = IF KeepsUses THEN [mod EXCEPT !.uses = Append(@, token.value)] ELSE mod
        /\ UNCHANGED <<returned, offset>>

\* The number of instructions; without any, the module is complete.  (The
\* offset is advanced before the error is met, and not used again.)
read_program_text ==
  /\ expect = "text"
  /\ \/ ~is_valid_int /\ __parseerror("NUM_EXPECTED")
     \/ /\ is_valid_int /\ offset + token.value > MAX_WORDS
        /\ __parseerror("TOO_MANY_INSTR")
     \/ /\ is_valid_int /\ offset + token.value <= MAX_WORDS
        /\ offset' = offset + token.value
        /\ \/ token.value > 0 /\ Take("addressing", token.value) /\ UNCHANGED <<mod, returned>>
           \/ token.value = 0 /\ Take("module", 0) /\ UNCHANGED mod
              /\ returned' = Append(returned, mod)

Addressing ==
  /\ expect = "addressing"
  /\ \/ ~is_valid_addressing /\ __parseerror("ADDR_EXPECTED")
     \/ /\ is_valid_addressing
        /\ Take("instruction", left)
        /\ mod' = [mod EXCEPT !.text = Append(@, <<token.value>>)]
        /\ UNCHANGED <<returned, offset>>

InstructionWord ==
  /\ expect = "instruction"
  /\ \/ ~is_valid_int /\ __parseerror("NUM_EXPECTED")
     \/ /\ is_valid_int
        /\ Take(After("addressing", "module"), left - 1)
        /\ LET m == [mod EXCEPT !.text = Completed(@, token.value)]
           IN  mod' = m /\ returned' = IF left = 1 THEN Append(returned, m) ELSE returned
        /\ UNCHANGED offset

Stopped == expect \in {"end", "exit"} /\ UNCHANGED readervars

ReaderNext == Stopped \/ EndOfFile \/ read_symbol_list \/ Symbol \/ SymbolOffset \/ read_use_list \/ Use
          \/ read_program_text \/ Addressing \/ InstructionWord

ReaderSpec == ReaderInit /\ [][ReaderNext]_readervars
-----------------------------------------------------------------------------
\* What the file is meant to say: the role of each token.
Roles(src) ==
  <<"number">>
    \o FlattenSeq([k \in DOMAIN src.defs |-> <<"definition", "number">>])
    \o <<"number">> \o [k \in DOMAIN src.uses |-> "use"]
    \o <<"number">>
    \o FlattenSeq([k \in DOMAIN src.text |-> <<"addressing", "number">>])
Meant == FlattenSeq([k \in DOMAIN file |-> Roles(file[k])])

\* The complaint about a token that does not fit its role.
Complaint(role, tok) ==
  CASE role = "number"     -> "NUM_EXPECTED"
    [] role = "addressing" -> "ADDR_EXPECTED"
    [] role = "definition" /\ tok = LONG -> "SYM_TOLONG"
    [] OTHER -> "SYM_EXPECTED"

TokenAt(k) == IF k <= Len(stream) THEN stream[k] ELSE NULL

Before(k) == SubSeq(file, 1, k - 1)
Begin(k)  == 1 + Len(Tokens(Before(k)))
Size(k)   == LET size[n \in 0..k] == IF n = 0 THEN 0 ELSE size[n - 1] + Len(file[n].text)
             IN  size[k]

\* The limits that module k breaks, each with the token that says so.
Broken(k) ==
  LET d == Len(file[k].defs)
      u == Len(file[k].uses)
  IN  (IF d > MAX_DEFS
       THEN {[what |-> "TOO_MANY_DEF_IN_MODULE", at |-> Begin(k)]} ELSE {})
      \cup (IF u > MAX_USES
            THEN {[what |-> "TOO_MANY_USE_IN_MODULE", at |-> Begin(k) + 1 + 2 * d]} ELSE {})
      \cup (IF Size(k) > MAX_WORDS
            THEN {[what |-> "TOO_MANY_INSTR", at |-> Begin(k) + 2 + 2 * d + u]} ELSE {})

\* Everything that is wrong with the file; it may end between two modules.
Damages == {k \in DOMAIN Meant : TokenAt(k) # Tokens(file)[k]}
Errors  == {[what |-> Complaint(Meant[k], TokenAt(k)), at |-> k] :
              k \in {d \in Damages : TokenAt(d) # NULL \/ d # Len(stream) + 1
                                       \/ \A n \in DOMAIN file : d # Begin(n)}}
           \cup {e \in UNION {Broken(k) : k \in DOMAIN file} : e.at \notin Damages}

Skipped(src) == [defs |-> IF ignore = "SYMBOLS" THEN <<>> ELSE src.defs,
                 uses |-> IF ignore = "USELIST" THEN <<>> ELSE src.uses,
                 text |-> src.text]

(* What was written is read back: of a sound file, or one that ends        *)
(* between two modules, every module, less the list the pass skips.        *)
(* Otherwise the program exits at the first token that is wrong, whether   *)
(* it belongs to a skipped list or not, and says what it expected there.   *)
ReadsWhatWasWritten ==
  /\ expect = "end" =>
       \E k \in 0..Len(file) :
         /\ taken = Len(Tokens(Before(k + 1))) /\ taken = Len(stream)
         /\ \A e \in Errors : e.at > taken
         /\ returned = [n \in 1..k |-> Skipped(file[n])]
  /\ expect = "exit" =>
       /\ error \in Errors
       /\ \A e \in Errors : error.at <= e.at
=============================================================================
