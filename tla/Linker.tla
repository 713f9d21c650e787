------------------------------- MODULE Linker -------------------------------
(* The two-pass linker (Lab1/src/linker.c, module.c): pass 1 reads the     *)
(* modules, places them one behind the other and gathers the symbol table; *)
(* pass 2 prints the relocated words.  With -f (the default) the modules   *)
(* stay in memory between the passes; with -c the files are read twice,    *)
(* each time without the list that the pass does not need.                 *)
(* One module is one step.  Symbol names are numbers in strcmp's order; a  *)
(* module of the input is [defs, uses, text].  The files are assumed not   *)
(* to change between the passes.                                           *)
EXTENDS Integers, Sequences, SequencesExt

MAX_DEFLIST_SIZE == 16

CONSTANTS ADDR_MEM_SIZE,  \* 512 in the code
          Sources,        \* the modules an input may consist of
          MaxModules      \* bound on the modules of an input

ASSUME LinkerAssumption == ADDR_MEM_SIZE \in Nat /\ MaxModules \in Nat

\* What read_module returns: lists no longer than it accepts.
ASSUME SourcesAssumption ==
  \A src \in Sources :
    /\ src.defs \in Seq([sym : Int, local_offset : Nat])
    /\ Len(src.defs) <= MAX_DEFLIST_SIZE
    /\ src.uses \in Seq(Int)
    /\ src.text \in Seq([addr : {"I", "A", "R", "E"}, val : Nat])

VARIABLES conserve_mem,    \* the -c option
          phase,           \* "pass1", "pass2", "end", or "failed" (exit)
          input,           \* the modules read so far: the input files
          modules,         \* -f: the modules kept for pass 2
          next,            \* the module pass 2 comes to next
          module_id, global_offset,
          symtable,        \* the symbols [sym, offset, module_id, status]
          listing,         \* the symbol table as printed between the passes
          memory,          \* the memory map printed: [addr, word, error]
          unused_uselist   \* [sym, module_id] of the entries not used

vars == <<conserve_mem, phase, input, modules, next, module_id, global_offset,
          symtable, listing, memory, unused_uselist>>
-----------------------------------------------------------------------------
(* The symbol table.                                                       *)

Compare(a, b) == IF a > b THEN 1 ELSE IF a < b THEN -1 ELSE 0

\* Mutant of AfterMiss: a symbol that is larger goes in front, too.
AfterMiss_before(mid, ret) == mid

\* Where the binary search leaves *index after a miss: one step back when
\* the symbol is the smaller one.
AfterMiss(mid, ret) ==
  LET index == IF ret < 0 THEN mid - 1 ELSE mid + 1
  IN  IF index < 0 THEN 0 ELSE index

\* One turn of symbol_index's loop on what is left of the table; indices
\* count from 0 as in the code.
Probe(tab, sym, s) ==
  LET mid == (s.start + s.end) \div 2
      ret == Compare(sym, tab[mid + 1].sym)
  IN  IF s.found \/ s.start > s.end THEN s
      ELSE [start |-> IF ret > 0 THEN mid + 1 ELSE s.start,
            end   |-> IF ret < 0 THEN mid - 1 ELSE s.end,
            index |-> mid, ret |-> ret, found |-> ret = 0]

\* symbol_index: the binary search, over after Len(tab) turns at most.
symbol_index(tab, sym) ==
  LET start == [start |-> 0, end |-> Len(tab) - 1, index |-> 0, ret |-> 0, found |-> FALSE]
      search[k \in 0..Len(tab)] ==
        IF k = 0 THEN start ELSE Probe(tab, sym, search[k - 1])
      over  == search[Len(tab)]
  IN  [found |-> over.found,
       index |-> IF over.ret = 0 THEN over.index ELSE AfterMiss(over.index, over.ret)]

\* A symbol beyond the end of its module counts from the module's start.
LocalOffset(m, d) == IF d.local_offset >= Len(m.text) THEN 0 ELSE d.local_offset

\* Mutants of AddSymbol: the last definition's value is used; the symbols
\* behind the new one are not moved.
AddSymbol_last(tab, m, d) ==
  LET at == symbol_index(tab, d.sym)
  IN  IF at.found
      THEN [tab EXCEPT ![at.index + 1] = [@ EXCEPT !.status = "MULTIPLE_DEFS",
                                                   !.offset = m.base + LocalOffset(m, d)]]
      ELSE InsertAt(tab, at.index + 1,
             [sym |-> d.sym, offset |-> m.base + LocalOffset(m, d),
              module_id |-> m.id, status |-> "SINGLE_DEF"])

AddSymbol_over(tab, m, d) ==
  LET at == symbol_index(tab, d.sym)
      new == [sym |-> d.sym, offset |-> m.base + LocalOffset(m, d),
              module_id |-> m.id, status |-> "SINGLE_DEF"]
  IN  IF at.found
      THEN [tab EXCEPT ![at.index + 1].status = "MULTIPLE_DEFS"]
      ELSE [i \in 1..Len(tab) + 1 |->
              IF i = at.index + 1 THEN new ELSE IF i <= Len(tab) THEN tab[i] ELSE new]

\* One turn of addto_symbol_table's loop.
AddSymbol(tab, m, d) ==
  LET at == symbol_index(tab, d.sym)
  IN  IF at.found
      THEN [tab EXCEPT ![at.index + 1].status = "MULTIPLE_DEFS"]
      ELSE InsertAt(tab, at.index + 1,
             [sym |-> d.sym, offset |-> m.base + LocalOffset(m, d),
              module_id |-> m.id, status |-> "SINGLE_DEF"])

addto_symbol_table(tab, m) ==
  LET table[k \in 0..Len(m.defs)] ==
        IF k = 0 THEN tab ELSE AddSymbol(table[k - 1], m, m.defs[k])
  IN  table[Len(m.defs)]
-----------------------------------------------------------------------------
(* The words of the memory map.                                            *)

opcode(val) == (val \div 1000) * 1000

\* The use list entries the E instructions of a module point at (from 0).
UsesReached(m) ==
  {k \in 0..Len(m.uses) - 1 :
     \E i \in DOMAIN m.text : /\ m.text[i].addr = "E" /\ m.text[i].val < 10000
                              /\ m.text[i].val % 1000 = k}

print_immediate(val) == IF val >= 10000 THEN [word |-> 9999, error |-> "immediate"]
                        ELSE [word |-> val, error |-> "none"]

print_absolute(val) ==
  IF val % 1000 > ADDR_MEM_SIZE THEN [word |-> opcode(val), error |-> "absolute"]
  ELSE [word |-> val, error |-> "none"]

print_relative(val, m) ==
  IF val % 1000 > Len(m.text) THEN [word |-> opcode(val) + m.base, error |-> "relative"]
  ELSE [word |-> val + m.base, error |-> "none"]

print_external(val, m, tab) ==
  IF val % 1000 >= Len(m.uses) THEN [word |-> val, error |-> "external"]
  ELSE LET at == symbol_index(tab, m.uses[(val % 1000) + 1])
       IN  IF at.found THEN [word |-> opcode(val) + tab[at.index + 1].offset, error |-> "none"]
           ELSE [word |-> opcode(val), error |-> "undefined"]

Printed(ins, m, tab) ==
  IF ins.addr = "I" THEN print_immediate(ins.val)
  ELSE IF ins.val >= 10000 THEN [word |-> 9999, error |-> "opcode"]
  ELSE CASE ins.addr = "A" -> print_absolute(ins.val)
         [] ins.addr = "R" -> print_relative(ins.val, m)
         [] ins.addr = "E" -> print_external(ins.val, m, tab)

print_instructions(m, tab) ==
  [i \in DOMAIN m.text |->
     [addr |-> m.base + i - 1, out |-> Printed(m.text[i], m, tab)]]

\* print_external marks the symbols it finds.
Marked(tab, m) ==
  LET hit == {symbol_index(tab, m.uses[k + 1]) : k \in UsesReached(m)}
  IN  [i \in DOMAIN tab |->
         IF \E at \in hit : at.found /\ at.index + 1 = i
         THEN [tab[i] EXCEPT !.status = "USED"] ELSE tab[i]]

\* Mutant of Unreached: only the entries whose symbol exists are dropped.
Unreached_undefined(m) ==
  {k \in 0..Len(m.uses) - 1 :
     k \notin UsesReached(m) \/ ~symbol_index(symtable, m.uses[k + 1]).found}

Unreached(m) == (0..Len(m.uses) - 1) \ UsesReached(m)

\* get_unused_uselist: the entries in the order of the list.
get_unused_uselist(m) ==
  LET unused[k \in 0..Len(m.uses)] ==
        IF k = 0 THEN <<>>
        ELSE IF k - 1 \in Unreached(m)
             THEN Append(unused[k - 1], [sym |-> m.uses[k], module_id |-> m.id])
             ELSE unused[k - 1]
  IN  unused[Len(m.uses)]
-----------------------------------------------------------------------------
\* read_module: the list named by ignore is read over.
Module(src, ignore) ==
  [id |-> module_id + 1, base |-> global_offset,
   defs |-> IF ignore = "SYMBOLS" THEN <<>> ELSE src.defs,
   uses |-> IF ignore = "USELIST" THEN <<>> ELSE src.uses,
   text |-> src.text]

Init == /\ conserve_mem \in BOOLEAN
        /\ phase = "pass1"
        /\ input = <<>> /\ modules = <<>> /\ next = 1
        /\ module_id = 0 /\ global_offset = 0
        /\ symtable = <<>> /\ listing = <<>> /\ memory = <<>>
        /\ unused_uselist = <<>>

\* The machine is full: exit before anything is printed.
TooManyInstructions(src) ==
  /\ phase = "pass1"
  /\ global_offset + Len(src.text) > ADDR_MEM_SIZE
  /\ phase' = "failed"
  /\ UNCHANGED <<conserve_mem, input, modules, next, module_id, global_offset,
                 symtable, listing, memory, unused_uselist>>

ReadModule(src) ==
  /\ phase = "pass1" /\ Len(input) < MaxModules
  /\ global_offset + Len(src.text) <= ADDR_MEM_SIZE
  /\ input' = Append(input, src)
  /\ module_id' = module_id + 1
  /\ global_offset' = global_offset + Len(src.text)
  /\ LET m == Module(src, IF conserve_mem THEN "USELIST" ELSE "NONE")
     IN  /\ symtable' = addto_symbol_table(symtable, m)
         /\ modules' = IF conserve_mem THEN modules ELSE Append(modules, m)
  /\ UNCHANGED <<conserve_mem, phase, next, listing, memory, unused_uselist>>

\* A token that is not what the grammar expects: exit.
SyntaxError ==
  /\ phase = "pass1" /\ phase' = "failed"
  /\ UNCHANGED <<conserve_mem, input, modules, next, module_id, global_offset,
                 symtable, listing, memory, unused_uselist>>

\* Mutant of Restart: the second reading goes on where the first ended.
Restart_forgotten(counter) == counter

\* The counters of read_module start over if the files are read again.
Restart(counter) == IF conserve_mem THEN 0 ELSE counter

EndPass1 ==
  /\ phase = "pass1" /\ phase' = "pass2"
  /\ listing' = [i \in DOMAIN symtable |->
                   [sym |-> symtable[i].sym, offset |-> symtable[i].offset,
                    multiple |-> symtable[i].status = "MULTIPLE_DEFS"]]
  /\ symtable' = [i \in DOMAIN symtable |-> [symtable[i] EXCEPT !.status = "UNUSED"]]
  /\ global_offset' = Restart(global_offset)
  /\ module_id' = Restart(module_id)
  /\ UNCHANGED <<conserve_mem, input, modules, next, memory, unused_uselist>>

Link(m) == /\ memory' = memory \o print_instructions(m, symtable)
           /\ symtable' = Marked(symtable, m)
           /\ unused_uselist' = unused_uselist \o get_unused_uselist(m)

\* The module pass 2 comes to: kept, or read again.
Current == IF conserve_mem THEN Module(input[next], "SYMBOLS") ELSE modules[next]

LinkModule ==
  /\ phase = "pass2" /\ next <= Len(input)
  /\ next' = next + 1
  /\ Link(Current)
  /\ \/ ~conserve_mem /\ UNCHANGED <<module_id, global_offset>>
     \/ /\ conserve_mem
        /\ module_id' = module_id + 1
        /\ global_offset' = global_offset + Len(input[next].text)
  /\ UNCHANGED <<conserve_mem, phase, input, modules, listing>>

EndPass2 ==
  /\ phase = "pass2" /\ next > Len(input)
  /\ phase' = "end"
  /\ UNCHANGED <<conserve_mem, input, modules, next, module_id, global_offset,
                 symtable, listing, memory, unused_uselist>>

Exited == phase \in {"end", "failed"} /\ UNCHANGED vars

AfterPass1 == EndPass1 \/ LinkModule \/ EndPass2 \/ SyntaxError \/ Exited

Next == \/ \E src \in Sources : ReadModule(src) \/ TooManyInstructions(src)
        \/ AfterPass1

Spec == Init /\ [][Next]_vars
-----------------------------------------------------------------------------
(* What the linker is to compute, from the input alone.                    *)
\* Where module j starts: behind the words of the modules in front of it.
Base(j) == Cardinality(UNION {{k} \X DOMAIN input[k].text : k \in 1..j - 1})

Definitions(s) == {d \in (DOMAIN input) \X (1..MAX_DEFLIST_SIZE) :
                     /\ d[2] \in DOMAIN input[d[1]].defs
                     /\ input[d[1]].defs[d[2]].sym = s}

\* Is definition d in front of e?
Earlier(d, e) == d[1] < e[1] \/ (d[1] = e[1] /\ d[2] < e[2])

First(s) == CHOOSE d \in Definitions(s) :
              \A e \in Definitions(s) : d = e \/ Earlier(d, e)

\* The address of a defined symbol: that of its first definition.
Address(s) ==
  LET first == First(s)
      src == input[first[1]]
      off == src.defs[first[2]].local_offset
  IN  Base(first[1]) + IF off < Len(src.text) THEN off ELSE 0

Defined == UNION {{input[j].defs[i].sym : i \in DOMAIN input[j].defs} : j \in DOMAIN input}

\* The symbols are first defined in ascending order.
Ascending == \A s, t \in Defined : s < t => Earlier(First(s), First(t))

(* Once pass 1 is over every symbol is found by the search with the value  *)
(* of its first definition, and is in the table once.                      *)
DefinitionsFound ==
  phase = "pass2" =>
    /\ Len(symtable) = Cardinality(Defined)
    /\ \A s \in Defined :
         LET at == symbol_index(symtable, s)
         IN  at.found /\ symtable[at.index + 1].offset = Address(s)

\* The word an external reference should become.
ExternalWord(src, val) ==
  LET s == src.uses[(val % 1000) + 1]
  IN  opcode(val) + IF s \in Defined THEN Address(s) ELSE 0

(* For definitions that ascend the memory map is linked: word by word in   *)
(* address order; external words point at the first definition, relative   *)
(* ones into their own module, whether the modules were kept or read       *)
(* again; and the symbol table printed with it marks exactly the symbols   *)
(* that are defined repeatedly.                                            *)
MemoryMapIsLinked ==
  phase = "end" /\ Ascending =>
    /\ {listing[k].sym : k \in {l \in DOMAIN listing : listing[l].multiple}}
         = {s \in Defined : Cardinality(Definitions(s)) > 1}
    /\ \A a \in DOMAIN memory : memory[a].addr = a - 1
    /\ \A j \in DOMAIN input : \A i \in DOMAIN input[j].text :
         LET ins == input[j].text[i]
             out == memory[Base(j) + i].out
         IN  ins.val < 10000 =>
               /\ ins.addr = "E" /\ ins.val % 1000 < Len(input[j].uses) =>
                    out.word = ExternalWord(input[j], ins.val)
               /\ ins.addr = "R" /\ out.error = "none" =>
                    (out.word - opcode(ins.val)) \in Base(j)..Base(j) + Len(input[j].text)

(* Whatever the order of the definitions, no symbol drops out of the table *)
(* and none gets in that no module defines.                                *)
NoSymbolLost ==
  phase \in {"pass1", "pass2", "end"} => {symtable[i].sym : i \in DOMAIN symtable} = Defined

(* Pass 2 links each module with the number, the address, the use list and *)
(* the text it had in pass 1, whether it was kept or read a second time.   *)
ModesAgree ==
  phase = "pass2" /\ next <= Len(input) =>
    /\ Current.id = next /\ Current.base = Base(next)
    /\ Current.uses = input[next].uses /\ Current.text = input[next].text

(* A use list entry is reported unused iff no external instruction of its  *)
(* own module points at it, be its symbol defined or not.                  *)
UsesAccounted ==
  phase = "end" =>
    {<<u.module_id, u.sym>> : u \in Range(unused_uselist)}
      = UNION {{<<j, input[j].uses[k]>> : k \in {k \in DOMAIN input[j].uses :
                  \A i \in DOMAIN input[j].text :
                    LET ins == input[j].text[i]
                    IN  ~(ins.addr = "E" /\ ins.val < 10000 /\ ins.val % 1000 = k - 1)}}
               : j \in DOMAIN input}
=============================================================================
