------------------------------- MODULE MCLab1 -------------------------------
(* The three layers of the linker program, one at a time, each with its    *)
(* inputs: the characters of a file made tokens, tokens made modules,      *)
(* modules linked.  The variables of the other layers do not exist.        *)
EXTENDS Linker, Tokens, ModuleReader

CONSTANT Parts  \* the layers looked at

ASSUME LayersAssumption == Parts \subseteq {"tokens", "reader", "linker"}

VARIABLE part

lvars == <<part, vars, tokenvars, readervars>>
-----------------------------------------------------------------------------
\* Modules for the linker: every combination of a few definition lists (one
\* symbol beyond its module's end), use lists and program texts.
Def(s, off) == [sym |-> s, local_offset |-> off]
Ins(addr, val) == [addr |-> addr, val |-> val]

DefLists == {<<>>, <<Def(1, 0)>>, <<Def(3, 1)>>, <<Def(2, 0), Def(1, 1)>>,
             <<Def(2, 7)>>, <<Def(1, 0), Def(2, 1)>>}
UseLists == {<<>>, <<1>>, <<3, 2>>}
Programs == {<<Ins("E", 2000)>>,
             <<Ins("R", 1001), Ins("E", 3001)>>,
             <<Ins("A", 1004), Ins("I", 10000), Ins("E", 10000)>>,
             <<Ins("R", 4002)>>}

AllSources == {[defs |-> d, uses |-> u, text |-> t] :
                 d \in DefLists, u \in UseLists, t \in Programs}

\* Definitions only, of one word each.
DefSources == {[defs |-> d, uses |-> <<>>, text |-> <<Ins("I", 1)>>] : d \in DefLists}

TokenTexts == UNION {[1..n -> {"x", " ", "\n"}] : n \in 0..7}

\* Lists that are short, full and too long, in the first module and the next.
FirstModules ==
  [defs : {<<>>, <<<<1, 0>>>>, <<<<1, 0>>, <<2, 1>>, <<3, 1>>>>},
   uses : {<<>>, <<1, 2>>},
   text : {<<>>, <<<<"E", 5>>>>, <<<<"R", 5>>, <<"I", 6>>>>}]
NextModules ==
  {[defs |-> <<<<1, 0>>>>, uses |-> <<1>>, text |-> <<<<"E", 5>>, <<"A", 4>>>>],
   [defs |-> <<>>, uses |-> <<1, 2, 3>>, text |-> <<>>],
   [defs |-> <<<<1, 0>>, <<2, 0>>>>, uses |-> <<>>, text |-> <<<<"A", 4>>>>]}
FilesToRead == {<<m>> : m \in FirstModules}
                 \cup {<<m, n>> : m \in FirstModules, n \in NextModules}

NONE     == 0
NoTokens == /\ chars = NONE /\ pos = NONE /\ pc = "none" /\ c = NONE /\ i = NONE
            /\ mem_size = TOKEN_MEM /\ linenum = NONE /\ lineoffset = NONE /\ tokens = <<>>
NoReader == /\ file = NONE /\ stream = NONE /\ taken = NONE /\ ignore = "none"
            /\ expect = "none" /\ left = NONE /\ mod = NONE /\ returned = NONE
            /\ offset = NONE /\ error = NONE
NoLinker == /\ conserve_mem = FALSE /\ phase = "none" /\ input = NONE /\ modules = NONE
            /\ next = NONE /\ module_id = NONE /\ global_offset = NONE
            /\ symtable = NONE /\ listing = NONE /\ memory = NONE
            /\ unused_uselist = NONE

LInit == /\ part \in Parts
         /\ \/ part = "linker" /\ Init /\ NoTokens /\ NoReader
            \/ part = "tokens" /\ TokenInit /\ NoReader /\ NoLinker
            \/ part = "reader" /\ ReaderInit /\ NoTokens /\ NoLinker

LNext == /\ UNCHANGED part
         /\ \/ part = "linker" /\ Next /\ UNCHANGED <<tokenvars, readervars>>
            \/ part = "tokens" /\ TokenNext /\ UNCHANGED <<vars, readervars>>
            \/ part = "reader" /\ ReaderNext /\ UNCHANGED <<vars, tokenvars>>

LSpec == LInit /\ [][LNext]_lvars
=============================================================================
