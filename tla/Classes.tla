------------------------------ MODULE Classes ------------------------------
(* The object system (Lab3/src/object.c).  A class is a builder, which     *)
(* names its super, and a lookup table of methods, written with NULL for   *)
(* what is inherited.  Constructors call the super's constructor with the  *)
(* builder of the object being made; the first time, those of VMM and      *)
(* Object `underride' the NULLs of its table.  A table is modelled as      *)
(* method -> the class that wrote it.                                      *)
EXTENDS Naturals, Sequences

Policies == {"FIFO_VMM", "LRU_VMM", "NRU_VMM", "Random_VMM", "SecChance_VMM",
             "PClock_VMM", "VClock_VMM", "PAging_VMM", "VAging_VMM"}
Engines  == Policies \cup {"VMM"}
Classes  == Engines \cup {"Object", "FIFO"}
NULL     == "NULL"

\* A class and its supers.
Line(C) == CASE C = "Object"    -> <<C>>
             [] C \in Policies  -> <<C, "VMM", "Object">>
             [] OTHER           -> <<C, "Object">>
Super(C) == Line(C)[2]

\* The slots of struct Lookup_Table, FIFO_LT and VMM_LT.
ObjectSlots == {"new", "delete", "clone", "to_string"}
Slots(C) == ObjectSlots \cup
              (CASE C = "Object" -> {}
                 [] C = "FIFO"   -> {"size", "put", "get", "peek", "apply"}
                 [] OTHER        -> {"run", "get_frame_index", "update"})

\* Mutant of VMM_lt: the engine leaves its destructor to Object.
VMM_lt_free == {"new", "clone", "run", "update"}

\* What the static tables fill in.
Object_lt    == {"new", "delete", "clone", "to_string"}
FIFO_lt      == {"new", "delete", "clone", "size", "put", "get", "peek", "apply"}
VMM_lt       == {"new", "delete", "clone", "run", "update"}
FIFO_VMM_lt  == {"new", "delete", "clone", "get_frame_index"}
LRU_lt       == {"new", "delete", "clone", "get_frame_index", "update"}
NRU_lt       == {"new", "delete", "get_frame_index"}
Random_lt    == {"new", "get_frame_index"}
SecChance_lt == {"new", "delete", "get_frame_index"}
PClock_lt    == {"new", "get_frame_index"}
VClock_lt    == {"new", "get_frame_index"}
PAging_lt    == {"new", "delete", "clone", "get_frame_index"}
VAging_lt    == {"new", "to_string", "get_frame_index"}

Written(C) ==
  CASE C = "Object"     -> Object_lt   [] C = "FIFO"          -> FIFO_lt
    [] C = "VMM"        -> VMM_lt      [] C = "FIFO_VMM"      -> FIFO_VMM_lt
    [] C = "LRU_VMM"    -> LRU_lt      [] C = "NRU_VMM"       -> NRU_lt
    [] C = "Random_VMM" -> Random_lt   [] C = "SecChance_VMM" -> SecChance_lt
    [] C = "PClock_VMM" -> PClock_lt   [] C = "VClock_VMM"    -> VClock_lt
    [] C = "PAging_VMM" -> PAging_lt   [] C = "VAging_VMM"    -> VAging_lt

VARIABLES lt,              \* class -> slot -> the class whose method it holds
          lt_initialized,  \* class -> has its table been completed?
          bld              \* class -> the builder its table names

classvars == <<lt, lt_initialized, bld>>
-----------------------------------------------------------------------------
Init == /\ lt = [C \in Classes |-> [m \in Slots(C) |-> IF m \in Written(C) THEN C ELSE NULL]]
        /\ lt_initialized = [C \in Classes |-> C = "Object"]
        /\ bld = [C \in Classes |-> NULL]

\* The NULLs of a table among these methods, filled with those of X.
Underridden(table, X, methods) ==
  [m \in DOMAIN table |-> IF table[m] = NULL /\ m \in methods THEN X ELSE table[m]]

\* Mutant of ByVMM: the engine does not underride its destructor.
ByVMM_delete(C) ==
  IF C \in Engines THEN Underridden(lt[C], "VMM", {"clone", "run", "update"}) ELSE lt[C]

\* new of VMM, in front of the call of its super's.
ByVMM(C) ==
  IF C \in Engines
  THEN Underridden(lt[C], "VMM", {"clone", "run", "delete", "update"}) ELSE lt[C]

\* new of Object, which every constructor calls in the end.
ByObject(table) == Underridden(table, "Object", ObjectSlots)

\* An engine is made with its queue of free frames.
Made(C) == IF C \in Engines THEN {C, "FIFO"} ELSE {C}

new(C) ==
  LET first == {D \in Made(C) : ~lt_initialized[D]} IN
  /\ lt' = [D \in Classes |-> IF D \in first THEN ByObject(ByVMM(D)) ELSE lt[D]]
  /\ bld' = [D \in Classes |-> IF D \in first THEN D ELSE bld[D]]
  /\ lt_initialized' = [D \in Classes |-> lt_initialized[D] \/ D \in first]

Next == \E C \in Classes : new(C)

\* instance_of: does the line of the builder that an object of class C
\* names lead to B's?  (Object's own table names none.)
instance_of(C, B) == bld[C] # NULL /\ \E k \in DOMAIN Line(bld[C]) : Line(bld[C])[k] = B

\* main asks for a file of random numbers.
need_random(C) == instance_of(C, "NRU_VMM") \/ instance_of(C, "Random_VMM")
Spec == Init /\ [][Next]_classvars
-----------------------------------------------------------------------------
\* The nearest class up the line that wrote the method, or NULL.
Nearest(C, m) ==
  LET wrote == {i \in DOMAIN Line(C) : m \in Written(Line(C)[i])}
  IN  IF wrote = {} THEN NULL
      ELSE Line(C)[CHOOSE i \in wrote : \A j \in wrote : i <= j]

(* Once an object of a class was made, in whatever order classes are used  *)
(* first, every method of its table is the one most specific to the class. *)
MostSpecific ==
  \A C \in Classes : lt_initialized[C] => \A m \in Slots(C) : lt[C][m] = Nearest(C, m)

\* The methods run for one call of m on an object of class C, where each
\* calls its super's through the super's table, completed or not.
Calls(C, m) ==
  LET a == lt[C][m]
      b == IF a \in {NULL, "Object"} THEN NULL ELSE lt[Super(a)][m]
      c == IF b \in {NULL, "Object"} THEN NULL ELSE lt[Super(b)][m]
  IN  <<a, b, c>>

(* new, delete and clone of a policy or a queue run up to Object's through *)
(* tables that nothing ever completes (VMM's), without calling NULL; the   *)
(* engine finds what it calls, and clone and to_string of Object find the  *)
(* builder of the object's own class.  By it instance_of knows an object's *)
(* whole line, and main opens the file of random numbers for exactly the   *)
(* policies whose get_frame_index draws from it.                           *)
CallsAreAnswered ==
  \A C \in Policies \cup {"FIFO"} : lt_initialized[C] =>
    /\ \A m \in {"new", "delete", "clone"} :
         \E n \in 1..3 : /\ Calls(C, m)[n] = "Object"
                         /\ \A k \in 1..n : Calls(C, m)[k] # NULL
    /\ \A m \in Slots(C) : lt[C][m] # NULL
    /\ bld[C] = C
    /\ \A B \in Classes : instance_of(C, B) <=> B \in {Line(C)[k] : k \in DOMAIN Line(C)}
    /\ C \in Policies =>
         need_random(C) <=> lt[C]["get_frame_index"] \in {"NRU_VMM", "Random_VMM"}
=============================================================================
