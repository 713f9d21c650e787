---------------------------- MODULE LookupTables ----------------------------
(* The object system of Lab2 (Lab2/src/object.c and the table at the head  *)
(* of every class).  A lookup table is memory: its initialiser fills it    *)
(* entry by entry, and a call takes the entry at the place where the       *)
(* struct it is made through has the method.  An entry is [by, names]: the *)
(* class that wrote the function, and the slot the function is meant for.  *)
(* bld and lt_initialized, at the head of every table, are apart.          *)
EXTENDS Naturals, Sequences

NULL == "NULL"

Policies   == {"FCFS_Scheduler", "LCFS_Scheduler", "SJF_Scheduler", "RR_Scheduler"}
Schedulers == Policies \cup {"Scheduler"}
Lists      == {"FIFO", "LinkedList", "SortedList", "Heap"}
Classes    == Schedulers \cup Lists \cup {"Stack", "Process", "Object"}

\* A class and its supers, from the bottom up.
Line(C) == CASE C = "Object"   -> <<C>>
             [] C \in Policies -> <<C, "Scheduler", "Object">>
             [] OTHER          -> <<C, "Object">>

-----------------------------------------------------------------------------
\* The structs, as sequences of slots.
Lookup_Table    == <<"new", "delete", "clone", "to_string">>
Comparable_LT   == Lookup_Table \o <<"compare">>
Process_LT      == Lookup_Table \o <<"cmp_array[0]", "cmp_array[1]">>
FIFO_LT         == Lookup_Table \o <<"size", "put", "get", "peek", "apply">>
SortedList_LT   == Lookup_Table \o <<"size", "insert", "get", "peek", "apply">>
Stack_LT        == Lookup_Table \o <<"size", "push", "pop", "peek">>
Events          == <<"get_readyqueue_size", "get_event", "put_event", "peek_readyq",
                     "run", "print_info">>
Scheduler_LT    == Lookup_Table \o Events
RR_Scheduler_LT == Lookup_Table \o <<"read_input">> \o Events
                     \o <<"get_quantum", "set_quantum">>

\* The struct a class's table is declared with.
Struct(C) == CASE C = "Object"     -> Lookup_Table  [] C = "Process"      -> Process_LT
               [] C = "SortedList" -> SortedList_LT [] C = "Stack"        -> Stack_LT
               [] C \in Lists      -> FIFO_LT       [] C = "RR_Scheduler" -> RR_Scheduler_LT
               [] OTHER            -> Scheduler_LT

\* The initialisers as they are written.  Those of the policies have two
\* NULLs where Scheduler_LT has one slot, to_string, in front of the ready
\* queue's methods; RR_lt has them for to_string and read_input.
Three  == <<"new", "delete", "clone">>
Ready  == <<"get_readyqueue_size", "get_event", "put_event", "peek_readyq">>

\* Mutant of SortedList_lt: two methods change places.
SortedList_lt_swapped == Three \o <<NULL, "size", "get", "insert", "peek", "apply">>

Object_lt     == <<"new", "delete", "clone", "to_string">>
Process_lt    == <<"new", NULL, NULL, "to_string", "cmp_array[0]", "cmp_array[1]">>
FIFO_lt       == Three \o <<NULL, "size", "put", "get", "peek", "apply">>
LinkedList_lt == Three \o <<NULL, "size", "put", "get", "peek", "apply">>
SortedList_lt == Three \o <<NULL, "size", "insert", "get", "peek", "apply">>
Stack_lt      == Three \o <<NULL, "size", "push", "pop", "peek">>
Heap_lt       == Three \o <<NULL, "size", "put", "get", "peek", "apply">>
Scheduler_lt  == Three \o <<"to_string", NULL, NULL, NULL, NULL, "run", "print_info">>
FCFS_lt       == Three \o <<NULL, NULL>> \o Ready \o <<NULL, NULL>>
LCFS_lt       == Three \o <<NULL, NULL>> \o Ready \o <<NULL, NULL>>
SJF_lt        == Three \o <<NULL, NULL>> \o Ready \o <<NULL, NULL>>
RR_lt         == Three \o <<"to_string", NULL>> \o Ready
                       \o <<NULL, NULL, "get_quantum", "set_quantum">>

Written(C) ==
  CASE C = "Object"         -> Object_lt      [] C = "Process"        -> Process_lt
    [] C = "FIFO"           -> FIFO_lt        [] C = "LinkedList"     -> LinkedList_lt
    [] C = "SortedList"     -> SortedList_lt  [] C = "Stack"          -> Stack_lt
    [] C = "Heap"           -> Heap_lt        [] C = "Scheduler"      -> Scheduler_lt
    [] C = "FCFS_Scheduler" -> FCFS_lt        [] C = "LCFS_Scheduler" -> LCFS_lt
    [] C = "SJF_Scheduler"  -> SJF_lt         [] C = "RR_Scheduler"   -> RR_lt

\* What lies in memory: entries beyond the struct are dropped.
Entry(C, name)  == [by |-> C, names |-> name]
Empty           == Entry(NULL, NULL)
Initialised(C)  == [i \in DOMAIN Struct(C) |->
                      IF i > Len(Written(C)) \/ Written(C)[i] = NULL THEN Empty
                      ELSE Entry(C, Written(C)[i])]
-----------------------------------------------------------------------------
VARIABLES lt,              \* class -> its table
          lt_initialized,  \* class -> has its table been completed?
          bld              \* class -> the builder its table names

classvars == <<lt, lt_initialized, bld>>

Init == /\ lt = [C \in Classes |-> Initialised(C)]
        /\ lt_initialized = [C \in Classes |-> C = "Object"]
        /\ bld = [C \in Classes |-> NULL]

\* The empty entries of a table among these places of a struct, filled with
\* the methods of X.
Underridden(table, X, struct, methods) ==
  [i \in DOMAIN table |->
     IF table[i] = Empty /\ i \in DOMAIN struct /\ struct[i] \in methods
     THEN Entry(X, struct[i]) ELSE table[i]]

First == {"new", "delete", "clone", "to_string"}

\* new of Scheduler, in front of the call of its super's: it takes any
\* table for a Scheduler_LT.
ByScheduler(C) == IF C \in Schedulers
                  THEN Underridden(lt[C], "Scheduler", Scheduler_LT, First \cup {"run"})
                  ELSE lt[C]

\* Mutant of ByObject: the destructor is not inherited.
ByObject_delete(table) == Underridden(table, "Object", Lookup_Table, First \ {"delete"})

\* new of Object, which every constructor calls in the end.
ByObject(table) == Underridden(table, "Object", Lookup_Table, First)

\* A scheduler is made with its queues.
Made(C) == {C} \cup (IF C \in Schedulers THEN {"SortedList"} ELSE {})
               \cup (CASE C \in {"FCFS_Scheduler", "RR_Scheduler"} -> {"FIFO"}
                       [] C = "LCFS_Scheduler" -> {"Stack"}
                       [] C = "SJF_Scheduler"  -> {"Heap"}
                       [] OTHER -> {})

new(C) ==
  LET first == {D \in Made(C) : ~lt_initialized[D]} IN
  /\ lt' = [D \in Classes |-> IF D \in first THEN ByObject(ByScheduler(D)) ELSE lt[D]]
  /\ bld' = [D \in Classes |-> IF D \in first THEN D ELSE bld[D]]
  /\ lt_initialized' = [D \in Classes |-> lt_initialized[D] \/ D \in first]

Next == \E C \in Classes : new(C)
Spec == Init /\ [][Next]_classvars
-----------------------------------------------------------------------------
\* Mutant of instance_of: the search starts above the object's own class.
instance_of_super(C, D) ==
  bld[C] # NULL /\ \E i \in DOMAIN Line(bld[C]) : i > 1 /\ Line(bld[C])[i] = D

\* instance_of for an object of class C.  The table of Object counts as
\* completed from the start and never names its builder.
instance_of(C, D) == bld[C] # NULL /\ \E i \in DOMAIN Line(bld[C]) : Line(bld[C])[i] = D

\* The call of the method in slot i of a struct, through which an object of
\* class C is seen, finds a function that is meant for that slot.
Located(C, struct, i) ==
  LET found == lt[C][i].names
  IN  \/ found = struct[i]
      \/ struct[i] = "compare" /\ found = "cmp_array[0]"

(* Once an object of a class was made, in whatever order classes are used  *)
(* first: every object has the four methods of Object, the most specific   *)
(* ones; containers and processes have every method at its place, for      *)
(* those who see a process as a Comparable too; and instance_of knows each *)
(* object, but a plain Object, by its class and the supers of it.          *)
ListsAndProcesses ==
  \A C \in Classes : lt_initialized[C] =>
    /\ \A i \in DOMAIN Lookup_Table :
         LET wrote == {n \in DOMAIN Line(C) : \E k \in DOMAIN Written(Line(C)[n]) :
                                                Written(Line(C)[n])[k] = Lookup_Table[i]}
             nearest == CHOOSE n \in wrote : \A m \in wrote : n <= m
         IN  lt[C][i] = Entry(Line(C)[nearest], Lookup_Table[i])
    /\ C \notin Schedulers => \A i \in DOMAIN Struct(C) : Located(C, Struct(C), i)
    /\ C = "Process" => \A i \in DOMAIN Comparable_LT : Located(C, Comparable_LT, i)
    /\ C # "Object" =>
         \A D \in Classes : instance_of(C, D) <=> D \in {Line(C)[n] : n \in DOMAIN Line(C)}

(* The beginning of all lookup tables is the same, so that a policy can be *)
(* used as a Scheduler: every function that a Scheduler_LT has and that is *)
(* not missing is found at its place.                                      *)
FunctionsAreLocated ==
  \A C \in Schedulers : lt_initialized[C] =>
    \A i \in DOMAIN Scheduler_LT :
      lt[C][i] = Empty \/ Located(C, Scheduler_LT, i)
=============================================================================
