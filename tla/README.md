# Formal models of NYU-OS

TLA+ models, TLC configurations and TLAPS proofs for the programs in this
repository: three labs of an operating systems course, each a sequential C
program that simulates a part of an operating system, and a library of string
and file functions beside an unfinished parser. There are no threads and
nothing is persisted; what is hard here is state that must stay consistent over
any sequence of instructions, values read after they went stale, loops that end
only by virtue of such an invariant, and the limits of tables and integers.

## Inventory

**Lab3, memory manager (`mmu`).** Builds, and is the largest working program.

| part | state | operations | what makes it correct |
|---|---|---|---|
| engine, `vmm.c` | `frame_table`, `page_table`, six counters | `run`: for each instruction a hit or a fault (`unmap`, `page_out`, `page_in`, `zeros`, `map`) | the two tables agree; no dirty page is lost; counters account for the tables |
| policies, nine `*_VMM.c` | hand, queue, list, ages, count of used frames | `get_frame_index`, `update` (LRU) | lowest free frame first; then the victim the policy's name promises; loops end |
| `FIFO.c`, `object.c` | cells on the heap, `in`, `out`, `size` | `new`, `put`, `get`, `peek`, `apply`, `clone`, `delete` | independent queues; no cell leaked or shared |
| `random.c` | growing array, two counters hidden in front of it | `init_random`, `myrandom` | draws follow the file and start over at its end |
| `utils.c` | memory pool; vector | `mempool_*`, `initialize_vector` | no chunk in two hands; the whole vector is filled |
| `main.c` | the options | `parse_args` constructs the policy of `-a` | the engine runs with one policy, whose promise its name is |
| object system, `object.c` and every class | one lookup table a class, `lt_initialized` | a constructor fills the empty entries of the tables with inherited methods | every method called is the most specific one, whatever class was used first |
| reader of instructions, `vmm.c`, `utils.c` | the input file | `read_instruction`, `swallow_whitespace`, `empty_buffer` | the instructions performed are those of the file |

The engine calls the policy through a lookup table: `get_frame_index` on a
fault, `update` on a hit. Policies read the engine's tables, reset referenced
bits in them, and keep their own state next to it. `random.c` serves NRU and
Random; `FIFO.c` serves FIFO and second chance (and holds the engine's
`free_frames`, which is filled and never read).

**Lab1, linker.** Two passes over the same files.

| part | state | operations | what makes it correct |
|---|---|---|---|
| tokens, `token.c` | place in the file, line and column, a growing buffer | `read_token`, `is_valid_token` | tokens are the words of the file, each with its line and column |
| reader, `module.c`, `symbol.c`, `instruction.c` | the module being read, counters of the whole run | `read_module` with the lists it reads or skips | what was written is read back, whatever list is skipped; the first error is the one reported |
| linker, `linker.c` | symbol table, modules kept, use list statuses | pass 1, pass 2; with `-c` the files are read twice instead of keeping the modules | the table finds what was defined; both modes print the same, linked, map |

**Lab2, scheduler.** An event-driven simulation of processes that alternate
between the CPU and IO.

| part | state | operations | what makes it correct |
|---|---|---|---|
| engine, `scheduler.c` | event queue, clock, the process read ahead, flag `process_running`, totals | `run`: `add_arriving_procs`, `transition_process` for all events of one time, `run_process` | each process in one place; one on the CPU; events in the order of time; every process gets its CPU time; the simulation ends |
| policies `FCFS.c`, `LCFS.c`, `SJF.c`, `roundrobin.c` | a ready queue: FIFO, stack, heap, FIFO with a quantum | `put_event`, `get_event` | the process the policy's name promises |
| `FIFO.c`, `linkedlist.c`, `stack.c`, `sortedlist.c` | cells on the heap | `insert`, `put`, `push`, `get`, `pop`, `peek`, `size`, `clone`, `delete` | independent sequences; ties in order of insertion |
| `heap.c` | array, `size` | `insert`, `get`, `peek`, `clone`, `delete` | nothing lost; inside the array; the root is the least |
| `process.c`, `random.c` | a process's times and state | comparisons, `myrandom` | as in Lab3 |
| object system, `object.c` and the table at the head of every class | one lookup table a class | the constructors fill empty entries | every method is at the place where the struct it is called through has it |

It does not build at this commit: `sortedlist.c:113` calls `cmp_array` of a
`Comparable`, which only `Process` has, the `Makefile` links neither
`sortedlist.o` nor `scheduler.o`, and the lookup tables the policies define do
not line up with `struct Scheduler_LT`. The models take each function as it is
written and each virtual call by its name. With just these three repaired the
program runs; its output on a dozen random inputs, under each policy, was found
among the outcomes of the model.

**parser.** Of the program's own files only `utilsV4.c` builds: functions that retry what
the system refuses (`xmalloc`, `xrealloc`, `xopen`, `xfopen`), that read a line or
a file of any length (`readLine`, `read_file_descriptor`), that split strings
(`split_str`, `split_str_lite`), and that work on strings and numbers. Correct if
nothing read is lost, arrays hold what is written to them, and the loops end.
The lexer of `fsm.c`, which does not compile, has four finished functions, which
skip comments and white space and read a string.

The hazards of this code, each at its line with the properties that would catch
it, are listed in `PROJECT.json`.

## Modules

| module | models | state and actions |
|---|---|---|
| `VMM` | the engine | `Fault` is the whole fault path of `run` for one instruction, `Hit` the other; `EndOfInput`, `BadInstruction` end the loop. `SelectFrame` is the contract of `get_frame_index`: the lowest free frame while there is one, then any frame, with any resident pages' referenced bits reset. `RefBitNext` is the stronger contract of the policies by referenced bit: the victim is unreferenced if any resident page is |
| `VMMProofs` | | inductive invariant and theorems about `VMM` |
| `PagedMemory` | abstract: flat memory | `Read`, `Write` |
| `VMMData` | the engine plus the contents of frames and swap that its OUT, IN and ZERO lines manage (external to the program) | each engine action with its effect on the contents; with the proof that it implements `PagedMemory` |
| `EvictionOrder` | abstract: order of arrival or of recency | `Arrive`, `Hit` |
| `FIFO_VMM`, `LRU_VMM` | the two ordered policies; LRU by its pointers | the engine's actions joined with `rotate`, `GetFrameIndex`, `Update`; `LRUHit` ends "crashed" on a NULL or unset pointer |
| `PClock_VMM`, `VClock_VMM`, `SecChance_VMM`, `NRU_VMM` | policies by referenced bit | the loop of each is one step, given in closed form |
| `PClockLoop`, `VClockLoop` | the clocks' loops, one iteration a step | `EnterLoop`, `Iterate`, `LeaveLoop` |
| `SecChanceLoop` | second chance's loop, one turn a step | the same |
| `ClockLoops` | the three loops in one program, with the proof that they are the sweeps | `Turn` is a step inside any loop |
| `Aging` | abstract: the aging rule, ages belonging to pages | |
| `PAging_VMM`, `VAging_VMM` | ages by frame, ages by page | |
| `Random_VMM` | random policy | a draw is any frame |
| `MMU` | the program: `main.c`'s choice of a policy, and all nine joined with the engine | `MMUInit` is the switch of `parse_args`, `MMUNext` a step with the policy constructed; the private state of the others does not exist. `Writable` bounds the input: only these pages are written (all of them, `Writable = Pages`, is no bound) |
| `MMUProofs` | | inductive invariant and theorems about `MMU` |
| `Cells`, `Queues` | the shared heap; abstract: sequences by name | `Fresh` lets `xmalloc` return any free cell |
| `FIFO` | the FIFO class | one action per method |
| `Ordering` | what sorted list and heap do to the order of what they hold, as functions: the place `sortedlist.c` finds, the heap's two sifting loops | `Place`; `Raised` and `Lowered` are one round of the loops of `put` and `get` |
| `LinkedList` | Lab2's list by itself, as a stack and as the sorted list | one action per method |
| `Heap` | Lab2's heap: the methods on an original and a clone | one action per method, with the growth of the array |
| `Containers` | | the five container classes side by side: `class` says which one exists |
| `Scheduler` | Lab2's engine and policies | `run` is unrolled by `pc`: `Begin`, `Advance` (the clock), `transition_process` (one event), `Dispatch`, `Arrivals`; `myrandom` may draw any value |
| `SchedulerProofs` | | inductive invariants of `Scheduler`, theorems, and its refinement of `Processor` |
| `Processor` | abstract: one processor given to one job at a time, in the order of the policy | `BecomesReady`, `GetsProcessor`, `LeavesProcessor` |
| `LookupTables` | Lab2's twelve lookup tables, entry by entry as they are initialised | `new` of a class and of the queues it makes; `Located` is what a call through a struct finds |
| `RandomFile` | `random.c` | `init_random`, `myrandom` with the refill inside |
| `Utils` | Lab3's `utils.c`: `initialize_vector`, the memory pool | one `memcpy` a step; `mempool_alloc`, `mempool_free` |
| `Classes` | Lab3's twelve lookup tables | `new` of a class runs the chain of its constructors, each of which may complete its table |
| `InstructionReader` | Lab3's reader of instructions | `Swallow` and `Comment` take one character, `Scanf` is `fscanf` with the checks behind it |
| `Reading` | `utilsV4.c`: opening, `readLine`, `read_file_descriptor`, `xrealloc` | one character, one `read` or one try a step; any call may fail, a read may fall short |
| `StringTools` | nine functions on strings and numbers; `split_str`, `split_str_lite` | pure functions, recursive where the code loops or recurs; of the splitters one turn of the loop a step. What the code answers otherwise than its header says is a claim of its own (`FindsOther`, `WritesDigit`, `StartsEmpty`, `ReturnsSize`) |
| `Lexer` | the finished functions of `fsm.c`, taken as they are written | one turn of the loop a step, with line, column and the token's memory |
| `Support` | | Lab3's program and the parts every program stands on, one at a time (`Parts`): both object systems, vector, pool, random numbers, containers, text. `LibrarySpec` makes eight calls of the parser's library (`Asked`), one after the other, and keeps the claims of the header that an answer broke (`broken`) |
| `SupportProofs` | | invariants and theorems about the vector, the pool, the container classes, the file of random numbers, Lab3's input and the files read by `utilsV4.c` |
| `Tokens` | `read_token`, with its proofs | one character a step, with the buffer, its line and its column |
| `ModuleReader` | `read_module` and what it calls | one token a step, with every error it exits with |
| `Linker` | Lab1's two passes and symbol table | `ReadModule`, `EndPass1`, `LinkModule`, with the exits; `Probe` is a turn of the binary search |
| `LinkerProofs` | | invariants and theorems about `Linker` and `ModuleReader` |
| `MCLab1` | | Lab1's three layers, one at a time, and their inputs |

How they fit: every policy module extends the engine and joins its own state to
the engine's `ServiceFault` and `Hit`, so what is proved of `VMM` for any
admissible choice holds of each policy once the policy is shown to implement
the engine. `MMU` composes the nine policies as the program does, and its
`ImplementsEngine` shows that of all of them. `SparesReferencedPages` adds that
NRU, second chance, the clocks and the agings implement `RefBitNext`, an engine
with a stronger contract; `SecondChanceIsTheClock` that `SecChance_VMM`
implements `PClock_VMM`; `AgesFollowPages` that both agings implement `Aging`;
`EvictsInOrder` that FIFO and LRU keep `EvictionOrder`; `LoopIsSweep` that the
loops implement the one-step policies. `ImplementsProcessor` shows that Lab2's
simulation under each policy is the abstract `Processor`; `KeepOrder` that the
chains of cells are the sequences of `Queues`. Lab1's layers meet in the data:
`Tokens` yields what `ModuleReader` takes, and `ModuleReader` what `Linker`
takes, each with the errors of the layer below left to that layer.

Operators whose names carry a suffix (`unmap_present`, `Stops_absent`, ...) are
mutants: a plausible mistake in the definition they are named after. Each is
paired in `PROJECT.json` with a property it violates.

## Runs

| run | shows | bounds |
|---|---|---|
| `engine` | tables agree, absent pages are clean, frames fill in order, counters account for the tables, dirty pages are saved, clean pages are backed, paging is transparent | 2 frames, 3 pages, two contents, counters of one bit. One frame too few for all pages gives every kind of replacement, and a third page that is out; a page can be evicted clean, dirty and come back either way; every counter wraps |
| `lru_one_frame` (violation) | `-f 1` crashes on the first hit | 1 frame |
| `clock_loops` | the loops of both clocks and of second chance end, and are the one-step sweep | 2 frames, 3 pages |
| `support` | *Policies*: all nine choose as the engine allows; those by referenced bit spare referenced pages; ages follow pages; NRU's classes and reset; LRU's list stays sound and no bad pointer is followed; FIFO and LRU evict in their order; second chance is the clock. *Vector*: filled, without overlap. *Pool*: chunks never leave the table, and a client that frees in reverse order is safe. *Object systems*: tables end up with the most specific methods, calls go up to `Object`'s without NULL, `instance_of` knows every class. *Random numbers*: draws follow the file; what a file that fills the array does. *Containers*: FIFO, stack and lists keep their orders on a shared heap, whatever cell is reused; the array heap loses nothing and, up to the limits below, is in order and inside its array. *Instructions*: those of the file are performed, up to the first thing that is none (what is read behind a comment that is not skipped is the next run's). *Text*: what is read is kept and stays inside its buffer; strings are split into their words, in an array of just that size; the string functions against their definitions; the lexer reads to the right end, knows its line, and keeps to its memory in strings without escaped quotes | 3 frames, 4 pages: LRU's list has a head, a middle and a tail, and the hand of the clock over pages leaves the frame table. One page is written, so that NRU meets pages of all its classes, and the modified ones can be none or the last choice; NRU resets every 2nd request instead of every 10th, and its counter wraps at 3, like 2^32 no multiple of the interval; ages have two bits instead of 32, so that an age can shift out completely. 22 lengths up to 128, powers of two and their neighbours; 4 chunks, given back in reverse or in any order; the classes in every order of first use; an array of 2 numbers instead of 32 and files of 1 to 18: three doublings, and four lengths that fill the array; two names, three cells: a cell freed by one container is reused by the other while the first still points at it; two objects with equal times and one with another; a heap of 2 places that grows twice, 8 elements being one more than the fewest whose `get` reads outside; input of up to four lines out of seven kinds; files of any four characters and of up to nine plain ones, with a buffer of 2; texts of up to 7 characters; numbers up to 24 |
| `comment_lines` (violation) | a comment line behind a carriage return is not skipped | the lines of `support` |
| `library_header` (violation) | claims of `utils.h` and `fsm.c` that do not hold, all eight of them in one behaviour | eight calls: a line with the character 0xFF; a line with memory short once; a descriptor of 5 characters, one read falling short; a string of two words; a token with an escaped quote where the memory ends; `neg_strchr`, `itoa` of 0, `startswith` of empty strings |
| `linker` | *Tokens*: the words of the file, each where it is. *Reader*: what was written is read back, and the first error reported. *Linker*: the map is linked, and for ascending definitions all symbols are found with their first value and multiple definitions marked; in any order no symbol is lost, both modes link the same modules, use lists are accounted for | files of up to seven characters, a buffer of 2: tokens that outgrow it twice. One or two modules with lists that are short, full and too long, cut at any token or with any one token replaced. Up to 3 modules out of 72, three words of memory |
| `linker_insertion` (violation) | the table gets out of order | definitions only, in any order |
| `scheduler` | under the four policies: each process in one place, each process's time is what it used, all are served and counted, the simulation is the abstract processor; it ends | up to 3 processes, together or apart, a burst that the quanta 1 and 2 cut, and total times that end in a cut burst, at a burst's end and after IO. Three processes make a queue behind the one that runs. The heap never holds more than three, where it is in order |
| `scheduler_turnaround` (violation) | the time spent waiting is missing from the finishing time | 2 processes |
| `scheduler_tables` (violation) | the policies' tables are out of line with the struct they are called through | one use of any scheduler |
| `read_descriptor` (violation) | a file that fills half of the buffer is read for ever | a buffer of 4, files of up to 5 characters |

`support` and `linker` each hold several parts that share no state: `part` says
which one a behaviour is about, and its value never changes. The names of the
containers and the cells of the heap are interchangeable, no part of `support`
has a liveness property, and so the run uses their symmetry.

`CounterMod = 1` in the runs of `Support` and `ClockLoops` switches the counters off: no
policy reads them, and `engine` covers them. With one counter value an access
that changes nothing is a stuttering step, so `EvictsInOrder` speaks of the
accesses that change the tables or the list.

The parts that end (a file read, a vector filled, a heap written behind its
array) have a step that says so and changes nothing; every run checks for
deadlock.

### What the code does otherwise than it says

Seven runs end in a violation. Five of them show one thing each:

1. `LRU_VMM.c:187`: with one frame, which `main` accepts, the first hit
   dereferences NULL (`lru_one_frame`).
2. `linker.c:300`: a new symbol is inserted one place too far to the front, so
   defined symbols are reported as not defined and multiple definitions are
   missed (`linker_insertion`).
3. `scheduler.c:183`: `FT` advances by the bursts only, not by the time a process
   was ready (`TimeIsUse`), so finishing times and turnarounds are short by
   `CW` (`scheduler_turnaround`). The clock, which follows `FT`, runs
   backwards: a waiting time can wrap to 4294967295 (processes `0 4 3 1` and
   `0 1 3 1` under `-s R2`), and the CPU be in use for 125 % of the time.
4. `FCFS.c:37`, and the tables of `LCFS.c`, `SJF.c` and `roundrobin.c`: an entry
   NULL too many, so that `get_event` called through `Scheduler_LT` finds
   `readyq_size` and `put_event` finds `get_event` (`scheduler_tables`). The
   tables of the containers and of `Process` are in line (`CallsAreAnswered`).
5. `utilsV4.c:691`: `read_file_descriptor` goes on as long as half of the buffer is
   filled, also when `read` returned 0 (`read_descriptor`).

More are part of the models, and the properties of the passing runs say how
far they reach:

6. `VClock_VMM.c:61`: the hand is a page number when it indexes the frame
   table; with fewer than 64 frames the read leaves the table. If the word read
   is `EMPTY` the policy returns a frame that does not exist (`TakeBeyond`); in
   all other cases it behaves (`NoBadPointer`, `ImplementsEngine`).
7. `random.c:130`: with a file of exactly 32, 64, ... values the draw that meets
   the end of the file, the one behind the last value, reads behind the array.
   Only this one: `emptied_file` is set then, and from the next draw on the
   values start over (`WrapsAround`, which allows that one draw).
8. `utils.c:160`: a chunk moved within the pool keeps its old place in its
   header; giving chunks back in another than the reverse order can hand one
   out twice (`PoolIsSafe` covers what is left: chunks only change places, and
   the reverse order is safe). Nothing but the test uses the pool at this commit.
9. `heap.c:131`: `get` takes `i << 1` where the parent `i >> 1` is meant: the
   heap is in order up to three elements, and `get` reads behind them from
   seven on. Nothing is lost at any size (`HeapIsSound`).
10. `heap.c:110`: a clone of a heap has room for its elements only, but grows
    at powers of two from `START_MEM` on: the next insertion may write behind it
    (`HeapIsSound` excepts clones).
11. `process.c:94`: the comparison is reversed, so that SJF takes the process with
    the longest CPU time first (`HasTurn` of
    `Processor`).
12. `utilsV4.c:653` and `660`: a descriptor's text loses what cannot be printed at its
    end, and without any printable character places in front of the array are
    read (`KeepData`).
13. `utilsV4.c`: `trim` drops the last of several words (`ToolsDoThis`). In `fsm.c`
    the column is not advanced by the plain characters of a string, and a quote
    behind two backslashes counts as escaped (`LexesText`).

Two runs are about what comments and the header promise of the input functions.
Properties of the passing runs say nothing of these cases:

14. `utils.c:96`: Lab3's input ends silently at a comment behind a carriage return,
    although `vmm.c:110` says that "whitespace AND COMMENT LINES" are skipped
    (`comment_lines`; `InstructionsAreRead` is silent on how such an input
    ends). So it does at a comment between the two numbers of an instruction,
    which is no comment line.
15. `library_header`, each claim quoted in `PROJECT.json`:
    * `utilsV4.c:660`: a `char` is compared with EOF, so that `readLine` ends a
      "complete line" at the character 0xFF;
    * `utilsV4.c:192`: `xrealloc` assigns the result before it tests it; when the
      second try succeeds, the first has lost the block, and the line what was read of it;
    * `utilsV4.c:691`: a read that falls short ends `read_file_descriptor`, which
      is to read "as much as possible";
    * `split_str_lite` returns one less than the size of the array, unless a
      separator ends the string;
    * `fsm.c:118`: an escaped quote takes two places in one turn; when two are left,
      the turn in which the token would grow is skipped, and the next characters
      are written behind it: there is a limit on token size;
    * `neg_strchr` answers one place too far, and looks behind a string of the
      one character;
    * `itoa` writes 0 as the empty string;
    * `startswith` of two empty strings looks behind their ends.

Smaller: `scheduler.c:139` counts the failed read in `maxpid`, by which the
averages are divided (`AllAreServed`), and line 228 adds the IO of two processes
that overlap twice; `linker.c:186` and `196` accept an address equal to the size
of the machine or the module, and so does `Linker`. Outside the models:
`vmm.c:297` computes the total cost in 32 bits before it stores it in 64;
`heap.c`'s `peek` on an empty heap reads an unset element; a clone of an engine
would share `frame_table`, and `LRU_VMM.c:105` redirects the original's
pointers, but nothing clones engines.

Items 1 to 3, 5 to 8, `fsm.c:118` of item 15 and the total cost were reproduced with the programs or
functions themselves, item 3 with Lab2's build repaired.

### Fairness

Liveness is stated of loops. `ClockLoops` assumes weak fairness of a `Turn`, an
iteration or leaving the loop; `Scheduler` and `Reading` of `Next`: a
single-threaded process that is in a loop keeps executing it, and what it waits
for, its input file, ends. Nothing is assumed of the instructions of Lab3's program: they
may end, or never come. `Reading` gives no fairness to failures: the retries of
a full memory and the interrupted opens are bounded (the code bounds the first
by `MAX_RETRIES`; the second it does not bound at all, `MaxInterrupts` is the
model's), so that the run's counterexample is the loop's alone.

## Proofs

**The engine** (`VMMProofs`). For every number of frames and pages and every
width of the counters, `TypeOK`, `TablesAgree`, `AbsentIsClean`, `FilledInOrder`
and `Accounting` are invariants and `DirtyIsSaved` holds of every step. The
inductive invariant `IInv` is the conjunction of the first four: a step keeps the
tables one bijection only if the frame picked is free or its page resident, and
keeps the frames filled in order only since `SelectFrame` takes the lowest free
frame. Lemmas state what each page operation does to each bit of an entry; the
step then splits into fault and hit. `Accounting` needs `IInv`, by which a fault
adds one resident page or replaces one, and lemmas about sums modulo the width.

**Its data** (`VMMData`). `PagingIsTransparent`, `DataSpec => Memory!MemSpec`, by
the refinement mapping that reads a page's content from its frame when it is
resident and from its backing (swap if `pagedout`, else zero) when it is not.
The invariant it rests on is `CleanIsBacked`, with `IInv`: evicting a page
without an OUT leaves its content in place only if its frame says what its
backing says.

**The policies** (`MMUProofs`). Each of the nine, joined with the engine as the
program does it, for every number of frames and pages, whichever pages the input
writes (`Writable`, with all pages among its values). The inductive invariant
`MInv` is `IInv` with what the policy constructed believes of the engine's tables:

* the queue of FIFO and second chance is the frames in a circle from the lowest
  free one (`QueueInv`); the hand of the clock over frames is that frame
  (`HandInv`), and so is the hand of the clock over pages while frames are free
  (`VHandInv`: it is a page number later);
* the count of Random, NRU and the agings separates used from free frames
  (`CountInv`); both agings keep a frame or page that is not in use at age 0, and
  aging over pages has a resident page of age 0 once all frames are in
  use, the one just mapped, so that its search cannot end with its default
  page (`VAgeInv`);
* LRU's pointers run through a line in which each frame is once, the free ones
  first (`ListInv`: the line is not part of the state, it is asserted to exist).

Without these no policy could be shown to return a frame that is free or whose
page is resident, which is all that the engine's invariant needs; with them
`PoliciesImplementEngine` holds, and what was proved of `VMM` holds of the
program. The loops of the sweeps are in closed form; that the sweep ends at the
first unreferenced resident page, or once round, is a least-number argument.

`LoopIsAlwaysSweep` (`ClockLoops`) shows that the code's loops do what these closed
forms say, one turn a step: entering the loop and each turn are stuttering, leaving
it is the step of the policy. The invariants (`PInv`, `VInv`, `SInv`) hold inside a
loop what `mmu` found when it was called: the pages passed so far were resident and
referenced, and the table is the one on entry with their bits cleared (`PSwept`); the
hand, or the queue of second chance, has gone round as many places as there were turns. A
sweep that comes back to its start meets a page whose bit it cleared, so it ends
there. `SecondChanceRefinesClock` maps the front of the queue to the hand,
`AgesAlwaysFollowPages` maps both arrays of ages to ages of pages, and
`EvictsAlwaysInOrder` maps the line (LRU's found through its pointers) to
the textbook queue of resident pages. `NeverABadPointer` and `ListAlwaysSound`
assume that there is not exactly one frame if LRU is among the policies: with
one, LRU crashes (run `lru_one_frame`), and this is the only hypothesis the
theorems add to the constants' assumptions.

**The scheduler** (`SchedulerProofs`). For any input, any quanta and the four
policies. The inductive invariant `SInv`: each process's times add up (`Sound`),
the event queue and the ready queue each hold a set of processes once, the two
sets and the process read ahead make up `proc`, the state of a process is that
of its place, and the event queue is in the order of the times. It needs what
the containers do: `Inserted` puts a process behind those that are not later and
keeps the order; the heap's `Put` and `Sifted` lose nothing, for a heap of any size
and also when `get` compares with what lies behind the last element (that the
heap stays in order is false, item 9). Nothing changes the time of a process in
the event queue, as it is taken out first. On this rests `TInv`: the
processes printed and those in `proc` are those read so far, one is read ahead as
long as the input has not ended, and after `Dispatch` the event queue is empty
only if nobody is ready. Hence `AllAreServedOnce`: the loop, which ends when
the event queue is empty and looks at nothing else, ends with every line of the
input read, run for its total and printed, each once. `LinesAreTrue`: in every
line printed the turnaround is total plus IO, the waiting left out. So item 3 is no
matter of an unlucky input: it shows whenever a process has waited.

`AllAreAlwaysServed` adds the totals (`AInv`): the CPU time and the turnarounds are the
sums over the lines printed, the waiting time is one modulo 2^32, as a process's wait
may have wrapped. The time IO was used is the sum over the processes if there is only
one: it cannot overlap with itself (`AloneInIO`), and what it has used so far is in
the total (`InUse`) before its line is printed.

`PoliciesImplementProcessor` maps the simulation, with its two queues and its clock,
to `Processor`, step by step: `ReadyingImplements`, `LeavingImplements`,
`RunningImplements`; reading, advancing the clock and a `Dispatch` without anyone ready
are stuttering. It needs three facts more, the invariant `PInv`:

* a process that is not running has no `preempted` flag left over, and one that
  is running with the flag set is at its total or has had exactly the quantum, under
  round robin (`Fit`): so only round robin takes the processor away, after a whole
  quantum. `Fit` compares the draw with `UINT_MAX`, which no burst exceeds
  (`BurstAssumption`: bursts are `unsigned` in `struct Process`);
* a process that is not running has time left, or has had none: so a burst of
  length 0 is given to a job without any total only;
* the arrivals in the event queue stand there in the order of the input
  (`Ordered`): `Inserted` puts one behind those of the same time, and they are read
  in ascending order (`LinesAscend`).

Whose turn it is under SJF rests on the heap, with the comparisons as the code
makes them. Up to three elements it is a descending list (`SmallPut`, `SmallSifted`), and
its root a greatest (`GreatestFirst`). From four elements on it is not, so the theorem
has `[]Few` as hypothesis: under SJF no more than three processes are ready at
once. This says nothing of the other policies, and holds of every input of no more
than three lines: `ShortInputsImplementProcessor`.

**The linker** (`LinkerProofs`). For inputs of any number of modules, of any
length, and in both modes. Four invariants, each resting on those before it:

* `Placed`: module `j` starts behind the words of those in front of it (`BaseOf`,
  a cardinality: what the code sums up one by one), the modules kept say so, and
  with `-c` the counters that started over run through the same places. Hence
  `ModesAlwaysAgree`;
* `Reported`: the entries reported are those of the modules linked so far that no
  external instruction of their own module points at. Hence
  `UsesAlwaysAccounted`;
* `Tabled`: the table names what was defined so far, for any order of the
  definitions (`NoSymbolEverLost`). If they ascend it is sorted and has each symbol
  once, with the value of its first definition and a mark if there was another. This
  needs the binary search: each turn leaves the places before `start` smaller
  and those behind `end` larger and halves what is between (`ProbeNarrows`),
  so that after as many turns as there are symbols it is over (`SearchOver`)
  and has found what is there (`SearchFinds`); for a new symbol, which is the
  largest, the search ends at the end of the table, the one case in which
  the step back of item 2 does not occur;
* `Mapped`: the words printed are those of the modules linked, in address
  order; external ones have the value of the table, relative ones lie in their
  module. With `Tabled` this is `MapIsAlwaysLinked`.

That the definitions ascend is a hypothesis of `MemoryMapIsLinked` itself; without it
the statement is false (item 2). `SourcesAssumption` says what `read_module` returns:
at most `MAX_DEFLIST_SIZE` definitions, numbers that are not negative, and the four
kinds of instruction.

**The module reader** (`LinkerProofs`). For any set of files, with modules and lists of any
length, any limits and any damage, `ReadsAlwaysWhatWasWritten`. First, how a file
is laid out: `FlattenSeq` puts items of any lengths one behind the other (`JoinPlaces`), so
token `j` of module `k` is at `Begin(k) + j - 1` and its role is known
(`WordsAre`, `RolesAre`, from `Shape`); nothing of that is induction, each sum being
followed from the least place where it would fail. The invariant `ReadInv` says of a reader
still at work that nothing is wrong with the file up to the tokens taken (`CleanAt`), in
which module and at which of its words it stands, that it has delivered the modules
before as written, less the list skipped, and holds the part of this one it has read.
Each step is then one of three: the token is the one written and breaks no limit, and the
reader stands at the next (`Fits`); it is another, or the file has ended, and the
complaint is the one for its role (`Wrong`); or it is right and says that a
limit is broken (`Limit`). In the last two the error reported is in `Errors`, and no other is
before it, since all was clean. `FilesAssumption` says what a file holds: lists,
and pairs in those of definitions and of instructions; `LimitsAssumption` that the limits are
natural numbers.

**The pool** (`SupportProofs`). For a pool of any size `PoolIsSafe`. That chunks only
change places needs that `free` never meets an empty pool: a client frees what it
holds, and chunks are held as often as `index` says, in total (`Accounted`, a
cardinality, as one chunk can be in two hands: item 8). For the client that
gives chunks back in the reverse order the table is always as it was made and the
headers of those handed out are right (`Stacked`).

**Lab1's tokens** (`Tokens`). For a file of any length and a buffer of any first
size, `TokensAreLocated`: nothing of the file is lost or read twice, though a token's
end is only seen by reading one character too many and putting it back. The
invariant `TokInv` follows the place that is looked at (`Here`: after `ungetc` it is
the next one, at the end of the file it stays). Between two tokens the line and the
column are those of that place, a letter there starts a token, and the tokens
recorded are those that start in front of it; inside a token they are those of its
first letter, `i` places back, and only letters lie between. The places are counted
by cardinality: the k-th token starts where k starts are not behind it, which is
what `Start` chooses. `TokensAssumption` says that no character of a file is the end
of the file and that the buffer has a first byte.

**Vector** (`SupportProofs`). `initialize_vector` fills a vector of any length and no copy overlaps
or leaves it. The invariant: the slots below `i` are filled and `i` is inside the
vector.

**The containers** (`SupportProofs`). For any number of containers that share a heap of
any size, and any objects: `ChainsAlwaysSound`, and `OrderAlwaysKept`, by which FIFO,
stack, list and sorted list implement their sequences in `Queues`. The invariant
`ChainInv` says that there *are* chains, one for each container: linked through the
heap and ending at `NIL` (`Linked`), without a cell in common, holding objects; `used`
are their cells, and each struct's size, its pointer to the first cell and FIFO's `in`
agree with its chain. Of an empty FIFO `in` may say anything, as it dangles after the
last `get`. The steps:

* `Walk`, which follows the pointers and gives up after as many steps as there are cells,
  finds the chain there is (`WalkFinds`, from the least place at which it would
  not);
* what happens to the heap is one of three things, each proved once for all
  classes: a fresh cell goes into a chain at any place (`PutChained`), the first `n`
  cells of a chain are freed, by `get` or `delete` (`FreeChained`), a chain is copied to
  fresh cells (`CloneChained`). The other chains stay what they were;
* so `Contents` is what the chains hold, and `put` is `Last`, `First` or `ByTime` of it. For
  the last, the place where `sortedlist.c` stops exists and is the only one
  (`StopsOnce`), and it is where `Inserted` puts the object.

`CellsAssumption` says that the heap is finite and `NIL` none of its cells. `xmalloc` may
return any free cell, so nothing rests on freed cells keeping what was in them.

**Lab2's heap** (`SupportProofs`). For a heap of any size, with equal elements or not,
`HeapAlwaysSound`. An invariant of each loop is carried through its rounds by
`PutRounds` and `SiftRounds`:

* an exchange of two places inside the array changes no element's number of places
  (`ExchangedTimes`, a cardinality), and all exchanges of both loops are inside it. So
  `PutKeeps` and `SiftKeeps` hold whatever is compared;
* in `put`'s loop the array is a heap but for the new element, which may be larger
  than its parent (`IsHeapBut`), and the element rises in each round or
  stays for good: hence `PutOrders`, at any size. `SiftOrders` is for three elements,
  where `get`'s loop makes no turn; for four it is false (item 9);
* `i` is 1, 2 or at least 4 in `get`'s loop, so that with six elements it does not
  look behind the last (`SiftInside`);
* as long as the heap is no clone, `room` is a power of two, at least `START_MEM`, and
  not less than `size` (`HeapFits`): `put` doubles it when they are equal, since
  `size` then is a power of two itself. A clone begins with less than `START_MEM`.

`RoomAssumption` says that `START_MEM` is a power of two; in the code it is 16.

**Random numbers** (`SupportProofs`). For a file of any length but 0, and a first array of any
power of two (`RandomAssumption`; 32 in the code), `DrawsAlwaysOn`. The invariant
`RandomInv`: as long as the end of the file was not met the array holds its first values, it
is a power of two long, and more than a half of it has been drawn since it was last
doubled (`Grows`). Between two neighbouring powers of two lies none (`PowersApart`), so the test of
`random.c:130` can only hold when the array is used up, and the refill loses and repeats nothing
(`ScanGoesOn`). Behind the end the array is the file (`HoldsAll`) and starts over; the one
draw outside is made where the refill found the end at once, and there is no second
(`emptied_file`).

**Lab3's input** (`SupportProofs`). For any files, with numbers of any values
(`InputAssumption`), `InstructionsAreAlwaysRead`. The invariant `InstrInv`: all numbers up to
the place reached have been taken, two for each instruction, and nothing there stops the
reader; it is inside a comment as the text says it is (`InComment`); and between two
instructions no carriage return lies behind the last number (`ReturnsBehind`), so that
a comment met there is read over. Numbers are counted as the tokens are (`NumberIs`). Where
`fscanf` fails is the first of `Barriers`, the places where the code stops, or the end of the
file (`Halts`), and the instructions in front of it are those taken (`TotalIs`). `Barriers`
are the `Obstacles`, which are no instruction by the text, and the `Hidden` comments, behind
a carriage return. So what was taken is a beginning of what is to be taken
(`ReachedIsPrefix`), and all of it in a file without hidden comments (`ReadsAll`).

**Files of the parser's library** (`SupportProofs`). For files of any length and a buffer of any
first size, whatever call fails, `FilesAreAlwaysKept` (`KeepData`). The invariant `ReadingInv`:
in `readLine`'s loop as many characters are stored as were read, none of them ends the line,
and the buffer grows exactly when it is full. In that of `read_file_descriptor` a read is only
made with an array that is empty or half full (`HalfFull`). That is what makes the test
of line 691 stop after a read that failed, as `place` is then one short of it; and when the
loop was left with nothing failed, all was read (`InFile`). What is stored is what was
read until `xrealloc` had to try again (`Stored`); a second try always leaves "memory" among what
failed. The line up to 0xFF, where the code cuts it, and the text cut at its end are then found by
`CutLineIs` and `StrippedIs`; in a file without that character this is the first line
(`FirstLineIsCut`). Of other lines, and of memory that was short, `KeepData` says nothing
(item 15). `ReadingAssumption`: the buffer has a first byte, and neither the end of the
file nor what is in uninitialised memory is a character of the files. That the loop
need not end (item 5) is no part of this.

Loops and folds are recursive functions. The prover has no induction over an
operator, so a fact about all rounds of a loop is proved from the least round
at which it fails (`LeastNatural`, `Iterates`).

The assumptions are those named in the modules (positive numbers of frames and
pages, a positive modulus, a zero among the values, positive lengths, bursts of at
least 1 and at most `UINT_MAX`, modules as they are read, files of characters).

Only model-checked: both object systems (`CallsAreAnswered`, about the classes there are, which are no
parameter), and of the library beside the parser the strings and the lexer (`TextIsTaken`, `SplitsIntoWords`:
some of what the string functions do is stated by recursive operators); and all liveness
(`LoopEnds`, `Terminates`, ...), which is out of the prover's reach.

## Not modelled

* `clone` and `to_string` of the engine and of policies: no caller.
* The other options of the command line: their outcomes are the constants and
  inputs of the models. Debug output.
* Lab1: the wording of warnings; `skip_program_text`, which no caller asks for.
* Lab2: the averages printed at the end; the accessors of the quantum, and
  `readyq_size` and `peek_readyq`, which nothing calls.
* `parser`: in `fsm.c`, `read_token`, `read_number` and `get_statement` break off in
  the middle and `read_char` assigns a variable that does not exist; nothing
  above them can run. Of `utilsV4.c` the functions on the terminal, directories
  and signals, and one-line string functions.
