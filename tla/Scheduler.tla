----------------------------- MODULE Scheduler -----------------------------
(* The scheduler of Lab2 (scheduler.c, process.c) with its four policies   *)
(* (FCFS.c, LCFS.c, SJF.c, roundrobin.c): a simulation that moves          *)
(* processes between a queue of events in the order of time and a queue of *)
(* processes ready to run.  Virtual methods are taken by their names.      *)
EXTENDS Ordering

CONSTANTS Algorithms,       \* the letters that may follow -s
          Quanta,           \* the quanta that may follow R
          MaxProcs,         \* the most lines of the input
          ATs, TCs,         \* arrival times, CPU times,
          CBs, IOs          \* CPU and IO bursts, as they stand in the input

ASSUME SchedulerAssumption ==
         /\ Algorithms \subseteq {"F", "L", "S", "R"}
         /\ Quanta \subseteq Nat \ {0} /\ MaxProcs \in Nat
         /\ ATs \subseteq Nat /\ TCs \subseteq Nat
         /\ CBs \subseteq Nat \ {0} /\ IOs \subseteq Nat \ {0}

VARIABLES algorithm, quantum,
          input,            \* the lines of the input file
          maxpid,           \* the lines asked for, the failed read included
          proc,             \* pid -> struct Process, for those that exist
          oldproc,          \* read, but its time has not come
          event_queue,      \* pids in the order of their events
          ready_queue,      \* pids: a sequence, for SJF the array of a heap
          size,             \* the scheduler's count of the ready processes
          process_running, reading_input,
          last_event, last_io_event,
          totals,           \* cpu_use, io_use, turnaround and cpu_waiting
          printed,          \* the lines printed for finished processes
          pc                \* where run() is

queues == <<event_queue, ready_queue, size, oldproc>>
clock  == <<last_event, last_io_event>>
given  == <<algorithm, quantum, input>>
svars  == <<given, maxpid, proc, queues, process_running, reading_input,
            clock, totals, printed, pc>>

NULL     == -1
UINT_MAX == 1000000  \* 2^32 - 1 in the code: more than any burst
Pids     == 0..MaxProcs - 1

\* The bursts of the input are unsigned.
ASSUME BurstAssumption == CBs \cup IOs \subseteq 1..UINT_MAX

\* Unsigned arithmetic.  The clock may run backwards, so that differences
\* and the sums made of them wrap; sums of bursts stay far below.
unsigned(n) == n % (UINT_MAX + 1)

\* Input files: the loop expects arrival times in ascending order.
Lines  == [AT : ATs, TC : TCs, CB : CBs, IO : IOs]
Inputs == {file \in UNION {[1..n -> Lines] : n \in 0..MaxProcs} :
             \A i \in 1..Len(file) - 1 : file[i].AT <= file[i + 1].AT}

Exists(p) == p < Len(input)

\* new(Process, pid, AT, TC, CB, IO).
NewProcess(p) ==
  LET l == input[p + 1]
  IN  [AT |-> l.AT, TC |-> l.TC, CB |-> l.CB, IO |-> l.IO,
       FT |-> l.AT, IT |-> 0, CW |-> 0, cpu_time |-> 0, runtime |-> 0,
       preempt_after |-> UINT_MAX, preempted |-> FALSE, state |-> "INIT"]

Times(procs) == [p \in DOMAIN procs |-> procs[p].FT]

Init == /\ algorithm \in Algorithms
        /\ quantum \in IF algorithm = "R" THEN Quanta ELSE {0}
        /\ input \in Inputs
        /\ maxpid = 0 /\ proc = <<>> /\ oldproc = NULL
        /\ event_queue = <<>> /\ ready_queue = <<>> /\ size = 0
        /\ process_running = FALSE /\ reading_input = TRUE
        /\ last_event = 0 /\ last_io_event = 0
        /\ totals = [cpu_use |-> 0, io_use |-> 0, turnaround |-> 0, cpu_waiting |-> 0]
        /\ printed = <<>>
        /\ pc = "first"
-----------------------------------------------------------------------------
\* Mutant of TimeToRead: a process whose time has not come waits, also when
\* no event is left.
TimeToRead_arrived == oldproc # NULL /\ proc[oldproc].AT <= last_event

\* The process read ahead has arrived, or nothing else is going to happen.
TimeToRead == \/ oldproc # NULL /\ proc[oldproc].AT <= last_event
              \/ event_queue = <<>>

\* How many lines are read and put in the event queue: those that have
\* arrived, and the next in any case if the queue is empty.
Arriving ==
  LET Comes(p) == \/ input[p + 1].AT <= last_event
                  \/ p = maxpid /\ oldproc = NULL /\ event_queue = <<>>
  IN  CHOOSE n \in 0..Len(input) :
        /\ \A p \in maxpid..maxpid + n - 1 : Exists(p) /\ Comes(p)
        /\ Exists(maxpid + n) => ~Comes(maxpid + n)

\* Mutant of ReadAhead: the process that was read too early is dropped.
ReadAhead_dropped(p) == NULL

ReadAhead(p) == IF Exists(p) THEN p ELSE NULL

\* What is in proc once the lines maxpid..next are read.
Read(next) == [p \in DOMAIN proc \cup {q \in maxpid..next : Exists(q)} |->
                 IF p \in DOMAIN proc THEN proc[p] ELSE NewProcess(p)]

\* The processes put in the event queue: the one read ahead, then the new.
Coming == (IF oldproc = NULL THEN <<>> ELSE <<oldproc>>)
          \o [i \in 1..Arriving |-> maxpid + i - 1]

\* The event queue with the processes s, inserted one by one.
Joined(s, FT) ==
  LET queue[k \in 0..Len(s)] ==
        IF k = 0 THEN event_queue ELSE Inserted(queue[k - 1], s[k], FT)
  IN  queue[Len(s)]

add_arriving_procs ==
  IF TimeToRead
  THEN LET next == maxpid + Arriving
       IN  /\ proc' = Read(next)
           /\ maxpid' = next + 1
           /\ event_queue' = Joined(Coming, Times(Read(next)))
           /\ oldproc' = ReadAhead(next)
           /\ reading_input' = Exists(next)
  ELSE /\ reading_input' = (oldproc # NULL)
       /\ UNCHANGED <<proc, maxpid, event_queue, oldproc>>

\* The put_event methods: the ready queue with p, which has the total TC[p].
FCFS_put(p) == Append(ready_queue, p)
LCFS_put(p) == <<p>> \o ready_queue
SJF_put(p, TC) == Put(TC, ready_queue, Cardinality(DOMAIN ready_queue), p)

\* Round robin queues as FCFS does, and sets the quantum.
RR_quantum(p, procs) == [procs EXCEPT ![p].preempt_after = quantum]

put_event(p, procs) ==
  /\ proc' = IF algorithm = "R" THEN RR_quantum(p, procs) ELSE procs
  /\ ready_queue' = CASE algorithm = "L" -> LCFS_put(p)
                       [] algorithm = "S" -> SJF_put(p, [q \in DOMAIN procs |-> procs[q].TC])
                       [] OTHER -> FCFS_put(p)
  /\ size' = size + 1

\* get_event of the policy: the process it answers with and the queue it leaves.
Chosen == IF algorithm = "S" THEN ready_queue[0] ELSE Head(ready_queue)
Rest   == IF algorithm = "S"
          THEN Sifted([q \in DOMAIN proc |-> proc[q].TC], ready_queue,
                      Cardinality(DOMAIN ready_queue), TRUE).a
          ELSE Tail(ready_queue)

\* What myrandom may return; RandomFile has more of it.
Draws(burst) == 1..burst

\* Mutant of Burst: the rest of the process's total is not looked at.
Burst_uncapped(p, drawn) ==
  IF drawn > proc[p].preempt_after THEN proc[p].preempt_after ELSE drawn

\* A burst on the CPU: cut at the quantum, and to what the process still needs.
Burst(p, drawn) ==
  LET cut == IF drawn > proc[p].preempt_after THEN proc[p].preempt_after ELSE drawn
      left == proc[p].TC - proc[p].cpu_time
  IN  IF cut > left THEN left ELSE cut

Running(p, drawn) ==
  LET time == Burst(p, drawn)
  IN  [proc EXCEPT ![p].CW = unsigned(@ + last_event - proc[p].FT),
                   ![p].preempted = @ \/ drawn > proc[p].preempt_after,
                   ![p].runtime = time,
                   ![p].cpu_time = @ + time,
                   ![p].FT = @ + time,
                   ![p].state = "RUNNING"]

run_process ==
  IF DOMAIN ready_queue = {}
  THEN UNCHANGED <<proc, queues, process_running>>
  ELSE LET p == Chosen IN
       \E drawn \in Draws(proc[p].CB) :
         /\ proc' = Running(p, drawn)
         /\ ready_queue' = Rest
         /\ size' = IF size > 0 THEN size - 1 ELSE 0
         /\ event_queue' = Inserted(event_queue, p, Times(Running(p, drawn)))
         /\ process_running' = TRUE
         /\ UNCHANGED oldproc

\* Mutant of Finishing: a process that was preempted on its last burst goes on.
Finishing_preempted(p) == proc[p].cpu_time = proc[p].TC /\ ~proc[p].preempted

Finishing(p) == proc[p].cpu_time = proc[p].TC

\* The line a finished process leaves, with its pid.
Line(p) == [pid |-> p, AT |-> proc[p].AT, TC |-> proc[p].TC, FT |-> proc[p].FT,
            IT |-> proc[p].IT, CW |-> proc[p].CW]

finish(p) ==
  /\ totals' = [totals EXCEPT !.cpu_waiting = unsigned(@ + proc[p].CW),
                              !.cpu_use = @ + proc[p].TC,
                              !.turnaround = @ + proc[p].FT - proc[p].AT]
  /\ printed' = Append(printed, Line(p))
  /\ proc' = [q \in DOMAIN proc \ {p} |-> proc[q]]
  /\ event_queue' = Tail(event_queue)
  /\ UNCHANGED last_io_event

\* Mutant of Preempted: the flag stays.
Preempted_kept(p) == [proc EXCEPT ![p].state = "PREEMPTED"]

Preempted(p) == [proc EXCEPT ![p].state = "PREEMPTED", ![p].preempted = FALSE]

Blocked(p, drawn) == [proc EXCEPT ![p].state = "BLOCKED", ![p].runtime = drawn,
                                  ![p].FT = @ + drawn]

\* transition_process for the process at the head of the event queue: p has
\* been taken out of it.
leave_cpu(p) ==
  /\ proc[p].state = "RUNNING"
  /\ process_running' = FALSE
  /\ \/ Finishing(p) /\ finish(p)
     \/ /\ ~Finishing(p)
        /\ \/ /\ proc[p].preempted
              /\ proc' = Preempted(p)
              /\ UNCHANGED last_io_event
           \/ /\ ~proc[p].preempted
              /\ \E drawn \in Draws(proc[p].IO) : proc' = Blocked(p, drawn)
              /\ last_io_event' = last_event
        /\ event_queue' = Inserted(Tail(event_queue), p, Times(proc'))
        /\ UNCHANGED <<totals, printed>>
  /\ UNCHANGED <<ready_queue, size>>

\* Mutant of AfterIO: the time spent is not added up.
AfterIO_unpaid(p) == [proc EXCEPT ![p].state = "READY"]

AfterIO(p) == IF proc[p].state = "BLOCKED"
              THEN [proc EXCEPT ![p].state = "READY", ![p].IT = @ + proc[p].runtime]
              ELSE [proc EXCEPT ![p].state = "READY"]

become_ready(p) ==
  /\ proc[p].state \in {"BLOCKED", "PREEMPTED", "INIT"}
  /\ put_event(p, AfterIO(p))
  /\ totals' = IF proc[p].state = "BLOCKED"
                THEN [totals EXCEPT !.io_use = unsigned(@ + last_event - last_io_event)]
                ELSE totals
  /\ event_queue' = Tail(event_queue)
  /\ UNCHANGED <<process_running, last_io_event, printed>>
-----------------------------------------------------------------------------
\* run(): before the loop.
Begin == /\ pc = "first"
         /\ add_arriving_procs
         /\ pc' = "loop"
         /\ UNCHANGED <<given, ready_queue, size, process_running, clock, totals, printed>>

\* The top of the loop: the time of the next event, if there is one.
Advance == /\ pc = "loop"
           /\ last_event' = IF event_queue = <<>> THEN last_event
                            ELSE proc[Head(event_queue)].FT
           /\ pc' = "events"
           /\ UNCHANGED <<given, maxpid, proc, queues, process_running, reading_input,
                          last_io_event, totals, printed>>

Due == event_queue # <<>> /\ proc[Head(event_queue)].FT = last_event

transition_process ==
  /\ pc = "events" /\ Due
  /\ LET p == Head(event_queue) IN leave_cpu(p) \/ become_ready(p)
  /\ UNCHANGED <<given, maxpid, oldproc, reading_input, last_event, pc>>

\* Mutant of Idle: a process is put on the CPU in any case.
Idle_always == TRUE

Idle == ~process_running

Dispatch == /\ pc = "events" /\ ~Due
            /\ IF Idle THEN run_process ELSE UNCHANGED <<proc, queues, process_running>>
            /\ pc' = "arrivals"
            /\ UNCHANGED <<given, maxpid, reading_input, clock, totals, printed>>

\* The bottom of the loop.
Arrivals == /\ pc = "arrivals"
            /\ IF reading_input THEN add_arriving_procs
               ELSE UNCHANGED <<maxpid, proc, event_queue, oldproc, reading_input>>
            /\ pc' = IF event_queue' # <<>> THEN "loop" ELSE "end"
            /\ UNCHANGED <<given, ready_queue, size, process_running, clock, totals, printed>>

Ended == pc = "end" /\ UNCHANGED svars

Next == Begin \/ Advance \/ transition_process \/ Dispatch \/ Arrivals \/ Ended
Spec == Init /\ [][Next]_svars /\ WF_svars(Next)
-----------------------------------------------------------------------------
Ready  == {ready_queue[i] : i \in DOMAIN ready_queue}
Events == {event_queue[i] : i \in DOMAIN event_queue}

(* Every process that was read and has not finished is in exactly one      *)
(* place, and in the state that place is for: waiting to arrive, in the    *)
(* event queue or ready; at most one is running, exactly if                *)
(* process_running says so, and size counts the ready ones.                *)
EachInOnePlace ==
  LET old == {oldproc} \ {NULL} IN
  /\ DOMAIN proc = old \cup Events \cup Ready
  /\ old \cap (Events \cup Ready) = {} /\ Events \cap Ready = {}
  /\ Len(event_queue) = Cardinality(Events)
  /\ size = Cardinality(Ready) /\ size = Cardinality(DOMAIN ready_queue)
  /\ \A p \in DOMAIN proc : proc[p].state = "READY" <=> p \in Ready
  /\ Cardinality({p \in DOMAIN proc : proc[p].state = "RUNNING"}) =
       IF process_running THEN 1 ELSE 0

(* The next event is never passed over: no event in the queue is earlier.  *)
EventsInOrder == \A p \in Events : proc[Head(event_queue)].FT <= proc[p].FT

(* A process never gets more of the CPU than its total, however a burst is *)
(* cut, and its next event, or its finishing time, is its arrival plus     *)
(* what it used of the CPU and of IO: the time it was ready is not in it.  *)
TimeIsUse ==
  \A p \in DOMAIN proc :
    /\ proc[p].cpu_time \in 0..proc[p].TC
    /\ proc[p].FT = proc[p].AT + proc[p].cpu_time + proc[p].IT +
                    (IF proc[p].state = "BLOCKED" THEN proc[p].runtime ELSE 0)

\* Every process of the input has left, and has printed its line.
ServedOnce ==
  /\ DOMAIN proc = {} /\ maxpid = Len(input) + 1
  /\ {printed[i].pid : i \in DOMAIN printed} = 0..Len(input) - 1
  /\ Len(printed) = Len(input)

\* The sum of a sequence of numbers.
SumOf(s) == LET sum[k \in 0..Len(s)] == IF k = 0 THEN 0 ELSE sum[k - 1] + s[k]
            IN  sum[Len(s)]

(* The loop ends only when every process of the input has had its CPU time *)
(* and printed its line, whatever was still to arrive when the event queue *)
(* ran empty, and the totals are those of the lines: the averages are      *)
(* those of one process more than there were, and the time IO was used is  *)
(* the process's own if there was only one.                                *)
AllAreServed ==
  pc = "end" =>
    LET Sum(f(_)) == SumOf([k \in 1..Len(printed) |-> f(printed[k])]) IN
    /\ ServedOnce
    /\ totals.cpu_use = Sum(LAMBDA l : l.TC)
    /\ totals.turnaround = Sum(LAMBDA l : l.FT - l.AT)
    /\ totals.cpu_waiting = unsigned(Sum(LAMBDA l : l.CW))
    /\ Len(input) = 1 => totals.io_use = unsigned(Sum(LAMBDA l : l.IT))

\* The state of Processor: jobs not read or whose time has not come are
\* coming, those printed are done.
Printed == {printed[i].pid : i \in DOMAIN printed}
Given(p) == CASE p \in Printed     -> input[p + 1].TC
              [] p \in DOMAIN proc -> proc[p].cpu_time
              [] OTHER             -> 0
PhaseOf  == [INIT |-> "coming", READY |-> "ready", RUNNING |-> "running",
             PREEMPTED |-> "preempted", BLOCKED |-> "blocked"]
Phase(p) == CASE p \in Printed     -> "done"
              [] p \in DOMAIN proc -> PhaseOf[proc[p].state]
              [] OTHER             -> "coming"

Jobs     == 0..Len(input) - 1
JobNeed  == [p \in Jobs |-> input[p + 1].TC]
JobPhase == [p \in Jobs |-> Phase(p)]
JobGot   == [p \in Jobs |-> Given(p)]

OnCPU    == {p \in DOMAIN proc : proc[p].state = "RUNNING"}
JobBurst == IF OnCPU = {} THEN 0 ELSE proc[CHOOSE p \in OnCPU : TRUE].runtime
JobOrder == CASE algorithm = "S" -> <<>>
              [] algorithm = "L" -> Reverse(ready_queue)
              [] OTHER           -> ready_queue

Job == INSTANCE Processor WITH
         policy <- algorithm, slice <- quantum, need <- JobNeed,
         phase <- JobPhase, got <- JobGot, burst <- JobBurst, order <- JobOrder

(* The simulation is a processor that is given to one job at a time: to    *)
(* each, burst by burst, for exactly its total time, to the ready one      *)
(* whose turn it is (under SJF one of the greatest total), and taken away  *)
(* only by round robin, from those whose burst was cut, at the quantum.    *)
ImplementsProcessor == Job!Spec

(* The loop ends: no event is put off for ever.                            *)
Terminates == <>(pc = "end")

(* A process is, from its arrival to its end, running, blocked or ready:   *)
(* its turnaround is the sum of these times.                               *)
TurnaroundIsSpent ==
  \A i \in DOMAIN printed :
    printed[i].FT - printed[i].AT = unsigned(printed[i].TC + printed[i].IT + printed[i].CW)
=============================================================================
