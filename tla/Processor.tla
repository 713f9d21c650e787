----------------------------- MODULE Processor -----------------------------
(* What a scheduler promises, without time, queues or a simulation: one    *)
(* processor that is given to one job at a time, to each for the CPU time  *)
(* it needs and no more, in the order of the policy.                       *)
EXTENDS Integers, Sequences, SequencesExt

VARIABLES policy,  \* "F", "L", "S" or "R"
          slice,   \* the longest burst under round robin
          need,    \* job -> the CPU time it needs; jobs come in this order
          phase,   \* job -> "coming", "ready", "running", "preempted",
                   \*        "blocked" or "done"
          got,     \* job -> the CPU time it was given
          burst,   \* what the running job was given this time
          order    \* the ready jobs in the order they became ready, where
                   \* the policy asks for it; SJF does not

avars == <<policy, slice, need, phase, got, burst, order>>
Jobs  == DOMAIN need
In(x) == {j \in Jobs : phase[j] = x}

Init == /\ phase = [j \in Jobs |-> "coming"]
        /\ got = [j \in Jobs |-> 0] /\ burst = 0
        /\ order = <<>>

Moves(j, from, to) == phase[j] \in from /\ phase' = [phase EXCEPT ![j] = to]

\* A job arrives, after those before it, or comes back.
BecomesReady(j) ==
  /\ Moves(j, {"coming", "preempted", "blocked"}, "ready")
  /\ phase[j] = "coming" => \A k \in In("coming") : j <= k
  /\ order' = IF policy = "S" THEN order ELSE Append(order, j)
  /\ UNCHANGED <<policy, slice, need, got, burst>>

\* Whose turn it is: who waits longest, shortest, or needs most in all.
HasTurn(j) == CASE policy = "L" -> j = order[Len(order)]
                [] policy = "S" -> \A k \in In("ready") : need[k] <= need[j]
                [] OTHER        -> j = Head(order)

\* The ready jobs without the one whose turn it is.
Others == CASE policy = "L" -> Front(order)
            [] policy = "S" -> order
            [] OTHER        -> Tail(order)

GetsProcessor(j) ==
  /\ In("running") = {}
  /\ Moves(j, {"ready"}, "running") /\ HasTurn(j)
  /\ burst' \in 0..need[j] - got[j]
  /\ burst' = 0 => need[j] = 0
  /\ policy = "R" => burst' <= slice
  /\ got' = [got EXCEPT ![j] = @ + burst']
  /\ order' = Others
  /\ UNCHANGED <<policy, slice, need>>

\* Only a whole slice ends in a preemption, and only under round robin.
LeavesProcessor(j) ==
  /\ \/ got[j] = need[j] /\ Moves(j, {"running"}, "done")
     \/ got[j] < need[j] /\ Moves(j, {"running"}, "blocked")
     \/ /\ policy = "R" /\ burst = slice
        /\ got[j] < need[j] /\ Moves(j, {"running"}, "preempted")
  /\ burst' = 0
  /\ UNCHANGED <<policy, slice, need, got, order>>

Next == \E j \in Jobs : BecomesReady(j) \/ GetsProcessor(j) \/ LeavesProcessor(j)
Spec == Init /\ [][Next]_avars
=============================================================================
