------------------------------ MODULE PrioQueue ------------------------------
(***************************************************************************)
(* Wait queues ordered by priority: _k_sched_add() of kernel/core/sched.c,  *)
(* on queues as sequences.  prio gives the priority of a thread; 0 is the   *)
(* highest.                                                                 *)
(***************************************************************************)
EXTENDS Lists

\* The place before the first thread of a strictly lower priority.
AddPosition(s, prio, t) ==
  CHOOSE k \in 1 .. Len(s) + 1 :
    /\ \A i \in 1 .. k - 1 : prio[s[i]] <= prio[t]
    /\ k <= Len(s) => prio[s[k]] > prio[t]

Add(s, prio, t) == InsertAt(s, AddPosition(s, prio, t), t)

\* The highest priority first.
Sorted(s, prio) ==
  \A i, j \in 1 .. Len(s) : i < j => prio[s[i]] <= prio[s[j]]

=============================================================================
