----------------------------- MODULE KSemaphore -----------------------------
(***************************************************************************)
(* Counting semaphores: kernel/core/semaphore.c.  A semaphore is its wait   *)
(* queue with a count and a spinlock.                                       *)
(***************************************************************************)
EXTENDS KSpin, FiniteSets

CONSTANTS Semaphore, \* the semaphores, by their wait queues
          MaxCount   \* a bound of the model on the count

ASSUME SemaphoreAssumption ==
  /\ Semaphore \subseteq WaitQueue
  /\ MaxCount \in Nat \ {0}
  /\ IsFiniteSet(Thread)

VARIABLE count      \* count[s]: semaphore->count

semVars == <<schedVars, spinVars, count>>

SemInit == count = [s \in Semaphore |-> 0]

\* k_semaphore_try_get_locked().
TryGetLocked(c, s) ==
  /\ count[s] > 0
  /\ count' = [count EXCEPT ![s] = @ - 1]
  /\ WithoutWakeup(c)

\* One iteration of the loop of k_semaphore_timed_get().
TimedGetLocked(c, s, timed) ==
  \/ TryGetLocked(c, s)
  \/ count[s] = 0 /\ SleepOn(c, s, s, timed, NoQueue) /\ UNCHANGED count

TimedGet(c, s, timed) ==
  /\ Own(c)
  /\ \/ AcquireFails(c, s) /\ UNCHANGED count
     \/ Available(s) /\ TimedGetLocked(c, s, timed)

\* k_semaphore_try_get(); a count of 0 changes nothing.
TryGet(c, s) ==
  /\ Own(c)
  /\ \/ AcquireFails(c, s) /\ UNCHANGED count
     \/ Available(s) /\ TryGetLocked(c, s)

\* Back from the sleep: the next iteration of the loop.
TimedGetRetry(c) ==
  LET k == at[curr[c]] IN
  /\ InThread(c)
  /\ k.op = "retry" /\ k.obj \in Semaphore
  /\ \/ AcquireFails(c, k.obj) /\ UNCHANGED count
     \/ Available(k.obj) /\ TimedGetLocked(c, k.obj, k.timed)

\* Mutant: a waiter is only woken when the count leaves 0.
PutFirstOnly(c, s) ==
  /\ Caller(c)
  /\ \/ AcquireFails(c, s) /\ UNCHANGED count
     \/ /\ Available(s)
        /\ count[s] < MaxCount
        /\ count' = [count EXCEPT ![s] = @ + 1]
        /\ IF count[s] = 0 THEN WakeupHolding(c, s, s)
                           ELSE WithoutWakeup(c)

\* Mutant: no waiter is woken.
PutQuiet(c, s) ==
  /\ Caller(c)
  /\ Available(s)
  /\ count[s] < MaxCount
  /\ count' = [count EXCEPT ![s] = @ + 1]
  /\ WithoutWakeup(c)

\* k_semaphore_put(), by a thread or by an IRQ handler.
Put(c, s) ==
  /\ Caller(c)
  /\ \/ AcquireFails(c, s) /\ UNCHANGED count
     \/ /\ Available(s)
        /\ count[s] < MaxCount
        /\ count' = [count EXCEPT ![s] = @ + 1]
        /\ WakeupHolding(c, s, s)

SemOp(c) ==
  \/ \E s \in Semaphore :
       \/ \E timed \in BOOLEAN : TimedGet(c, s, timed)
       \/ TryGet(c, s)
       \/ Put(c, s)
  \/ TimedGetRetry(c)
-----------------------------------------------------------------------------
(* Properties.                                                              *)

\* No put is lost: while threads sleep on a semaphore, every unit of its count
\* has a woken thread on its way to take it, however the wakeups race with
\* timeouts, interrupted sleeps and threads that take the count first.
CountHasTakers ==
  \A s \in Semaphore :
    waitq[s] # <<>> => count[s] <= Cardinality({t \in Thread : Woken(t, s)})
=============================================================================
