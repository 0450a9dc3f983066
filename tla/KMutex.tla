------------------------------- MODULE KMutex --------------------------------
(***************************************************************************)
(* Mutexes with priority inheritance, kernel/core/mutex.c, together with    *)
(* the scheduler they are entangled with.                                   *)
(*                                                                         *)
(* _k_mutex_may_raise_priority() and _k_sched_raise_priority() call each    *)
(* other along the chain "mutex, its owner, the mutex the owner waits for". *)
(* Each call is a step (RaisePriority), taken with the scheduler lock held; *)
(* visit is the mutex of the pending call.                                  *)
(***************************************************************************)
EXTENDS Sched, FiniteSetsExt

CONSTANT Disposable   \* the mutexes that may be finished and created again

ASSUME DisposableAssumption == Disposable \subseteq Mutex

VARIABLES
  owner,     \* mutex->owner; thread->owned_mutexes is the inverse relation
  mpriority, \* mutex->priority
  live,      \* initialised and not finished
  visit,     \* argument of the pending _k_mutex_may_raise_priority() call
  held,      \* the mutexes that the thread's own code goes on to treat as
             \* locked, because k_mutex_lock() or k_mutex_try_lock() gave 0
  panic      \* which panic() or assert() has stopped the kernel

mutexVars == <<owner, mpriority, live, visit, held, panic>>
vars == <<schedVars, mutexVars>>

Panic == {"none", "not the highest priority", "no owner", "not holding",
          "mutex locked"}

MutexTypeOK ==
  /\ TypeOK
  /\ owner \in [Mutex -> Thread \cup {NoThread}]
  /\ mpriority \in [Mutex -> 0 .. MaxPriorities]
  /\ live \in [Mutex -> BOOLEAN]
  /\ visit \in Mutex \cup {NoQueue}
  /\ held \in [Thread -> SUBSET Mutex]
  /\ panic \in Panic

MutexInit ==
  /\ Init
  /\ owner = [m \in Mutex |-> NoThread]
  /\ mpriority = [m \in Mutex |-> MaxPriorities]
  /\ live = [m \in Mutex |-> TRUE]
  /\ visit = NoQueue
  /\ held = [t \in Thread |-> {}]
  /\ panic = "none"

Owned(own, t) == {m \in Mutex : own[m] = t}

\* _k_mutex_get_highest_priority() and _k_sched_update_effective_priority().
EffectivePriority(own, mprio, t) ==
  Min({SavedPriority[t]} \cup {mprio[m] : m \in Owned(own, t)})

\* The kernel stops with the lock held.
Stop(c, why) ==
  /\ panic' = why
  /\ sched_lock' = c
-----------------------------------------------------------------------------
(* k_mutex_timed_lock().                                                    *)

\* The call returns 0, whatever the result of the loop was.
LockReturns(c, m) ==
  /\ held' = [held EXCEPT ![curr[c]] = @ \cup {m}]
  /\ pc' = [pc EXCEPT ![curr[c]] = Run]
  /\ sched_lock' = NoCpu

\* k_mutex_try_lock_locked() on a free mutex.
Acquire(c, m) ==
  IF priority[curr[c]] <= mpriority[m]
  THEN /\ owner' = [owner EXCEPT ![m] = curr[c]]
       /\ LockReturns(c, m)
       /\ UNCHANGED panic
  ELSE /\ Stop(c, "not the highest priority")
       /\ UNCHANGED <<owner, held, pc>>

\* One iteration of the loop, up to the first _k_mutex_may_raise_priority().
LockIteration(c, m, timed) ==
  /\ \/ /\ owner[m] = NoThread
        /\ Acquire(c, m)
        /\ UNCHANGED visit
     \/ /\ owner[m] = curr[c]               \* -EDEADLK
        /\ LockReturns(c, m)
        /\ UNCHANGED <<owner, visit, panic>>
     \/ /\ owner[m] \notin {NoThread, curr[c]}
        /\ visit' = m
        /\ pc' = [pc EXCEPT ![curr[c]] = At("raise", m, timed)]
        /\ sched_lock' = c
        /\ UNCHANGED <<owner, held, panic>>
  /\ UNCHANGED <<mpriority, live>>

Lock(c, m, timed) ==
  /\ InThread(c)
  /\ live[m]
  /\ LockIteration(c, m, timed)
  /\ UNCHANGED <<state, priority, sleep_result, timer, resched, queueVars, mode,
                 curr, irq, drain>>

TryLock(c, m) ==
  /\ InThread(c)
  /\ live[m]
  /\ owner[m] = NoThread
  /\ Acquire(c, m)
  /\ UNCHANGED <<state, priority, sleep_result, timer, resched, queueVars, mode,
                 curr, irq, drain, mpriority, live, visit>>

\* The chain of raised priorities ends: next, go to sleep on the mutex.
RaiseDone(c) ==
  /\ visit' = NoQueue
  /\ pc' = [pc EXCEPT ![curr[c]].op = "block"]

\* Mutant: the priority is not passed on to the mutex that o waits for.
RaiseThreadOnly(c, o, p) ==
  /\ priority' = [priority EXCEPT ![o] = p]
  /\ sched_queue' = IF state[o] = "ready"
                    THEN [sched_queue EXCEPT ![priority[o]] = Remove(@, o),
                                             ![p] = Append(@, o)]
                    ELSE sched_queue
  /\ waitq' = IF state[o] = "mutex"
              THEN [waitq EXCEPT ![pc[o].q] = Add(Remove(@, o), priority', o)]
              ELSE waitq
  /\ RaiseDone(c)

\* _k_sched_raise_priority(o, p).
RaiseThread(c, o, p) ==
  /\ priority' = [priority EXCEPT ![o] = p]
  /\ CASE state[o] = "ready" ->
            /\ sched_queue' = [sched_queue EXCEPT
                                 ![priority[o]] = Remove(@, o),
                                 ![p] = Append(@, o)]
            /\ RaiseDone(c)
            /\ UNCHANGED waitq
       [] state[o] = "mutex" ->
            /\ waitq' = [waitq EXCEPT ![pc[o].q] =
                                        Add(Remove(@, o), priority', o)]
            /\ visit' = pc[o].q
            /\ UNCHANGED <<pc, sched_queue>>
       [] OTHER ->
            /\ RaiseDone(c)
            /\ UNCHANGED <<sched_queue, waitq>>

\* Mutant: mutex->priority is stored only when the owner is raised.
MayRaiseOwnerOnly(c) ==
  LET o == owner[visit]
      p == priority[curr[c]] IN
  IF o = NoThread
  THEN /\ Stop(c, "no owner")
       /\ UNCHANGED <<priority, pc, sched_queue, waitq, mpriority, visit>>
  ELSE /\ IF mpriority[visit] > p /\ priority[o] > p
          THEN /\ RaiseThread(c, o, p)
               /\ mpriority' = [mpriority EXCEPT ![visit] = p]
          ELSE RaiseDone(c) /\ UNCHANGED <<priority, sched_queue, waitq, mpriority>>
       /\ UNCHANGED <<panic, sched_lock>>

\* _k_mutex_may_raise_priority(visit, p), p being the priority of the caller.
MayRaisePriority(c) ==
  LET o == owner[visit]
      p == priority[curr[c]] IN
  IF o = NoThread
  THEN /\ Stop(c, "no owner")
       /\ UNCHANGED <<priority, pc, sched_queue, waitq, mpriority, visit>>
  ELSE /\ IF mpriority[visit] > p /\ priority[o] > p
          THEN RaiseThread(c, o, p)
          ELSE RaiseDone(c) /\ UNCHANGED <<priority, sched_queue, waitq>>
       /\ mpriority' = IF mpriority[visit] > p
                       THEN [mpriority EXCEPT ![visit] = p] ELSE mpriority
       /\ UNCHANGED <<panic, sched_lock>>

RaisePriority(c) ==
  /\ Holding(c, "raise")
  /\ MayRaisePriority(c)
  /\ UNCHANGED <<state, sleep_result, timer, resched, threads_to_destroy, mode,
                 curr, irq, drain, owner, live, held>>

\* _k_sched_sleep(&mutex->queue, THREAD_STATE_MUTEX, timeout, NULL).
Block(c) ==
  LET t == curr[c] IN
  /\ Holding(c, "block")
  /\ waitq' = [waitq EXCEPT ![pc[t].q] = Add(@, priority, t)]
  /\ timer' = [timer EXCEPT ![t] = pc[t].timed]
  /\ Leave(c, "mutex", [pc[t] EXCEPT !.op = "lock"])
  /\ UNCHANGED <<priority, sleep_result, resched, sched_queue,
                 threads_to_destroy, irq, drain, mutexVars>>

-----------------------------------------------------------------------------
(* k_mutex_unlock().                                                        *)

\* Mutant: the caller keeps the priority it has inherited.
RecalculateMutexOnly(t, m, wq, own) ==
  /\ mpriority' = [mpriority EXCEPT ![m] = IF wq[m] = <<>> THEN MaxPriorities
                                           ELSE priority[Head(wq[m])]]
  /\ UNCHANGED priority

\* _k_mutex_recalc_priority() and _k_sched_update_effective_priority(), where
\* wq and own are the queues and the owners after the wakeup.
Recalculate(t, m, wq, own) ==
  /\ mpriority' = [mpriority EXCEPT ![m] = IF wq[m] = <<>> THEN MaxPriorities
                                           ELSE priority[Head(wq[m])]]
  /\ priority' = [priority EXCEPT ![t] = EffectivePriority(own, mpriority', t)]

\* If the woken thread preempts the caller, the recalculation is done when
\* the caller continues.
Unlock(c, m) ==
  LET t == curr[c] IN
  /\ InThread(c)
  /\ m \in held[t]
  /\ held' = [held EXCEPT ![t] = @ \ {m}]
  /\ IF owner[m] # t
     THEN /\ Stop(c, "not holding")
          /\ UNCHANGED <<threadVars, queueVars, mode, curr, owner, mpriority>>
     ELSE /\ owner' = [owner EXCEPT ![m] = NoThread]
          /\ IF waitq[m] = <<>>
             THEN /\ Recalculate(t, m, waitq, owner')
                  /\ UNCHANGED <<state, pc, sleep_result, resched, sched_queue,
                                 waitq, mode, curr, sched_lock>>
             ELSE /\ ResumeSleeper(c, Head(waitq[m]), "ok", At("unlock", m, FALSE), NoCpu)
                  /\ IF Preempts(c, Head(waitq[m]))
                     THEN UNCHANGED <<mpriority, priority>>
                     ELSE Recalculate(t, m, waitq', owner')
          /\ UNCHANGED <<timer, threads_to_destroy, panic>>
  /\ UNCHANGED <<irq, drain, live, visit>>

\* A thread continues inside k_mutex_unlock(), or is back from the sleep in
\* k_mutex_timed_lock(), which gives up on an error and else tries again.
ContinueMutex(c) ==
  LET t == curr[c]
      k == pc[t] IN
  /\ Holding(c, k.op)
  /\ k.op \in {"lock", "unlock"}
  /\ FinishSleep(t)
  /\ IF k.op = "unlock"
     THEN /\ Recalculate(t, k.q, waitq, owner)
          /\ pc' = [pc EXCEPT ![t] = Run]
          /\ sched_lock' = NoCpu
          /\ UNCHANGED <<owner, live, visit, held, panic>>
     ELSE /\ IF sleep_result[t] # "ok"
             THEN /\ LockReturns(c, k.q)
                  /\ UNCHANGED <<owner, mpriority, live, visit, panic>>
             ELSE LockIteration(c, k.q, k.timed)
          /\ UNCHANGED priority
  /\ UNCHANGED <<state, resched, queueVars, mode, curr, irq, drain>>
-----------------------------------------------------------------------------
(* k_mutex_fini() and k_mutex_destroy(); k_mutex_init() and create.         *)

\* t was woken to try m again and has not done so yet.
Retrying(t, m) ==
  /\ pc[t].op = "lock" /\ pc[t].q = m
  /\ state[t] # "mutex" /\ sleep_result[t] = "ok"

\* The caller must know that no thread which an unlock has woken is still on
\* its way to try the mutex again: it would use the object after its end.
Fini(c, m) ==
  /\ InThread(c)
  /\ live[m]
  /\ ~\E t \in Thread : Retrying(t, m)
  /\ live' = [live EXCEPT ![m] = FALSE]
  /\ IF owner[m] # NoThread
     THEN Stop(c, "mutex locked") /\ UNCHANGED drain
     ELSE /\ drain' = [drain EXCEPT ![c] = m]
          /\ sched_lock' = c
          /\ UNCHANGED panic
  /\ UNCHANGED <<threadVars, queueVars, mode, curr, irq, owner, mpriority, visit,
                 held>>

\* The memory is used again once k_mutex_fini() has returned.
Create(c, m) ==
  /\ InThread(c)
  /\ ~live[m]
  /\ waitq[m] = <<>>
  /\ \A t \in Thread : pc[t] # At("wakeall", m, FALSE)
  /\ live' = [live EXCEPT ![m] = TRUE]
  /\ mpriority' = [mpriority EXCEPT ![m] = MaxPriorities]
  /\ UNCHANGED <<schedVars, owner, visit, held, panic>>
-----------------------------------------------------------------------------
MutexOp(c) ==
  \/ \E m \in Mutex :
       \/ \E timed \in BOOLEAN : Lock(c, m, timed)
       \/ TryLock(c, m)
       \/ Unlock(c, m)
  \/ RaisePriority(c)
  \/ Block(c)
  \/ ContinueMutex(c)
  \/ \E m \in Disposable : Fini(c, m) \/ Create(c, m)

\* A thread holds no mutex when it exits.
Exit(c) == ThreadExit(c) /\ held[curr[c]] = {}

MutexNext ==
  \/ /\ panic = "none"
     /\ \/ SchedNext /\ UNCHANGED mutexVars
        \/ \E c \in Cpu : \/ MutexOp(c)
                          \/ Exit(c) /\ UNCHANGED mutexVars
  \/ panic # "none" /\ UNCHANGED vars


MutexSpec == MutexInit /\ [][MutexNext]_vars
-----------------------------------------------------------------------------
(* Properties.                                                              *)

\* Priority inheritance: whenever the scheduler lock is free, the owner of a
\* mutex has at least the priority of every thread queued on it, through any
\* chain of mutexes and however waiters come, time out and are interrupted.
PriorityInherited ==
  visit = NoQueue =>
    \A m \in Mutex : \A i \in 1 .. Len(waitq[m]) :
      owner[m] # NoThread => priority[owner[m]] <= priority[waitq[m][i]]

\* The effective priority is exactly what saved_priority and the mutexes the
\* thread owns account for: it is neither lost by a nested unlock nor kept.
PriorityAccounted ==
  \A t \in Thread : state[t] # "none" =>
    priority[t] = EffectivePriority(owner, mpriority, t)

\* _k_mutex_recalc_priority() may take the head of the queue for its highest
\* priority: a queued thread that is raised is moved.
QueuesSorted == \A m \in Mutex : Sorted(waitq[m], priority)

\* k_mutex_unlock() is never preempted between giving the mutex up and
\* recalculating the priorities, although _k_sched_resume() may yield.
UnlockIsAtomic == \A t \in Thread : pc[t].op # "unlock"

\* No lost wakeup: while threads sleep on a free mutex, one that was woken to
\* take it has not tried yet.
NoLostWakeup ==
  \A m \in Mutex :
    owner[m] = NoThread /\ waitq[m] # <<>> /\ live[m]
      => \E t \in Thread : Retrying(t, m)

(***************************************************************************)
(* The inductive invariant behind PriorityInherited and UnlockIsAtomic.     *)
(***************************************************************************)
\* A thread inside k_mutex_timed_lock() up to its sleep has the scheduler lock.
LockPath(t) == pc[t].op \in {"raise", "block"}

LockPathsLocked ==
  /\ \A t \in Thread : LockPath(t) =>
       \E c \in Cpu : sched_lock = c /\ curr[c] = t /\ drain[c] = NoQueue
  /\ \A c \in Cpu : irq[c] => mode[c] \in {"run", "idle", "free"}
  /\ \A c \in Cpu : drain[c] # NoQueue =>
       sched_lock = c /\ mode[c] \in {"run", "idle", "free"}
  /\ visit # NoQueue <=> \E t \in Thread : pc[t].op = "raise"
  /\ \A t \in Thread : pc[t].op \in {"raise", "block", "lock"} => pc[t].q \in Mutex
  /\ \A t \in Thread : state[t] = "mutex" => pc[t].op = "lock"

\* What is still to be raised: the mutex visited, to the caller's priority.
RaisePending(m, p) ==
  visit = m /\ \E t \in Thread : pc[t].op = "raise" /\ priority[t] <= p

OwnersBound ==
  \A m \in Mutex : owner[m] # NoThread => priority[owner[m]] <= mpriority[m]

WaitersBound ==
  \A w \in Thread :
    state[w] = "mutex" \/ LockPath(w) =>
      mpriority[pc[w].q] <= priority[w] \/ RaisePending(pc[w].q, priority[w])

OwnersHold ==
  \A m \in Mutex : owner[m] # NoThread =>
    /\ m \in held[owner[m]]
    /\ state[owner[m]] \notin {"none", "destroyed"}

IInv ==
  /\ MutexTypeOK
  /\ CpusAgree
  /\ LinksAgree
  /\ LockPathsLocked
  /\ OwnersHold
  /\ OwnersBound
  /\ WaitersBound
  /\ QueuesSorted
  /\ UnlockIsAtomic

\* Interrupts are off on the CPU that holds the scheduler lock: a handler only
\* holds it inside _k_sched_wakeup_all_locked().
LockMasksIrqs ==
  \A c \in Cpu : sched_lock = c /\ drain[c] = NoQueue => ~irq[c]

KInv == IInv /\ LockMasksIrqs

\* try_lock_locked(): "The highest-priority thread always locks the mutex
\* first", the assertion of mutex.c:129.
HighestPriorityLocksFirst == panic # "not the highest priority"

\* _k_mutex_may_raise_priority(): the assertion of mutex.c:105.
RaisedMutexIsOwned == panic # "no owner"

\* A thread that k_mutex_lock() has returned 0 to owns the mutex.
LockedIsOwned == \A t \in Thread : \A m \in held[t] : owner[m] = t

\* sched.c:319: the head of a queue is "the highest priority thread waiting".
WakeupIsHighest ==
  \A q \in WaitQueue : \A i \in 1 .. Len(waitq[q]) :
    priority[Head(waitq[q])] <= priority[waitq[q][i]]

=============================================================================
