-------------------------------- MODULE Sched --------------------------------
(***************************************************************************)
(* The kernel thread scheduler: kernel/core/sched.c, thread.c, irq.c and    *)
(* waitqueue.c.                                                             *)
(*                                                                         *)
(* All of this state is protected by one spinlock, _k_sched_spinlock.  The  *)
(* lock is a variable here, because a CPU that gives up its thread keeps    *)
(* the lock across the context switch: the thread that is switched to       *)
(* releases it.  A step is what one CPU does between taking the lock and    *)
(* either releasing it or switching context; an operation that sleeps or is *)
(* preempted in the middle continues, from pc[t], when its thread is        *)
(* dispatched again.                                                        *)
(***************************************************************************)
EXTENDS Naturals, Sequences, Functions, PrioQueue

CONSTANTS
  Thread,       \* struct KThread objects
  Cpu,          \* the processors
  BootCpu,      \* CPU 0: boots the others and processes the timeouts
  WaitQueue,    \* queues slept on in THREAD_STATE_SLEEP
  Mutex,        \* mutexes; each has a queue slept on in THREAD_STATE_MUTEX
  Mortal,       \* the threads whose code may call k_thread_exit()
  MaxPriorities,\* THREAD_MAX_PRIORITIES; 0 is the highest priority
  SavedPriority,\* saved_priority: the priority k_thread_create() was given
  NoThread, NoCpu, NoQueue

Queue == WaitQueue \cup Mutex
Priority == 0 .. MaxPriorities - 1

ASSUME SchedAssumption ==
  /\ BootCpu \in Cpu
  /\ NoCpu \notin Cpu
  /\ NoThread \notin Thread
  /\ NoQueue \notin Queue
  /\ WaitQueue \cap Mutex = {}
  /\ Mortal \subseteq Thread
  /\ MaxPriorities \in Nat
  /\ SavedPriority \in [Thread -> Priority]

VARIABLES
  state,        \* thread->state ("none": the object is not allocated)
  priority,     \* thread->priority, the effective priority
  pc,           \* where the thread continues when it gets the CPU back
  sleep_result, \* thread->sleep_result
  timer,        \* thread->timer is in the timeout queue
  resched,      \* THREAD_FLAG_RESCHEDULE
  sched_queue,  \* the run queues, one per priority
  waitq,        \* the wait queues, embedded in mutexes, semaphores, ...
  threads_to_destroy,
  mode,         \* what the CPU is executing
  curr,         \* _k_cpu()->thread
  irq,          \* _k_cpu()->lock_count > 0: inside an IRQ handler
  drain,        \* the queue that _k_sched_wakeup_all_locked() is emptying
  sched_lock    \* the CPU that holds _k_sched_spinlock

threadVars == <<state, priority, pc, sleep_result, timer, resched>>
queueVars == <<sched_queue, waitq, threads_to_destroy>>
cpuVars == <<mode, curr, irq, drain, sched_lock>>
schedVars == <<threadVars, queueVars, cpuVars>>

State == {"none", "suspended", "ready", "running", "sleep", "mutex", "destroyed"}

(***************************************************************************)
(* Continuations.  "run" is the thread's own code; the others are points    *)
(* inside an operation; q is the queue or mutex the operation is about and  *)
(* timed tells whether it has a timeout.                                    *)
(***************************************************************************)
Op == {"run", "sleep", "wakeall", "lock", "raise", "block", "unlock"}
At(op, q, timed) == [op |-> op, q |-> q, timed |-> timed]
Run == At("run", NoQueue, FALSE)

Result == {"ok", "timedout", "intr", "inval"}
Mode == {"boot", "loop", "run", "reap", "free", "idle"}

TypeOK ==
  /\ state \in [Thread -> State]
  /\ priority \in [Thread -> Priority]
  /\ pc \in [Thread -> [op : Op, q : Queue \cup {NoQueue}, timed : BOOLEAN]]
  /\ sleep_result \in [Thread -> Result]
  /\ timer \in [Thread -> BOOLEAN]
  /\ resched \in [Thread -> BOOLEAN]
  /\ sched_queue \in [Priority -> Seq(Thread)]
  /\ waitq \in [Queue -> Seq(Thread)]
  /\ threads_to_destroy \in Seq(Thread)
  /\ mode \in [Cpu -> Mode]
  /\ curr \in [Cpu -> Thread \cup {NoThread}]
  /\ irq \in [Cpu -> BOOLEAN]
  /\ drain \in [Cpu -> Queue \cup {NoQueue}]
  /\ sched_lock \in Cpu \cup {NoCpu}

(***************************************************************************)
(* main() has created the first threads, suspended, and no CPU has entered  *)
(* k_sched_start() yet.                                                     *)
(***************************************************************************)
Init ==
  /\ state = [t \in Thread |-> "suspended"]
  /\ priority = SavedPriority
  /\ pc = [t \in Thread |-> Run]
  /\ sleep_result = [t \in Thread |-> "ok"]
  /\ timer = [t \in Thread |-> FALSE]
  /\ resched = [t \in Thread |-> FALSE]
  /\ sched_queue = [p \in Priority |-> <<>>]
  /\ waitq = [q \in Queue |-> <<>>]
  /\ threads_to_destroy = <<>>
  /\ mode = [c \in Cpu |-> "boot"]
  /\ curr = [c \in Cpu |-> NoThread]
  /\ irq = [c \in Cpu |-> FALSE]
  /\ drain = [c \in Cpu |-> NoQueue]
  /\ sched_lock = NoCpu
-----------------------------------------------------------------------------
(* Where a CPU can call into the scheduler.                                 *)

Unlocked == sched_lock = NoCpu

InThread(c) == Unlocked /\ mode[c] = "run" /\ ~irq[c]

InIrq(c) == Unlocked /\ irq[c]

Active(c) == InThread(c) \/ InIrq(c)

\* The thread on c has just been dispatched, or is inside an operation, and
\* holds the scheduler lock.
Holding(c, op) ==
  /\ sched_lock = c
  /\ mode[c] = "run"
  /\ drain[c] = NoQueue
  /\ pc[curr[c]].op = op
-----------------------------------------------------------------------------
(* The queues.                                                              *)

\* Mutant: the front of the queue.
EnqueueFirst(rq, t) == [rq EXCEPT ![priority[t]] = <<t>> \o @]

\* _k_sched_enqueue(): the back of the run queue of the thread's priority.
Enqueue(rq, t) == [rq EXCEPT ![priority[t]] = Append(@, t)]

\* Mutant: the link is not removed.
UnlinkNothing(t) == waitq

\* k_list_remove(&thread->link), from the wait queue the thread is on.
Unlink(t) == [q \in Queue |-> Remove(waitq[q], t)]

Ready(p) == sched_queue[p] # <<>>
SomeReady == \E p \in Priority : Ready(p)

\* The context switch to the scheduler loop: the lock stays with the CPU.
SwitchOut(c) ==
  /\ mode' = [mode EXCEPT ![c] = "loop"]
  /\ curr' = [curr EXCEPT ![c] = NoThread]
  /\ sched_lock' = c

(***************************************************************************)
(* _k_sched_may_yield(): after u has become ready, the thread running on c  *)
(* gives way to it if u has a higher priority; an IRQ handler can only ask  *)
(* for this with THREAD_FLAG_RESCHEDULE.                                    *)
(***************************************************************************)
\* Mutant: yields to a thread of the same priority too.
OutranksOrEqual(c, u) == curr[c] # NoThread /\ priority[u] <= priority[curr[c]]

Outranks(c, u) == curr[c] # NoThread /\ priority[u] < priority[curr[c]]

\* Mutant: _k_sched_may_yield() only leaves the request.
PreemptsNever(c, u) == FALSE

\* Mutant: an IRQ handler yields at once.
PreemptsInIrq(c, u) == Outranks(c, u)

Preempts(c, u) == Outranks(c, u) /\ ~irq[c]

\* u becomes ready and c may yield to it.  A preempted thread continues at k;
\* otherwise the lock is left as hold.
EnqueueAndMayYield(c, u, k, hold) ==
  LET t == curr[c] IN
  IF Preempts(c, u)
  THEN /\ state' = [state EXCEPT ![u] = "ready", ![t] = "ready"]
       /\ sched_queue' = Enqueue(Enqueue(sched_queue, u), t)
       /\ pc' = [pc EXCEPT ![t] = k]
       /\ SwitchOut(c)
       /\ UNCHANGED resched
  ELSE /\ state' = [state EXCEPT ![u] = "ready"]
       /\ sched_queue' = Enqueue(sched_queue, u)
       /\ resched' = IF Outranks(c, u) THEN [resched EXCEPT ![t] = TRUE]
                                       ELSE resched
       /\ sched_lock' = hold
       /\ UNCHANGED <<pc, mode, curr>>

\* _k_sched_resume() of a sleeping thread.
Asleep(u) == state[u] \in {"sleep", "mutex"}

ResumeSleeper(c, u, r, k, hold) ==
  /\ waitq' = Unlink(u)
  /\ sleep_result' = [sleep_result EXCEPT ![u] = r]
  /\ EnqueueAndMayYield(c, u, k, hold)

\* The current thread t leaves the CPU in state s and continues at k.
Leave(c, s, k) ==
  /\ state' = [state EXCEPT ![curr[c]] = s]
  /\ pc' = [pc EXCEPT ![curr[c]] = k]
  /\ SwitchOut(c)
-----------------------------------------------------------------------------
(* The scheduler loop: k_sched_start(), k_sched_switch(), k_sched_idle().   *)

\* k_thread_resume() called from main(), where there is no current thread.
BootResume(t) ==
  /\ Unlocked
  /\ mode[BootCpu] = "boot"
  /\ state[t] = "suspended"
  /\ EnqueueAndMayYield(BootCpu, t, Run, NoCpu)
  /\ UNCHANGED <<priority, sleep_result, timer, waitq, threads_to_destroy, irq,
                 drain>>

\* The other CPUs wait for bsp_started.
SchedStart(c) ==
  /\ Unlocked
  /\ mode[c] = "boot"
  /\ c # BootCpu => mode[BootCpu] # "boot"
  /\ mode' = [mode EXCEPT ![c] = "loop"]
  /\ sched_lock' = c
  /\ UNCHANGED <<threadVars, queueVars, curr, irq, drain>>

\* k_sched_dequeue() and k_sched_switch(): the head of the highest non-empty
\* run queue.  The thread continues holding the lock.
Dispatch(c) ==
  /\ sched_lock = c
  /\ mode[c] = "loop"
  /\ \E p \in Priority :
       /\ Ready(p) /\ \A hp \in 0 .. p - 1 : ~Ready(hp)
       /\ LET t == Head(sched_queue[p]) IN
          /\ sched_queue' = [sched_queue EXCEPT ![p] = Tail(@)]
          /\ state' = [state EXCEPT ![t] = "running"]
          /\ curr' = [curr EXCEPT ![c] = t]
  /\ mode' = [mode EXCEPT ![c] = "run"]
  /\ UNCHANGED <<priority, pc, sleep_result, timer, resched, waitq,
                 threads_to_destroy, irq, drain, sched_lock>>

\* One iteration of the cleanup in k_sched_idle().  The lock is dropped while
\* the thread object and its stack are freed.
Reap(c) ==
  /\ sched_lock = c
  /\ mode[c] = "reap" \/ (mode[c] = "loop" /\ ~SomeReady)
  /\ threads_to_destroy # <<>>
  /\ state' = [state EXCEPT ![Head(threads_to_destroy)] = "none"]
  /\ threads_to_destroy' = Tail(threads_to_destroy)
  /\ mode' = [mode EXCEPT ![c] = "free"]
  /\ sched_lock' = NoCpu
  /\ UNCHANGED <<priority, pc, sleep_result, timer, resched, sched_queue, waitq,
                 curr, irq, drain>>

Reaped(c) ==
  /\ Unlocked
  /\ mode[c] = "free"
  /\ ~irq[c]
  /\ mode' = [mode EXCEPT ![c] = "reap"]
  /\ sched_lock' = c
  /\ UNCHANGED <<threadVars, queueVars, curr, irq, drain>>

\* Nothing left to do: release the lock and wait for an interrupt.
Idle(c) ==
  /\ sched_lock = c
  /\ mode[c] = "reap" \/ (mode[c] = "loop" /\ ~SomeReady)
  /\ threads_to_destroy = <<>>
  /\ mode' = [mode EXCEPT ![c] = "idle"]
  /\ sched_lock' = NoCpu
  /\ UNCHANGED <<threadVars, queueVars, curr, irq, drain>>

\* arch_thread_idle() returns.
IdleWake(c) ==
  /\ Unlocked
  /\ mode[c] = "idle"
  /\ ~irq[c]
  /\ mode' = [mode EXCEPT ![c] = "loop"]
  /\ sched_lock' = c
  /\ UNCHANGED <<threadVars, queueVars, curr, irq, drain>>
-----------------------------------------------------------------------------
(* A dispatched thread continues where it gave up the CPU.                  *)

\* k_thread_run(), and the end of every operation that may be preempted.
ContinueRun(c) ==
  /\ Holding(c, "run")
  /\ sched_lock' = NoCpu
  /\ UNCHANGED <<threadVars, queueVars, mode, curr, irq, drain>>

\* Mutant: the timer is left in the timeout queue.
FinishSleepKeepsTimer(t) ==
  /\ sleep_result' = [sleep_result EXCEPT ![t] = "ok"]
  /\ UNCHANGED timer

\* The rest of _k_sched_sleep(): remove a timer that has not expired and return
\* the result, which nobody reads again before the next sleep.
FinishSleep(t) ==
  /\ timer' = [timer EXCEPT ![t] = FALSE]
  /\ sleep_result' = [sleep_result EXCEPT ![t] = "ok"]

ContinueSleep(c) ==
  /\ Holding(c, "sleep")
  /\ FinishSleep(curr[c])
  /\ pc' = [pc EXCEPT ![curr[c]] = Run]
  /\ sched_lock' = NoCpu
  /\ UNCHANGED <<state, priority, resched, queueVars, mode, curr, irq, drain>>

\* Preempted inside _k_sched_wakeup_all_locked(): back to its loop.
ContinueWakeupAll(c) ==
  /\ Holding(c, "wakeall")
  /\ drain' = [drain EXCEPT ![c] = pc[curr[c]].q]
  /\ pc' = [pc EXCEPT ![curr[c]] = Run]
  /\ UNCHANGED <<state, priority, sleep_result, timer, resched, queueVars, mode,
                 curr, irq, sched_lock>>
-----------------------------------------------------------------------------
(* Operations on threads: thread.c.                                         *)

\* k_thread_create() takes no lock: the object is not shared yet.
ThreadCreate(c, u) ==
  /\ InThread(c)
  /\ state[u] = "none"
  /\ state' = [state EXCEPT ![u] = "suspended"]
  /\ priority' = [priority EXCEPT ![u] = SavedPriority[u]]
  /\ pc' = [pc EXCEPT ![u] = Run]
  /\ timer' = [timer EXCEPT ![u] = FALSE]
  /\ resched' = [resched EXCEPT ![u] = FALSE]
  /\ UNCHANGED <<sleep_result, queueVars, cpuVars>>

ThreadResume(c, u) ==
  /\ Active(c)
  /\ state[u] = "suspended"
  /\ EnqueueAndMayYield(c, u, Run, NoCpu)
  /\ UNCHANGED <<priority, sleep_result, timer, waitq, threads_to_destroy, irq,
                 drain>>

ThreadYield(c) ==
  /\ InThread(c)
  /\ sched_queue' = Enqueue(sched_queue, curr[c])
  /\ Leave(c, "ready", Run)
  /\ UNCHANGED <<priority, sleep_result, timer, resched, waitq,
                 threads_to_destroy, irq, drain>>

ThreadSuspend(c) ==
  /\ InThread(c)
  /\ Leave(c, "suspended", Run)
  /\ UNCHANGED <<priority, sleep_result, timer, resched, queueVars, irq, drain>>

\* The timer of a running thread is not queued: _k_timeout_fini() is a no-op.
ThreadExit(c) ==
  /\ InThread(c)
  /\ curr[c] \in Mortal
  /\ threads_to_destroy' = Append(threads_to_destroy, curr[c])
  /\ Leave(c, "destroyed", Run)
  /\ UNCHANGED <<priority, sleep_result, timer, resched, sched_queue, waitq, irq,
                 drain>>

\* k_thread_interrupt(): no effect on a thread that is not sleeping.
ThreadInterrupt(c, u) ==
  /\ Active(c)
  /\ Asleep(u)
  /\ ResumeSleeper(c, u, "intr", Run, NoCpu)
  /\ UNCHANGED <<priority, timer, threads_to_destroy, irq, drain>>
-----------------------------------------------------------------------------
(* Wait queues: waitqueue.c over _k_sched_sleep() and the wakeups.          *)

\* _k_sched_sleep(q, THREAD_STATE_SLEEP, timeout, lock), up to the switch.
Sleep(c, q, timed) ==
  /\ InThread(c)
  /\ waitq' = [waitq EXCEPT ![q] = Add(@, priority, curr[c])]
  /\ timer' = [timer EXCEPT ![curr[c]] = timed]
  /\ Leave(c, "sleep", At("sleep", q, timed))
  /\ UNCHANGED <<priority, sleep_result, resched, sched_queue,
                 threads_to_destroy, irq, drain>>

WakeupOne(c, q) ==
  /\ Active(c)
  /\ waitq[q] # <<>>
  /\ ResumeSleeper(c, Head(waitq[q]), "ok", Run, NoCpu)
  /\ UNCHANGED <<priority, timer, threads_to_destroy, irq, drain>>

\* _k_sched_wakeup_all_locked(): the lock is taken and the loop begins.
WakeupAll(c, q) ==
  /\ Active(c)
  /\ waitq[q] # <<>>
  /\ drain' = [drain EXCEPT ![c] = q]
  /\ sched_lock' = c
  /\ UNCHANGED <<threadVars, queueVars, mode, curr, irq>>

\* One iteration.  The caller can be preempted by the thread it resumes, in
\* the middle of the loop.
WakeupAllNext(c) ==
  /\ drain[c] # NoQueue
  /\ waitq[drain[c]] # <<>>
  /\ LET u == Head(waitq[drain[c]]) IN
     /\ ResumeSleeper(c, u, IF drain[c] \in Mutex THEN "inval" ELSE "ok",
                      At("wakeall", drain[c], FALSE), c)
     /\ drain' = IF Preempts(c, u) THEN [drain EXCEPT ![c] = NoQueue] ELSE drain
  /\ UNCHANGED <<priority, timer, threads_to_destroy, irq>>

WakeupAllDone(c) ==
  /\ drain[c] # NoQueue
  /\ waitq[drain[c]] = <<>>
  /\ drain' = [drain EXCEPT ![c] = NoQueue]
  /\ sched_lock' = NoCpu
  /\ UNCHANGED <<threadVars, queueVars, mode, curr, irq>>
-----------------------------------------------------------------------------
(* Interrupts: irq.c and the tick.  Interrupts are disabled on a CPU while  *)
(* it holds the scheduler lock, and inside a handler.                       *)

IrqBegin(c) ==
  /\ mode[c] \in {"run", "idle", "free"}
  /\ sched_lock # c
  /\ ~irq[c]
  /\ irq' = [irq EXCEPT ![c] = TRUE]
  /\ UNCHANGED <<threadVars, queueVars, mode, curr, drain, sched_lock>>

\* _k_sched_tick(), first half: the time slice of the thread is used up.
IrqTick(c) ==
  /\ InIrq(c)
  /\ curr[c] # NoThread
  /\ resched' = [resched EXCEPT ![curr[c]] = TRUE]
  /\ UNCHANGED <<state, priority, pc, sleep_result, timer, queueVars, cpuVars>>

\* Mutant: the result is stored before the state is looked at.
IrqTimeoutStoresFirst(c, u) ==
  /\ InIrq(c)
  /\ c = BootCpu
  /\ timer[u]
  /\ timer' = [timer EXCEPT ![u] = FALSE]
  /\ IF Asleep(u)
     THEN ResumeSleeper(c, u, "timedout", Run, NoCpu)
     ELSE /\ sleep_result' = [sleep_result EXCEPT ![u] = "timedout"]
          /\ UNCHANGED <<state, pc, resched, sched_queue, waitq, mode, curr,
                         sched_lock>>
  /\ UNCHANGED <<priority, threads_to_destroy, irq, drain>>

\* _k_sched_tick(), second half, on CPU 0: the timeout of u expires and
\* k_thread_timeout_callback() runs.
IrqTimeout(c, u) ==
  /\ InIrq(c)
  /\ c = BootCpu
  /\ timer[u]
  /\ timer' = [timer EXCEPT ![u] = FALSE]
  /\ IF Asleep(u)
     THEN ResumeSleeper(c, u, "timedout", Run, NoCpu)
     ELSE UNCHANGED <<state, pc, sleep_result, resched, sched_queue, waitq, mode,
                      curr, sched_lock>>
  /\ UNCHANGED <<priority, threads_to_destroy, irq, drain>>

\* k_irq_handler_end(): the interrupted thread yields if it was asked to.
IrqEnd(c) ==
  /\ InIrq(c)
  /\ irq' = [irq EXCEPT ![c] = FALSE]
  /\ IF curr[c] # NoThread /\ resched[curr[c]]
     THEN /\ resched' = [resched EXCEPT ![curr[c]] = FALSE]
          /\ sched_queue' = Enqueue(sched_queue, curr[c])
          /\ Leave(c, "ready", Run)
     ELSE UNCHANGED <<resched, sched_queue, state, pc, mode, curr, sched_lock>>
  /\ UNCHANGED <<priority, sleep_result, timer, waitq, threads_to_destroy, drain>>
-----------------------------------------------------------------------------
SchedLoop(c) ==
  \/ SchedStart(c) \/ Dispatch(c) \/ Reap(c) \/ Reaped(c) \/ Idle(c) \/ IdleWake(c)
  \/ ContinueRun(c) \/ ContinueSleep(c) \/ ContinueWakeupAll(c)
  \/ WakeupAllNext(c) \/ WakeupAllDone(c)

ThreadOp(c) ==
  \/ ThreadYield(c)
  \/ ThreadSuspend(c)
  \/ \E u \in Thread : ThreadCreate(c, u) \/ ThreadResume(c, u) \/ ThreadInterrupt(c, u)
  \/ \E q \in WaitQueue : \/ \E timed \in BOOLEAN : Sleep(c, q, timed)
                          \/ WakeupOne(c, q)
                          \/ WakeupAll(c, q)

Interrupt(c) ==
  \/ IrqBegin(c) \/ IrqTick(c) \/ IrqEnd(c)
  \/ \E u \in Thread : IrqTimeout(c, u)

SchedNext ==
  \/ \E t \in Thread : BootResume(t)
  \/ \E c \in Cpu : SchedLoop(c) \/ ThreadOp(c) \/ Interrupt(c)

Next == SchedNext \/ \E c \in Cpu : ThreadExit(c)

(***************************************************************************)
(* Fairness.  A CPU in the scheduler, or spinning on its lock, gets on; the *)
(* timer keeps interrupting every CPU, and a pending interrupt is taken as  *)
(* soon as they are enabled; a handler ticks and returns.  Nothing is       *)
(* assumed of what threads do.                                              *)
(***************************************************************************)
SchedFairness ==
  \A c \in Cpu :
    /\ SF_schedVars(SchedLoop(c))
    /\ SF_schedVars(IrqBegin(c)) /\ SF_schedVars(IrqTick(c)) /\ SF_schedVars(IrqEnd(c))

Spec == Init /\ [][Next]_schedVars
FairSpec == Spec /\ SchedFairness
-----------------------------------------------------------------------------
(* Properties.                                                              *)

\* A CPU and the thread it runs agree: the thread is running, and on one CPU.
CpusAgree ==
  /\ \A c \in Cpu : mode[c] = "run" <=> curr[c] # NoThread
  /\ \A t \in Thread : state[t] = "running" <=> \E c \in Cpu : curr[c] = t
  /\ \A c, d \in Cpu : curr[c] = curr[d] /\ curr[c] # NoThread => c = d

\* What each kind of list holds, given the threads' states, priorities and
\* continuations.
SleepState(q) == IF q \in Mutex THEN "mutex" ELSE "sleep"

RunLinks(rq, st, prio) ==
  \A p \in Priority :
    /\ IsInjective(rq[p])
    /\ Range(rq[p]) = {t \in Thread : st[t] = "ready" /\ prio[t] = p}

WaitLinks(wq, st, k) ==
  \A q \in Queue :
    /\ IsInjective(wq[q])
    /\ Range(wq[q]) = {t \in Thread : st[t] = SleepState(q) /\ k[t].q = q}

DestroyLinks(s, st) ==
  /\ IsInjective(s)
  /\ Range(s) = {t \in Thread : st[t] = "destroyed"}

\* thread->link is on exactly the list that the thread's state calls for: the
\* run queue of its effective priority, the queue it sleeps on, or the list of
\* threads to destroy.  (k_list_add_back() on a linked link corrupts lists.)
LinksAgree ==
  /\ RunLinks(sched_queue, state, priority)
  /\ WaitLinks(waitq, state, pc)
  /\ DestroyLinks(threads_to_destroy, state)

\* A timer left in the timeout queue belongs to a sleep that has not returned
\* yet, so that an old timeout never ends a later sleep.
TimersAreCurrent ==
  \A t \in Thread : timer[t] => pc[t].op \in {"sleep", "lock"} /\ pc[t].timed

\* Once a sleeper has been woken, no late timeout or interrupt changes the
\* result before _k_sched_sleep() returns it.
ResultIsStable ==
  [][\A t \in Thread :
       pc[t].op \in {"sleep", "lock"} /\ pc'[t] = pc[t] /\ ~Asleep(t)
         => sleep_result'[t] = sleep_result[t]]_schedVars

\* With one CPU, a thread only executes its own code while no thread of a
\* higher priority is ready: every wakeup, resume and IRQ exit reschedules.
HighestPriorityRuns ==
  \A c \in Cpu : Cpu = {c} /\ InThread(c)
    => \A u \in Thread : state[u] = "ready" => priority[curr[c]] <= priority[u]

\* A ready thread of the highest priority gets a CPU: ticks make the threads of
\* one priority take turns.
HighestPriorityTakesTurns ==
  \A t \in Thread :
    state[t] = "ready" /\ priority[t] = 0 ~> state[t] = "running"

=============================================================================
