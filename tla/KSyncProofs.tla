----------------------------- MODULE KSyncProofs -----------------------------
(***************************************************************************)
(* Proofs about timed sleeps, semaphores, mailboxes and interrupt threads   *)
(* over the scheduler, for any threads, CPUs, semaphores, messages and any  *)
(* capacity of the mailbox.                                                 *)
(***************************************************************************)
EXTENDS KSync, IrqThread, SchedProofs, FiniteSetTheorems

\* Zenon proves most leaves; those that need arithmetic, or more about functions
\* and records, cite SMT.
USE Zenon

-----------------------------------------------------------------------------
(* The timers of sleeps, for the scheduler and for what is built on it.     *)

Interruptible == {"run", "idle", "free"}

\* Where threads and CPUs are inside the scheduler: an operation that has given
\* up its CPU continues with the scheduler lock, and a loop that empties a queue
\* has the lock too.
PlacesInSched ==
  /\ \A c \in Cpu : irq[c] => mode[c] \in Interruptible
  /\ \A c \in Cpu : drain[c] # NoQueue => sched_lock = c /\ mode[c] \in Interruptible
  /\ \A t \in Thread : pc[t].op # "run" =>
       \/ state[t] \in {"ready", "sleep", "mutex"}
       \/ \E c \in Cpu : curr[c] = t /\ sched_lock = c /\ drain[c] = NoQueue

TimersInv == SInv /\ PlacesInSched /\ TimersAreCurrent

LEMMA OwnCode ==
  ASSUME SInv, PlacesInSched, NEW c \in Cpu, curr[c] # NoThread, Unlocked \/ drain[c] # NoQueue
  PROVE  curr[c] \in Thread /\ pc[curr[c]].op = "run"
<1>1. curr[c] \in Thread /\ state[curr[c]] = "running"
  BY SMT DEF SInv, TypeOK, CpusAgree
<1>2. \A d \in Cpu : curr[d] = curr[c] => d = c
  BY DEF SInv, CpusAgree
<1>3. Unlocked => sched_lock # c
  BY SchedAssumption DEF Unlocked
<1>4. QED
  BY <1>1, <1>2, <1>3 DEF PlacesInSched

\* A step that changes no continuation and starts no timer.
LEMMA QuietTimers ==
  ASSUME TimersInv, UNCHANGED pc, \A t \in Thread : timer'[t] => timer[t]
  PROVE  TimersAreCurrent'
BY DEF TimersInv, TimersAreCurrent

LEMMA ResumePlaces ==
  ASSUME TimersInv, NEW c \in Cpu, NEW u \in Thread, NEW k, NEW hold,
         Unlocked \/ drain[c] # NoQueue,
         hold = IF Unlocked THEN NoCpu ELSE c,
         EnqueueAndMayYield(c, u, k, hold), state[u] # "running", state[u] # "ready",
         state[u] \in {"sleep", "mutex"} \/ pc[u].op = "run",
         \A t \in Thread : timer'[t] => timer[t],
         UNCHANGED irq,
         \A d \in Cpu : drain'[d] = IF d = c /\ Preempts(c, u) THEN NoQueue ELSE drain[d]
  PROVE  PlacesInSched' /\ TimersAreCurrent'
<1>1. CASE Preempts(c, u)
  <2>1. curr[c] \in Thread /\ pc[curr[c]].op = "run" /\ ~irq[c]
    BY <1>1, OwnCode DEF Preempts, Outranks, TimersInv
  <2>2. /\ state' = [state EXCEPT ![u] = "ready", ![curr[c]] = "ready"]
        /\ pc' = [pc EXCEPT ![curr[c]] = k]
        /\ mode' = [mode EXCEPT ![c] = "loop"]
        /\ curr' = [curr EXCEPT ![c] = NoThread]
        /\ sched_lock' = c
    BY <1>1 DEF EnqueueAndMayYield, SwitchOut
  <2>3. \A d \in Cpu : irq'[d] => mode'[d] \in Interruptible
    BY <2>1, <2>2 DEF TimersInv, SInv, TypeOK, PlacesInSched
  <2>4. \A d \in Cpu : drain'[d] # NoQueue => sched_lock' = d /\ mode'[d] \in Interruptible
    BY SMT, <1>1, <2>2, SchedAssumption DEF TimersInv, SInv, TypeOK, PlacesInSched, Unlocked
  <2>5. ASSUME NEW t \in Thread, pc'[t].op # "run"
        PROVE  state'[t] \in {"ready", "sleep", "mutex"}
    <3>1. CASE t \in {u, curr[c]}
      BY <2>1, <2>2, <3>1 DEF TimersInv, SInv, TypeOK
    <3>2. CASE t \notin {u, curr[c]}
      <4>1. pc[t].op # "run" /\ state'[t] = state[t]
        BY <2>5, <2>1, <2>2, <3>2 DEF TimersInv, SInv, TypeOK
      <4>2. \A d \in Cpu : curr[d] = t => ~(sched_lock = d /\ drain[d] = NoQueue)
        BY SMT, <3>2, SchedAssumption DEF TimersInv, PlacesInSched, Unlocked
      <4>3. QED
        BY <4>1, <4>2 DEF TimersInv, PlacesInSched
    <3>3. QED
      BY <3>1, <3>2
  <2>6. PlacesInSched'
    BY <2>3, <2>4, <2>5 DEF PlacesInSched
  <2>7. TimersAreCurrent'
    BY <2>1, <2>2 DEF TimersInv, SInv, TypeOK, TimersAreCurrent
  <2>8. QED
    BY <2>6, <2>7
<1>2. CASE ~Preempts(c, u)
  <2>1. /\ state' = [state EXCEPT ![u] = "ready"]
        /\ sched_lock' = hold
        /\ UNCHANGED <<pc, mode, curr>>
    BY <1>2 DEF EnqueueAndMayYield
  <2>2. PlacesInSched'
    BY SMT, <1>2, <2>1, SchedAssumption
    DEF TimersInv, SInv, TypeOK, CpusAgree, PlacesInSched, Unlocked
  <2>3. QED
    BY <2>1, <2>2, QuietTimers
<1>3. QED
  BY <1>1, <1>2

LEMMA LeavePlaces ==
  ASSUME TimersInv, NEW c \in Cpu, NEW s, NEW k, Unlocked, mode[c] = "run", Leave(c, s, k),
         k.op = "run" \/ s = "sleep",
         UNCHANGED drain, irq' = [irq EXCEPT ![c] = FALSE],
         \A t \in Thread : t # curr[c] => timer'[t] = timer[t],
         timer'[curr[c]] => timer[curr[c]] \/ (k.op = "sleep" /\ k.timed)
  PROVE  PlacesInSched' /\ TimersAreCurrent'
<1>1. curr[c] \in Thread /\ pc[curr[c]].op = "run"
  BY OwnCode, SchedAssumption DEF TimersInv, SInv, TypeOK, CpusAgree
<1>2. /\ state' = [state EXCEPT ![curr[c]] = s]
      /\ pc' = [pc EXCEPT ![curr[c]] = k]
      /\ mode' = [mode EXCEPT ![c] = "loop"]
      /\ curr' = [curr EXCEPT ![c] = NoThread]
      /\ sched_lock' = c
  BY DEF Leave, SwitchOut
<1>3. PlacesInSched'
  BY SMT, <1>1, <1>2, SchedAssumption
  DEF TimersInv, SInv, TypeOK, CpusAgree, PlacesInSched, Unlocked, Interruptible
<1>4. TimersAreCurrent'
  BY <1>1, <1>2 DEF TimersInv, SInv, TypeOK, TimersAreCurrent
<1>5. QED
  BY <1>3, <1>4

\* A CPU without a thread takes or releases the lock.
LEMMA LoopStep ==
  ASSUME TimersInv, NEW c \in Cpu, NEW m, curr[c] = NoThread, drain[c] = NoQueue,
         m \in Interruptible \/ ~irq[c], mode' = [mode EXCEPT ![c] = m],
         Unlocked \/ sched_lock = c, sched_lock' \in {c, NoCpu},
         UNCHANGED <<pc, timer, irq, drain, curr>>,
         \A t \in Thread : state[t] \in {"ready", "sleep", "mutex"} => state'[t] = state[t]
  PROVE  PlacesInSched' /\ TimersAreCurrent'
<1>1. \A d \in Cpu : irq'[d] => mode'[d] \in Interruptible
  BY DEF TimersInv, SInv, TypeOK, PlacesInSched
<1>2. \A d \in Cpu : drain'[d] # NoQueue => sched_lock' = d /\ mode'[d] \in Interruptible
  BY SchedAssumption DEF TimersInv, SInv, TypeOK, PlacesInSched, Unlocked
<1>3. ASSUME NEW t \in Thread, pc'[t].op # "run"
      PROVE  state'[t] \in {"ready", "sleep", "mutex"}
  <2>1. \A d \in Cpu : curr[d] = t => sched_lock # d
    BY SchedAssumption DEF Unlocked
  <2>2. QED
    BY <1>3, <2>1 DEF TimersInv, PlacesInSched
<1>4. QED
  BY <1>1, <1>2, <1>3, QuietTimers DEF PlacesInSched

LEMMA LoopPlaces ==
  ASSUME TimersInv, NEW c \in Cpu,
         SchedStart(c) \/ Reap(c) \/ Reaped(c) \/ Idle(c) \/ IdleWake(c)
  PROVE  PlacesInSched' /\ TimersAreCurrent'
<1>1. curr[c] = NoThread
  BY DEF TimersInv, SInv, CpusAgree, SchedStart, Reap, Reaped, Idle, IdleWake
<1>2. drain[c] = NoQueue
  BY SchedAssumption DEF TimersInv, PlacesInSched, Interruptible,
     SchedStart, Reap, Reaped, Idle, IdleWake, Unlocked
<1>3. ~irq[c] \/ Reap(c) \/ Idle(c)
  BY DEF TimersInv, PlacesInSched, Interruptible, SchedStart, Reaped, IdleWake
<1>4. /\ Unlocked \/ sched_lock = c
      /\ sched_lock' \in {c, NoCpu}
      /\ UNCHANGED <<pc, timer, irq, drain, curr>>
  BY DEF SchedStart, Reap, Reaped, Idle, IdleWake, threadVars
<1>5. \A t \in Thread : state[t] \in {"ready", "sleep", "mutex"} => state'[t] = state[t]
  <2>1. CASE Reap(c)
    <3>1. state[Head(threads_to_destroy)] = "destroyed" /\ Head(threads_to_destroy) \in Thread
      <4>1. threads_to_destroy \in Seq(Thread) /\ threads_to_destroy # <<>>
        BY <2>1 DEF Reap, TimersInv, SInv, TypeOK
      <4>2. Head(threads_to_destroy) \in Range(threads_to_destroy)
        BY <4>1, HeadTailFacts
      <4>3. QED
        BY <4>2 DEF TimersInv, SInv, LinksAgree, DestroyLinks
    <3>2. state' = [state EXCEPT ![Head(threads_to_destroy)] = "none"]
      BY <2>1 DEF Reap
    <3>3. QED
      BY <3>1, <3>2 DEF TimersInv, SInv, TypeOK
  <2>2. QED
    BY <2>1 DEF SchedStart, Reaped, Idle, IdleWake, threadVars
<1>6. \E m \in Mode : (m \in Interruptible \/ ~irq[c]) /\ mode' = [mode EXCEPT ![c] = m]
  BY <1>3 DEF SchedStart, Reap, Reaped, Idle, IdleWake, Mode, Interruptible
<1>7. QED
  BY <1>1, <1>2, <1>4, <1>5, <1>6, LoopStep

LEMMA DispatchPlaces ==
  ASSUME TimersInv, NEW c \in Cpu, Dispatch(c)
  PROVE  PlacesInSched' /\ TimersAreCurrent'
<1>1. PICK t \in Thread : /\ state' = [state EXCEPT ![t] = "running"]
                          /\ curr' = [curr EXCEPT ![c] = t]
  <2>1. PICK p \in Priority :
          /\ Ready(p) /\ state' = [state EXCEPT ![Head(sched_queue[p])] = "running"]
          /\ curr' = [curr EXCEPT ![c] = Head(sched_queue[p])]
    BY DEF Dispatch
  <2>2. Head(sched_queue[p]) \in Thread
    BY SMT, <2>1 DEF Ready, TimersInv, SInv, TypeOK
  <2>3. QED
    BY <2>1, <2>2
<1>2. /\ sched_lock = c /\ mode[c] = "loop"
      /\ mode' = [mode EXCEPT ![c] = "run"]
      /\ UNCHANGED <<pc, timer, irq, drain, sched_lock>>
  BY DEF Dispatch
<1>3. drain[c] = NoQueue /\ curr[c] = NoThread
  BY <1>2 DEF TimersInv, SInv, CpusAgree, PlacesInSched, Interruptible
<1>4. /\ \A d \in Cpu : irq'[d] => mode'[d] \in Interruptible
      /\ \A d \in Cpu : drain'[d] # NoQueue => sched_lock' = d /\ mode'[d] \in Interruptible
  BY <1>2 DEF TimersInv, SInv, TypeOK, PlacesInSched, Interruptible
<1>5. ASSUME NEW u \in Thread, pc'[u].op # "run"
      PROVE  \/ state'[u] \in {"ready", "sleep", "mutex"}
             \/ curr'[c] = u /\ sched_lock' = c /\ drain'[c] = NoQueue
  <2>1. CASE u = t
    BY <1>1, <1>2, <1>3, <2>1 DEF TimersInv, SInv, TypeOK
  <2>2. CASE u # t
    <3>1. \A d \in Cpu : curr[d] = u => sched_lock # d
      BY <1>2, <1>3, SchedAssumption
    <3>2. state'[u] = state[u]
      BY <1>1, <2>2 DEF TimersInv, SInv, TypeOK
    <3>3. QED
      BY <1>2, <1>5, <3>1, <3>2 DEF TimersInv, PlacesInSched
  <2>3. QED
    BY <2>1, <2>2
<1>6. QED
  BY <1>2, <1>4, <1>5, QuietTimers DEF PlacesInSched

\* The other steps that leave the continuations and the timers alone.
LEMMA StillPlaces ==
  ASSUME TimersInv, NEW c \in Cpu,
         \/ ContinueRun(c) \/ WakeupAllDone(c) \/ IrqBegin(c) \/ IrqTick(c)
         \/ \E q \in Queue : WakeupAll(c, q)
  PROVE  PlacesInSched' /\ TimersAreCurrent'
<1>. USE SchedAssumption DEF TimersInv, SInv, TypeOK, CpusAgree, PlacesInSched,
       Interruptible, threadVars, queueVars, cpuVars
<1>1. CASE ContinueRun(c)
  BY SMT, <1>1 DEF ContinueRun, Holding, TimersAreCurrent
<1>2. CASE WakeupAllDone(c)
  BY SMT, <1>2 DEF WakeupAllDone, TimersAreCurrent
<1>3. CASE IrqBegin(c)
  BY SMT, <1>3 DEF IrqBegin, TimersAreCurrent
<1>4. CASE IrqTick(c)
  BY SMT, <1>4 DEF IrqTick, TimersAreCurrent
<1>5. ASSUME NEW q \in Queue, WakeupAll(c, q) PROVE PlacesInSched' /\ TimersAreCurrent'
  BY SMT, <1>5 DEF WakeupAll, Active, InThread, InIrq, Unlocked, TimersAreCurrent
<1>6. QED
  BY <1>1, <1>2, <1>3, <1>4, <1>5

LEMMA ContinuePlaces ==
  ASSUME TimersInv, NEW c \in Cpu, ContinueSleep(c) \/ ContinueWakeupAll(c)
  PROVE  PlacesInSched' /\ TimersAreCurrent'
<1>1. /\ sched_lock = c /\ mode[c] = "run" /\ drain[c] = NoQueue
      /\ pc' = [pc EXCEPT ![curr[c]] = Run]
      /\ UNCHANGED <<state, mode, curr, irq>>
  BY DEF ContinueSleep, ContinueWakeupAll, Holding, queueVars
<1>2. curr[c] \in Thread /\ state[curr[c]] = "running"
  BY SMT, <1>1 DEF TimersInv, SInv, TypeOK, CpusAgree
<1>3. \A t \in Thread : pc'[t].op # "run" => t # curr[c] /\ pc'[t] = pc[t]
  BY <1>1, <1>2 DEF TimersInv, SInv, TypeOK, Run, At
<1>4. \A t \in Thread : pc'[t].op # "run" => state'[t] \in {"ready", "sleep", "mutex"}
  BY SMT, <1>1, <1>3 DEF TimersInv, PlacesInSched
<1>5. \A d \in Cpu : drain'[d] # NoQueue => sched_lock' = d /\ mode'[d] \in Interruptible
  <2>1. CASE ContinueSleep(c)
    BY <1>1, <2>1 DEF ContinueSleep, TimersInv, PlacesInSched
  <2>2. CASE ContinueWakeupAll(c)
    BY <1>1, <2>2 DEF ContinueWakeupAll, TimersInv, SInv, TypeOK, PlacesInSched, Interruptible
  <2>3. QED
    BY <2>1, <2>2
<1>6. TimersAreCurrent'
  <2>1. CASE ContinueSleep(c)
    <3>1. timer' = [timer EXCEPT ![curr[c]] = FALSE]
      BY <2>1 DEF ContinueSleep, FinishSleep
    <3>2. QED
      BY <1>1, <1>2, <3>1 DEF TimersInv, SInv, TypeOK, TimersAreCurrent
  <2>2. CASE ContinueWakeupAll(c)
    <3>1. UNCHANGED timer /\ pc[curr[c]].op = "wakeall"
      BY <2>2 DEF ContinueWakeupAll, Holding
    <3>2. QED
      BY <1>1, <1>2, <3>1 DEF TimersInv, SInv, TypeOK, TimersAreCurrent
  <2>3. QED
    BY <2>1, <2>2
<1>7. QED
  BY <1>1, <1>4, <1>5, <1>6 DEF TimersInv, PlacesInSched

LEMMA CreatePlaces ==
  ASSUME TimersInv, NEW c \in Cpu, NEW u \in Thread, ThreadCreate(c, u)
  PROVE  PlacesInSched' /\ TimersAreCurrent'
<1>1. /\ state' = [state EXCEPT ![u] = "suspended"]
      /\ pc' = [pc EXCEPT ![u] = Run]
      /\ timer' = [timer EXCEPT ![u] = FALSE]
      /\ UNCHANGED cpuVars
  BY DEF ThreadCreate
<1>2. Run.op = "run"
  BY DEF Run, At
<1>3. \A t \in Thread : pc'[t].op # "run" =>
        t # u /\ state'[t] = state[t] /\ pc'[t] = pc[t]
  BY <1>1, <1>2 DEF TimersInv, SInv, TypeOK
<1>4. PlacesInSched'
  BY SMT, <1>1, <1>3 DEF cpuVars, TimersInv, PlacesInSched
<1>5. TimersAreCurrent'
  BY <1>1 DEF TimersInv, SInv, TypeOK, TimersAreCurrent
<1>6. QED
  BY <1>4, <1>5

LEMMA WakeupPlaces ==
  ASSUME TimersInv, NEW c \in Cpu, NEW u \in Thread,
         BootResume(u) \/ ThreadResume(c, u) \/ ThreadInterrupt(c, u) \/ IrqTimeout(c, u)
  PROVE  PlacesInSched' /\ TimersAreCurrent'
<1>1. PICK d \in Cpu : \/ EnqueueAndMayYield(d, u, Run, NoCpu)
                       \/ UNCHANGED <<state, pc, mode, curr, sched_lock>>
  BY SchedAssumption
     DEF BootResume, ThreadResume, ThreadInterrupt, IrqTimeout, ResumeSleeper
<1>2. Unlocked /\ UNCHANGED <<irq, drain>>
  BY DEF BootResume, ThreadResume, ThreadInterrupt, IrqTimeout, Active, InThread, InIrq
<1>3. \A t \in Thread : timer'[t] => timer[t]
  BY DEF BootResume, ThreadResume, ThreadInterrupt, IrqTimeout, TimersInv, SInv, TypeOK
<1>4. CASE EnqueueAndMayYield(d, u, Run, NoCpu)
  <2>1. state[u] = "suspended" \/ Asleep(u) \/ UNCHANGED <<state, pc, mode, curr, sched_lock>>
    BY DEF BootResume, ThreadResume, ThreadInterrupt, IrqTimeout
  <2>2. CASE state[u] = "suspended" \/ Asleep(u)
    <3>1. \A e \in Cpu : drain[e] = NoQueue
      BY <1>2, SchedAssumption DEF Unlocked, TimersInv, PlacesInSched
    <3>2. state[u] \in {"sleep", "mutex"} \/ pc[u].op = "run"
      BY <2>2, <1>2, SchedAssumption DEF Asleep, Unlocked, TimersInv, PlacesInSched
    <3>3. QED
      BY <1>2, <1>3, <1>4, <2>2, <3>1, <3>2, ResumePlaces DEF Asleep
  <2>3. CASE UNCHANGED <<state, pc, mode, curr, sched_lock>>
    BY <1>2, <1>3, <2>3, QuietTimers DEF TimersInv, PlacesInSched
  <2>4. QED
    BY <2>1, <2>2, <2>3
<1>5. CASE UNCHANGED <<state, pc, mode, curr, sched_lock>>
  BY <1>2, <1>3, <1>5, QuietTimers DEF TimersInv, PlacesInSched
<1>6. QED
  BY <1>1, <1>4, <1>5

LEMMA WakeupQueuePlaces ==
  ASSUME TimersInv, NEW c \in Cpu, (\E q \in Queue : WakeupOne(c, q)) \/ WakeupAllNext(c)
  PROVE  PlacesInSched' /\ TimersAreCurrent'
<1>1. ASSUME NEW q \in Queue, WakeupOne(c, q) PROVE PlacesInSched' /\ TimersAreCurrent'
  <2> DEFINE u == Head(waitq[q])
  <2>1. /\ Unlocked /\ waitq[q] # <<>> /\ EnqueueAndMayYield(c, u, Run, NoCpu)
        /\ UNCHANGED <<timer, irq, drain>>
    BY <1>1 DEF WakeupOne, ResumeSleeper, Active, InThread, InIrq
  <2>2. u \in Thread /\ Asleep(u)
    BY <2>1, HeadAsleep DEF TimersInv
  <2>. HIDE DEF u
  <2>3. \A e \in Cpu : drain[e] = NoQueue
    BY <2>1, SchedAssumption DEF Unlocked, TimersInv, PlacesInSched
  <2>4. QED
    BY <2>1, <2>2, <2>3, ResumePlaces DEF Asleep
<1>2. CASE WakeupAllNext(c)
  <2> DEFINE q == drain[c]
             u == Head(waitq[q])
             k == At("wakeall", drain[c], FALSE)
  <2>1. /\ q # NoQueue /\ waitq[q] # <<>> /\ EnqueueAndMayYield(c, u, k, c)
        /\ drain' = IF Preempts(c, u) THEN [drain EXCEPT ![c] = NoQueue] ELSE drain
        /\ UNCHANGED <<timer, irq>>
    BY <1>2 DEF WakeupAllNext, ResumeSleeper
  <2>2. q \in Queue /\ ~Unlocked
    BY <2>1, SchedAssumption DEF TimersInv, SInv, TypeOK, PlacesInSched, Unlocked
  <2>3. u \in Thread /\ Asleep(u)
    BY <2>1, <2>2, HeadAsleep DEF TimersInv
  <2>4. \A d \in Cpu : drain'[d] = IF d = c /\ Preempts(c, u) THEN NoQueue ELSE drain[d]
    BY <2>1 DEF TimersInv, SInv, TypeOK
  <2>. HIDE DEF u, k
  <2>5. QED
    BY <2>1, <2>2, <2>3, <2>4, ResumePlaces DEF Asleep
<1>3. QED
  BY <1>1, <1>2

LEMMA LeavingPlaces ==
  ASSUME TimersInv, NEW c \in Cpu,
         \/ ThreadYield(c) \/ ThreadSuspend(c) \/ ThreadExit(c) \/ IrqEnd(c)
         \/ \E q \in Queue, timed \in BOOLEAN : Sleep(c, q, timed)
  PROVE  PlacesInSched' /\ TimersAreCurrent'
<1>1. Run.op = "run"
  BY DEF Run, At
<1>2. CASE ThreadYield(c) \/ ThreadSuspend(c) \/ ThreadExit(c)
  <2>1. PICK s \in State : Leave(c, s, Run)
    BY <1>2 DEF ThreadYield, ThreadSuspend, ThreadExit, State
  <2>2. Unlocked /\ mode[c] = "run" /\ ~irq[c] /\ UNCHANGED <<timer, irq, drain>>
    BY <1>2 DEF ThreadYield, ThreadSuspend, ThreadExit, InThread
  <2>3. irq' = [irq EXCEPT ![c] = FALSE]
    BY <2>2 DEF TimersInv, SInv, TypeOK
  <2>4. QED
    BY <1>1, <2>1, <2>2, <2>3, LeavePlaces
<1>3. CASE IrqEnd(c)
  <2>1. Unlocked /\ irq' = [irq EXCEPT ![c] = FALSE] /\ UNCHANGED <<timer, drain>>
    BY <1>3 DEF IrqEnd, InIrq
  <2>2. CASE curr[c] # NoThread /\ resched[curr[c]]
    <3>1. Leave(c, "ready", Run) /\ mode[c] = "run"
      BY <1>3, <2>2 DEF IrqEnd, TimersInv, SInv, CpusAgree
    <3>2. QED
      BY <1>1, <2>1, <3>1, LeavePlaces
  <2>3. CASE ~(curr[c] # NoThread /\ resched[curr[c]])
    <3>1. UNCHANGED <<state, pc, mode, curr, sched_lock>>
      BY <1>3, <2>3 DEF IrqEnd
    <3>2. PlacesInSched'
      BY <2>1, <3>1 DEF TimersInv, SInv, TypeOK, PlacesInSched
    <3>3. QED
      BY <2>1, <3>1, <3>2, QuietTimers
  <2>4. QED
    BY <2>2, <2>3
<1>4. ASSUME NEW q \in Queue, NEW timed \in BOOLEAN, Sleep(c, q, timed)
      PROVE  PlacesInSched' /\ TimersAreCurrent'
  <2>1. /\ Unlocked /\ mode[c] = "run" /\ ~irq[c]
        /\ Leave(c, "sleep", At("sleep", q, timed))
        /\ timer' = [timer EXCEPT ![curr[c]] = timed]
        /\ UNCHANGED <<irq, drain>>
    BY <1>4 DEF Sleep, InThread
  <2>2. irq' = [irq EXCEPT ![c] = FALSE]
    BY <2>1 DEF TimersInv, SInv, TypeOK
  <2> DEFINE k == At("sleep", q, timed)
  <2>3. k.op = "sleep" /\ k.timed = timed
    BY DEF At
  <2>4. curr[c] \in Thread
    BY SMT, <2>1 DEF TimersInv, SInv, TypeOK, CpusAgree
  <2>5. /\ \A t \in Thread : t # curr[c] => timer'[t] = timer[t]
        /\ timer'[curr[c]] => timed
    BY <2>1, <2>4 DEF TimersInv, SInv, TypeOK
  <2>. HIDE DEF k
  <2>6. Leave(c, "sleep", k)
    BY <2>1 DEF k
  <2>7. QED
    BY <2>1, <2>2, <2>3, <2>5, <2>6, LeavePlaces
<1>5. QED
  BY <1>2, <1>3, <1>4

LEMMA TimersStep ==
  ASSUME TimersInv, SchedNext \/ (\E c \in Cpu : ThreadExit(c)) \/ UNCHANGED schedVars
  PROVE  TimersInv'
<1>1. SInv'
  BY SchedStep DEF TimersInv
<1>2. WaitQueue \subseteq Queue
  BY DEF Queue
<1>3. ASSUME NEW t \in Thread, BootResume(t) PROVE PlacesInSched' /\ TimersAreCurrent'
  BY <1>3, WakeupPlaces, SchedAssumption
<1>4. ASSUME NEW c \in Cpu, SchedLoop(c) PROVE PlacesInSched' /\ TimersAreCurrent'
  BY <1>4, LoopPlaces, DispatchPlaces, StillPlaces, ContinuePlaces, WakeupQueuePlaces
     DEF SchedLoop
<1>5. ASSUME NEW c \in Cpu, ThreadOp(c) PROVE PlacesInSched' /\ TimersAreCurrent'
  BY <1>2, <1>5, LeavingPlaces, CreatePlaces, WakeupPlaces, WakeupQueuePlaces, StillPlaces
     DEF ThreadOp
<1>6. ASSUME NEW c \in Cpu, Interrupt(c) PROVE PlacesInSched' /\ TimersAreCurrent'
  BY <1>6, StillPlaces, LeavingPlaces, WakeupPlaces DEF Interrupt
<1>7. ASSUME NEW c \in Cpu, ThreadExit(c) PROVE PlacesInSched' /\ TimersAreCurrent'
  BY <1>7, LeavingPlaces
<1>8. CASE UNCHANGED schedVars
  <2>1. UNCHANGED <<state, pc, timer, mode, curr, irq, drain, sched_lock>>
    BY <1>8 DEF schedVars, threadVars, cpuVars
  <2>2. PlacesInSched'
    BY <2>1 DEF TimersInv, PlacesInSched
  <2>3. TimersAreCurrent'
    BY <2>1 DEF TimersInv, TimersAreCurrent
  <2>4. QED
    BY <1>1, <2>2, <2>3 DEF TimersInv
<1>9. QED
  BY <1>1, <1>3, <1>4, <1>5, <1>6, <1>7, <1>8 DEF SchedNext, TimersInv

LEMMA InitTimers == Init => TimersInv
<1>1. Init => PlacesInSched /\ TimersAreCurrent
  BY SMT DEF Init, PlacesInSched, TimersAreCurrent, Run, At
<1>2. QED
  BY <1>1, InitSInv DEF TimersInv

\* A timer that runs belongs to the sleep the thread is in: no sleep, however it
\* ends, leaves a timer behind that could end a later one.
THEOREM SchedTimersAreCurrent == Spec => []TimersAreCurrent
<1>1. TimersInv /\ [Next]_schedVars => TimersInv'
  BY TimersStep DEF Next
<1>2. TimersInv => TimersAreCurrent
  BY DEF TimersInv
<1>3. QED
  BY <1>1, <1>2, InitTimers, PTL DEF Spec

-----------------------------------------------------------------------------
(* Semaphores and mailboxes.                                                *)

\* What at[t] can be.
PlaceType ==
  [op : {"none", "wait", "retry", "giveup", "wakeup"},
   obj : Semaphore \cup {Box, NoQueue}, queue : WaitQueue \cup {NoQueue},
   timed : BOOLEAN, arg : Message \cup {NoMessage, NoQueue}]

\* A thread that waits for room still has the message it is to send.
Keeps(k) == k.queue = senders => k.arg \in Message

PlacesAgree ==
  /\ at \in [Thread -> PlaceType]
  /\ \A t \in Thread : Keeps(at[t])

\* size is the distance from read_ptr to write_ptr.
Wrapped(i) == IF i < capacity THEN i ELSE i - capacity

RingAgrees ==
  /\ ring \in [0 .. capacity - 1 -> Message \cup {NoMessage}]
  /\ size \in 0 .. capacity
  /\ read_ptr \in 0 .. capacity - 1
  /\ write_ptr \in 0 .. capacity - 1
  /\ write_ptr = Wrapped(read_ptr + size)

SyncInv == SInv /\ PlacesAgree /\ RingAgrees

-----------------------------------------------------------------------------
(* The ring.                                                                *)

\* An index that has left the ring by less than its length comes back.
LEMMA ModWrapped ==
  ASSUME NEW i \in 0 .. 2 * capacity - 1
  PROVE  i % capacity = Wrapped(i)
<1>1. capacity \in Nat \ {0}
  BY MailboxAssumption
<1>2. QED
  BY SMT, <1>1 DEF Wrapped

LEMMA AdvanceFacts ==
  ASSUME NEW p \in 0 .. capacity - 1
  PROVE  Advance(p) = Wrapped(p + 1) /\ Advance(p) \in 0 .. capacity - 1
BY SMT, MailboxAssumption DEF Advance, Wrapped

\* The messages of a ring r from place p on, without a division.
LEMMA ContentsFacts ==
  ASSUME NEW r \in [0 .. capacity - 1 -> Message \cup {NoMessage}],
         NEW n \in 0 .. capacity, NEW p \in 0 .. capacity - 1
  PROVE  LET s == [i \in 1 .. n |-> r[(p + i - 1) % capacity]] IN
         /\ s \in Seq(Message \cup {NoMessage}) /\ Len(s) = n
         /\ \A i \in 1 .. n : s[i] = r[Wrapped(p + i - 1)]
<1>1. capacity \in Nat \ {0} /\ n \in Nat
  BY SMT, MailboxAssumption
<1>2. \A i \in 1 .. n : /\ p + i - 1 \in 0 .. 2 * capacity - 1
                        /\ Wrapped(p + i - 1) \in 0 .. capacity - 1
  BY SMT, <1>1 DEF Wrapped
<1>3. \A i \in 1 .. n : (p + i - 1) % capacity = Wrapped(p + i - 1)
  BY <1>2, ModWrapped
<1> DEFINE e(i) == r[(p + i - 1) % capacity]
<1>4. \A i \in 1 .. n : e(i) = r[Wrapped(p + i - 1)]
  BY <1>3
<1>5. \A i \in 1 .. n : e(i) \in Message \cup {NoMessage}
  BY <1>2, <1>4
<1>. HIDE DEF e
<1>6. [i \in 1 .. n |-> e(i)] \in Seq(Message \cup {NoMessage})
  BY SMT, <1>1, <1>5
<1>7. Len([i \in 1 .. n |-> e(i)]) = n
  BY SMT, <1>1
<1>8. QED
  BY <1>4, <1>6, <1>7 DEF e

\* k_mailbox_try_receive_locked() takes the oldest message out.
LEMMA ReceiveIsGet ==
  ASSUME RingAgrees, NEW c \in Cpu, ReceiveLocked(c)
  PROVE  RingAgrees' /\ F!Get
<1>1. /\ capacity \in Nat \ {0} /\ size > 0 /\ ring' = ring
      /\ read_ptr' = Wrapped(read_ptr + 1)
      /\ size' = size - 1 /\ write_ptr' = write_ptr
  BY MailboxAssumption, AdvanceFacts DEF ReceiveLocked, RingAgrees
<1>2. RingAgrees'
  BY SMT, <1>1 DEF RingAgrees, Wrapped
<1>3. /\ Contents \in Seq(Message \cup {NoMessage}) /\ Len(Contents) = size
      /\ \A i \in 1 .. size : Contents[i] = ring[Wrapped(read_ptr + i - 1)]
  BY ContentsFacts DEF RingAgrees, Contents
<1>4. /\ Contents' \in Seq(Message \cup {NoMessage}) /\ Len(Contents') = size - 1
      /\ \A i \in 1 .. size - 1 : Contents'[i] = ring'[Wrapped(read_ptr' + i - 1)]
  <2>1. /\ ring' \in [0 .. capacity - 1 -> Message \cup {NoMessage}]
        /\ size' \in 0 .. capacity /\ read_ptr' \in 0 .. capacity - 1
    BY <1>2 DEF RingAgrees
  <2>2. /\ Contents' \in Seq(Message \cup {NoMessage}) /\ Len(Contents') = size'
        /\ \A i \in 1 .. size' : Contents'[i] = ring'[Wrapped(read_ptr' + i - 1)]
    BY <2>1, ContentsFacts DEF Contents
  <2>3. QED
    BY <1>1, <2>2
<1>5. ASSUME NEW i \in 1 .. size - 1
      PROVE  Contents'[i] = Contents[i + 1]
  <2>1. Wrapped(read_ptr' + i - 1) = Wrapped(read_ptr + i)
    BY SMT, <1>1 DEF RingAgrees, Wrapped
  <2>2. i + 1 \in 1 .. size /\ read_ptr + (i + 1) - 1 = read_ptr + i
    BY SMT, <1>1 DEF RingAgrees
  <2>3. QED
    BY SMTT(30), <1>1, <1>3, <1>4, <2>1, <2>2
<1>6. Contents # <<>>
  BY SMT, <1>1, <1>3
<1>7. Contents' = Tail(Contents)
  BY SMT, <1>1, <1>3, <1>4, <1>5, <1>6
<1>8. QED
  BY <1>2, <1>6, <1>7 DEF F!Get

\* k_mailbox_try_send_locked() adds a message at the end.
LEMMA SendIsPut ==
  ASSUME RingAgrees, NEW c \in Cpu, NEW m \in Message, SendLocked(c, m)
  PROVE  RingAgrees' /\ F!Put
<1>1. /\ capacity \in Nat \ {0} /\ size < capacity
      /\ ring' = [ring EXCEPT ![write_ptr] = m]
      /\ write_ptr' = Wrapped(write_ptr + 1) /\ write_ptr' \in 0 .. capacity - 1
      /\ size' = size + 1 /\ read_ptr' = read_ptr
  BY MailboxAssumption, AdvanceFacts DEF SendLocked, RingAgrees
<1>2. RingAgrees'
  <2>1. ring' \in [0 .. capacity - 1 -> Message \cup {NoMessage}]
    BY <1>1 DEF RingAgrees
  <2>2. size' \in 0 .. capacity /\ write_ptr' = Wrapped(read_ptr' + size')
    BY SMT, <1>1 DEF RingAgrees, Wrapped
  <2>3. QED
    BY <1>1, <2>1, <2>2 DEF RingAgrees
<1>3. /\ Contents \in Seq(Message \cup {NoMessage}) /\ Len(Contents) = size
      /\ \A i \in 1 .. size : Contents[i] = ring[Wrapped(read_ptr + i - 1)]
  BY ContentsFacts DEF RingAgrees, Contents
<1>4. /\ Contents' \in Seq(Message \cup {NoMessage}) /\ Len(Contents') = size + 1
      /\ \A i \in 1 .. size + 1 : Contents'[i] = ring'[Wrapped(read_ptr + i - 1)]
  <2>1. /\ ring' \in [0 .. capacity - 1 -> Message \cup {NoMessage}]
        /\ size' \in 0 .. capacity /\ read_ptr' \in 0 .. capacity - 1
    BY <1>2 DEF RingAgrees
  <2>2. /\ Contents' \in Seq(Message \cup {NoMessage}) /\ Len(Contents') = size'
        /\ \A i \in 1 .. size' : Contents'[i] = ring'[Wrapped(read_ptr' + i - 1)]
    BY <2>1, ContentsFacts DEF Contents
  <2>3. QED
    BY <1>1, <2>2
<1>5. ASSUME NEW i \in 1 .. size
      PROVE  Contents'[i] = Contents[i]
  <2>1. /\ Wrapped(read_ptr + i - 1) # write_ptr
        /\ Wrapped(read_ptr + i - 1) \in 0 .. capacity - 1
        /\ i \in 1 .. size + 1
    BY SMT, <1>1 DEF RingAgrees, Wrapped
  <2>2. ring'[Wrapped(read_ptr + i - 1)] = ring[Wrapped(read_ptr + i - 1)]
    BY <1>1, <2>1 DEF RingAgrees
  <2>3. QED
    BY <1>3, <1>4, <2>1, <2>2
<1>6. Contents'[size + 1] = m
  <2>1. size + 1 \in 1 .. size + 1 /\ Wrapped(read_ptr + (size + 1) - 1) = write_ptr
    BY SMT, <1>1 DEF RingAgrees, Wrapped
  <2>2. ring'[write_ptr] = m
    BY <1>1 DEF RingAgrees
  <2>3. QED
    BY <1>4, <2>1, <2>2
<1>7. Contents' = Append(Contents, m)
  BY SMT, <1>1, <1>3, <1>4, <1>5, <1>6
<1>8. QED
  BY <1>1, <1>2, <1>3, <1>7 DEF F!Put

-----------------------------------------------------------------------------
(* The places of the threads.                                               *)

\* at changes, if at all, for the thread of one CPU.
Moves ==
  \/ at' = at
  \/ \E c \in Cpu : \E k \in PlaceType : Keeps(k) /\ at' = [at EXCEPT ![curr[c]] = k]

LEMMA MovesKeepPlaces ==
  ASSUME PlacesAgree, Moves
  PROVE  PlacesAgree'
BY DEF PlacesAgree, Moves, Keeps

\* What the provers need of the constants.
LEMMA Queues ==
  /\ senders \in WaitQueue /\ receivers \in WaitQueue /\ receivers # senders
  /\ Semaphore \subseteq WaitQueue /\ senders \notin Semaphore
  /\ NoQueue # senders
BY MailboxAssumption, SemaphoreAssumption, SyncAssumption, SchedAssumption DEF Queue

LEMMA Current ==
  ASSUME SInv, NEW c \in Cpu, mode[c] = "run"
  PROVE  curr[c] \in Thread
BY SMT DEF SInv, TypeOK, CpusAgree

LEMMA ReturnsMoves ==
  ASSUME NEW c \in Cpu, Returns(c)
  PROVE  Moves
<1>1. Outside \in PlaceType /\ Keeps(Outside)
  BY Queues DEF Outside, InObject, PlaceType, Keeps
<1>2. QED
  BY <1>1 DEF Returns, Place, Moves

LEMMA SleepOnMoves ==
  ASSUME NEW c \in Cpu, NEW o \in Semaphore \cup {Box}, NEW q \in WaitQueue,
         NEW timed \in BOOLEAN, NEW arg \in Message \cup {NoMessage, NoQueue},
         q = senders => arg \in Message, SleepOn(c, o, q, timed, arg)
  PROVE  SchedNext /\ Moves
<1> DEFINE k == InObject("wait", o, q, timed, arg)
<1>1. k \in PlaceType /\ Keeps(k)
  BY DEF InObject, PlaceType, Keeps
<1>2. Sleep(c, q, timed) /\ at' = [at EXCEPT ![curr[c]] = k]
  BY DEF SleepOn, Place
<1>3. QED
  BY <1>1, <1>2 DEF Moves, SchedNext, ThreadOp

LEMMA WakeupMoves ==
  ASSUME NEW c \in Cpu, NEW o \in Semaphore \cup {Box}, NEW q \in WaitQueue,
         WithoutWakeup(c) \/ WakeupHolding(c, o, q)
  PROVE  (SchedNext \/ UNCHANGED schedVars) /\ Moves
<1> DEFINE k == InObject("wakeup", o, NoQueue, FALSE, NoQueue)
<1>1. k \in PlaceType /\ Keeps(k)
  BY Queues DEF InObject, PlaceType, Keeps
<1>2. CASE WithoutWakeup(c)
  BY <1>2, ReturnsMoves DEF WithoutWakeup
<1>3. CASE ~WithoutWakeup(c)
  <2>1. /\ WakeupOne(c, q)
        /\ Returns(c) \/ at' = [at EXCEPT ![curr[c]] = k]
    BY <1>3 DEF WakeupHolding, Place
  <2>2. SchedNext
    BY <2>1 DEF SchedNext, ThreadOp
  <2>3. Moves
    BY <1>1, <2>1, ReturnsMoves DEF Moves
  <2>4. QED
    BY <2>2, <2>3
<1>4. QED
  BY <1>2, <1>3

LEMMA FailureMoves ==
  ASSUME NEW c, NEW o, AcquireFails(c, o)
  PROVE  UNCHANGED schedVars /\ Moves
BY DEF AcquireFails, Stop, Moves

-----------------------------------------------------------------------------
(* The steps.                                                               *)

\* What every step is to the scheduler, to the places and to the ring.
RingSteps ==
  \/ UNCHANGED ringVars
  \/ RingAgrees' /\ (F!Put \/ F!Get)

StepsAgree == (SchedNext \/ UNCHANGED schedVars) /\ Moves /\ RingSteps

LEMMA SpinSchedSteps ==
  ASSUME SyncInv, SpinSchedNext, UNCHANGED ringVars
  PROVE  StepsAgree
<1>1. Outside \in PlaceType /\ Keeps(Outside)
  BY Queues DEF Outside, InObject, PlaceType, Keeps
<1>2. CASE UNCHANGED spinVars
  <2>1. Moves
    BY <1>2 DEF spinVars, Moves
  <2>2. SchedNext \/ \E c \in Cpu : SleepReturns(c) \/ GiveUp(c) \/ Release(c)
    BY DEF SpinSchedNext, SchedNext, SchedLoop, ThreadOp, Interrupt
  <2>3. SchedNext \/ UNCHANGED schedVars
    BY <2>2 DEF SchedNext, SchedLoop, SleepReturns, GiveUp, Release, AcquireFails, Stop
  <2>4. QED
    BY <2>1, <2>3 DEF StepsAgree, RingSteps
<1>3. ASSUME NEW c \in Cpu, SleepReturns(c) PROVE StepsAgree
  <2>1. ContinueSleep(c) /\ mode[c] = "run"
    BY <1>3 DEF SleepReturns, ContinueSleep, Holding
  <2>2. at[curr[c]] \in PlaceType /\ Keeps(at[curr[c]])
    BY <2>1, Current DEF SyncInv, PlacesAgree
  <2>3. Moves
    <3>1. CASE UNCHANGED at
      BY <3>1 DEF Moves
    <3>2. CASE ~UNCHANGED at
      <4>1. PICK op \in {"retry", "giveup"} :
              at' = [at EXCEPT ![curr[c]] = [at[curr[c]] EXCEPT !.op = op]]
        BY <1>3, <3>2 DEF SleepReturns, Place
      <4>2. /\ [at[curr[c]] EXCEPT !.op = op] \in PlaceType
            /\ Keeps([at[curr[c]] EXCEPT !.op = op])
        BY <2>2 DEF PlaceType, Keeps
      <4>3. QED
        BY <4>1, <4>2 DEF Moves
    <3>3. QED
      BY <3>1, <3>2
  <2>4. SchedNext
    BY <2>1 DEF SchedNext, SchedLoop
  <2>5. QED
    BY <2>3, <2>4 DEF StepsAgree, RingSteps
<1>4. ASSUME NEW c \in Cpu, GiveUp(c) \/ Release(c) PROVE StepsAgree
  <2>1. /\ UNCHANGED schedVars
        /\ UNCHANGED at \/ at' = [at EXCEPT ![curr[c]] = Outside]
    BY <1>4 DEF GiveUp, Release, AcquireFails, Stop, Place
  <2>2. Moves
    BY <1>1, <2>1 DEF Moves
  <2>3. QED
    BY <2>1, <2>2 DEF StepsAgree, RingSteps
<1>5. QED
  BY <1>2, <1>3, <1>4 DEF SpinSchedNext

LEMMA SemSteps ==
  ASSUME SyncInv, NEW c \in Cpu, SemOp(c), UNCHANGED ringVars
  PROVE  StepsAgree
<1>1. ASSUME NEW s \in Semaphore, NEW timed \in BOOLEAN, TimedGetLocked(c, s, timed)
      PROVE  StepsAgree
  <2>1. CASE TryGetLocked(c, s)
    BY <2>1, Queues, WakeupMoves DEF TryGetLocked, StepsAgree, RingSteps
  <2>2. CASE SleepOn(c, s, s, timed, NoQueue)
    BY <2>2, Queues, SleepOnMoves DEF StepsAgree, RingSteps
  <2>3. QED
    BY <1>1, <2>1, <2>2 DEF TimedGetLocked
<1>2. ASSUME NEW o, AcquireFails(c, o) PROVE StepsAgree
  BY <1>2, FailureMoves DEF StepsAgree, RingSteps
<1>3. ASSUME NEW s \in Semaphore, Put(c, s) PROVE StepsAgree
  <2>1. AcquireFails(c, s) \/ WakeupHolding(c, s, s)
    BY <1>3 DEF Put
  <2>2. CASE WakeupHolding(c, s, s)
    BY <2>2, Queues, WakeupMoves DEF StepsAgree, RingSteps
  <2>3. QED
    BY <1>2, <2>1, <2>2
<1>4. ASSUME NEW s \in Semaphore, NEW timed \in BOOLEAN,
             TimedGet(c, s, timed) \/ TryGet(c, s)
      PROVE  StepsAgree
  <2>1. \/ AcquireFails(c, s)
        \/ TimedGetLocked(c, s, timed)
    BY <1>4 DEF TimedGet, TryGet, TimedGetLocked
  <2>2. QED
    BY <1>1, <1>2, <2>1
<1>5. CASE TimedGetRetry(c)
  <2>1. mode[c] = "run" /\ at[curr[c]].obj \in Semaphore
    BY <1>5 DEF TimedGetRetry, InThread
  <2>2. at[curr[c]].timed \in BOOLEAN
    BY <2>1, Current DEF SyncInv, PlacesAgree, PlaceType
  <2>3. \/ AcquireFails(c, at[curr[c]].obj)
        \/ TimedGetLocked(c, at[curr[c]].obj, at[curr[c]].timed)
    BY <1>5 DEF TimedGetRetry
  <2>4. QED
    BY <1>1, <1>2, <2>1, <2>2, <2>3
<1>6. QED
  BY <1>3, <1>4, <1>5 DEF SemOp

LEMMA MailSteps ==
  ASSUME SyncInv, NEW c \in Cpu, MailOp(c)
  PROVE  StepsAgree
<1>1. Box \in Semaphore \cup {Box}
  OBVIOUS
<1>2. ASSUME NEW o, AcquireFails(c, o), UNCHANGED ringVars PROVE StepsAgree
  BY <1>2, FailureMoves DEF StepsAgree, RingSteps
<1>3. ASSUME ReceiveLocked(c) PROVE StepsAgree
  <2>1. RingSteps
    BY <1>3, ReceiveIsGet DEF SyncInv, RingSteps
  <2>2. WithoutWakeup(c) \/ WakeupHolding(c, Box, senders)
    BY <1>3 DEF ReceiveLocked
  <2>3. QED
    BY <1>1, <2>1, <2>2, Queues, WakeupMoves DEF StepsAgree
<1>4. ASSUME NEW m \in Message, SendLocked(c, m) PROVE StepsAgree
  <2>1. RingSteps
    BY <1>4, SendIsPut DEF SyncInv, RingSteps
  <2>2. WithoutWakeup(c) \/ WakeupHolding(c, Box, receivers)
    BY <1>4 DEF SendLocked
  <2>3. QED
    BY <1>1, <2>1, <2>2, Queues, WakeupMoves DEF StepsAgree
<1>5. ASSUME NEW timed \in BOOLEAN, TimedReceiveLocked(c, timed) PROVE StepsAgree
  <2>1. CASE SleepOn(c, Box, receivers, timed, NoMessage) /\ UNCHANGED ringVars
    BY <1>1, <2>1, Queues, SleepOnMoves DEF StepsAgree, RingSteps
  <2>2. QED
    BY <1>3, <1>5, <2>1 DEF TimedReceiveLocked
<1>6. ASSUME NEW m \in Message, NEW timed \in BOOLEAN, TimedSendLocked(c, m, timed)
      PROVE  StepsAgree
  <2>1. CASE SleepOn(c, Box, senders, timed, m) /\ UNCHANGED ringVars
    BY <1>1, <2>1, Queues, SleepOnMoves DEF StepsAgree, RingSteps
  <2>2. QED
    BY <1>4, <1>6, <2>1 DEF TimedSendLocked
<1>7. CASE TryReceive(c)
  BY <1>2, <1>3, <1>7 DEF TryReceive
<1>8. ASSUME NEW m \in Message, TrySend(c, m) PROVE StepsAgree
  BY <1>2, <1>4, <1>8 DEF TrySend
<1>9. ASSUME NEW timed \in BOOLEAN, TimedReceive(c, timed) PROVE StepsAgree
  BY <1>2, <1>5, <1>9 DEF TimedReceive
<1>10. ASSUME NEW timed \in BOOLEAN, NEW m \in Message, TimedSend(c, m, timed)
       PROVE  StepsAgree
  BY <1>2, <1>6, <1>10 DEF TimedSend
<1>11. CASE Retry(c)
  <2>1. mode[c] = "run"
    BY <1>11 DEF Retry, InThread
  <2>2. /\ at[curr[c]].timed \in BOOLEAN
        /\ at[curr[c]].queue = senders => at[curr[c]].arg \in Message
    BY <2>1, Current DEF SyncInv, PlacesAgree, PlaceType, Keeps
  <2>3. \/ AcquireFails(c, Box) /\ UNCHANGED ringVars
        \/ TimedReceiveLocked(c, at[curr[c]].timed)
        \/ /\ at[curr[c]].queue = senders
           /\ TimedSendLocked(c, at[curr[c]].arg, at[curr[c]].timed)
    BY <1>11 DEF Retry
  <2>4. QED
    BY <1>2, <1>5, <1>6, <2>2, <2>3
<1>12. QED
  BY <1>7, <1>8, <1>9, <1>10, <1>11 DEF MailOp

LEMMA SyncAgrees ==
  ASSUME SyncInv, SyncNext \/ UNCHANGED syncVars
  PROVE  StepsAgree
<1>1. CASE UNCHANGED syncVars
  BY <1>1 DEF syncVars, spinVars, StepsAgree, Moves, RingSteps
<1>2. CASE SyncNext
  BY <1>1, <1>2, SpinSchedSteps, SemSteps, MailSteps DEF SyncNext
<1>3. QED
  BY <1>1, <1>2

LEMMA SyncSteps ==
  ASSUME SyncInv, SyncNext \/ UNCHANGED syncVars
  PROVE  SyncInv' /\ (F!Put \/ F!Get \/ UNCHANGED Contents)
<1>1. StepsAgree
  BY SyncAgrees
<1>2. SInv'
  BY <1>1, SchedStep DEF StepsAgree, SyncInv
<1>3. PlacesAgree'
  BY <1>1, MovesKeepPlaces DEF StepsAgree, SyncInv
<1>4. CASE UNCHANGED ringVars
  <2>1. RingAgrees' /\ UNCHANGED Contents
    BY <1>4 DEF SyncInv, RingAgrees, ringVars, Contents
  <2>2. QED
    BY <1>2, <1>3, <2>1 DEF SyncInv
<1>5. CASE RingAgrees' /\ (F!Put \/ F!Get)
  BY <1>2, <1>3, <1>5 DEF SyncInv
<1>6. QED
  BY <1>1, <1>4, <1>5 DEF StepsAgree, RingSteps

LEMMA SyncStart ==
  ASSUME SyncInit
  PROVE  SyncInv /\ F!Init
<1>1. SInv
  BY InitSInv DEF SyncInit
<1>2. PlacesAgree
  <2>1. Outside \in PlaceType /\ Keeps(Outside)
    BY Queues DEF Outside, InObject, PlaceType, Keeps
  <2>2. at = [t \in Thread |-> Outside]
    BY DEF SyncInit, SpinInit
  <2>3. QED
    BY <2>1, <2>2 DEF PlacesAgree
<1>3. RingAgrees /\ size = 0
  BY SMT, MailboxAssumption DEF SyncInit, MailInit, RingAgrees, Wrapped
<1>4. Contents = <<>>
  <2>1. Contents \in Seq(Message \cup {NoMessage}) /\ Len(Contents) = size
    BY <1>3, ContentsFacts DEF RingAgrees, Contents
  <2>2. QED
    BY SMT, <1>3, <2>1
<1>5. QED
  BY <1>1, <1>2, <1>3, <1>4 DEF SyncInv, F!Init

\* The mailbox implements the bounded queue: whatever threads and IRQ handlers
\* do, in whatever order, and for every capacity, k_mailbox_send() adds one
\* message at the end, k_mailbox_receive() takes the first one away, and no
\* other step changes what is in the ring (the three variables of
\* mailbox.c:175-182 and :239-246 never disagree).
THEOREM MailboxImplementsFifo == SyncSpec => MailboxIsFifo
<1>1. SyncInit => SyncInv /\ F!Init
  BY SyncStart
<1>2. SyncInv /\ [SyncNext]_syncVars => SyncInv' /\ [F!Put \/ F!Get]_Contents
  BY SyncSteps
<1>3. QED
  BY <1>1, <1>2, PTL DEF SyncSpec, MailboxIsFifo, F!Spec

\* The run queues, the wait queues and the states of threads agree whatever
\* semaphores and mailboxes do with them, the wakeups by IRQ handlers and the
\* sleeps that give up a spinlock included.
THEOREM SyncLinksAgree == SyncSpec => []LinksAgree
<1>1. SyncInit => SyncInv
  BY SyncStart
<1>2. SyncInv /\ [SyncNext]_syncVars => SyncInv'
  BY SyncSteps
<1>3. SyncInv => LinksAgree
  BY DEF SyncInv, SInv
<1>4. QED
  BY <1>1, <1>2, <1>3, PTL DEF SyncSpec

\* A timer that runs belongs to the sleep the thread is in, also when the sleep
\* is one of k_semaphore_timed_get() or k_mailbox_timed_receive() that a wakeup,
\* an interrupt or a timeout of an IRQ handler has ended.
THEOREM SyncTimersAreCurrent == SyncSpec => []TimersAreCurrent
<1>1. SyncInit => SyncInv /\ TimersInv
  BY SyncStart, InitTimers DEF SyncInit
<1>2. SyncInv /\ TimersInv /\ [SyncNext]_syncVars => (SyncInv /\ TimersInv)'
  BY SyncSteps, SyncAgrees, TimersStep DEF StepsAgree
<1>3. TimersInv => TimersAreCurrent
  BY DEF TimersInv
<1>4. QED
  BY <1>1, <1>2, <1>3, PTL DEF SyncSpec

-----------------------------------------------------------------------------
(* Interrupt threads.                                                       *)

\* Only an IRQ handler puts the semaphore of an interrupt thread, and a handler
\* is not preempted: no spinlock outlives the step that took it.
SpinsFree == panic = "none" /\ spin = [s \in Semaphore |-> NoCpu]

\* Neither panic() of spinlock.c is reached by interrupt threads and the handlers
\* of interrupt.c that notify them: no CPU takes the semaphore's spinlock twice or
\* releases it on another CPU.
THEOREM IrqSpinlocksNest == IrqSpec => []SpinlocksNest
<1>1. IrqInit => SpinsFree
  BY DEF IrqInit, SpinInit, SpinsFree
<1>2. SpinsFree /\ [IrqNext]_irqVars => SpinsFree'
  <2>1. SUFFICES ASSUME SpinsFree, IrqNext \/ UNCHANGED irqVars PROVE SpinsFree'
    OBVIOUS
  <2>2. ASSUME NEW c \in Cpu, NEW s \in Semaphore, AcquireFails(c, s) PROVE FALSE
    BY <2>1, <2>2, SchedAssumption DEF SpinsFree, AcquireFails
  <2>3. CASE UNCHANGED <<spin, panic>>
    BY <2>1, <2>3 DEF SpinsFree
  <2>4. ASSUME NEW c \in Cpu, DispatchIrq(c) PROVE UNCHANGED <<spin, panic>>
    <3>1. irq[c] /\ WakeupHolding(c, Sem, Sem)
      BY <2>2, <2>4, IrqThreadAssumption DEF DispatchIrq, InIrq, Put
    <3>2. QED
      BY <3>1 DEF WakeupHolding, WithoutWakeup, Preempts
  <2>5. ASSUME NEW c \in Cpu, IsrGet(c) PROVE UNCHANGED <<spin, panic>>
    <3>1. \E s \in Semaphore : \E timed : TimedGetLocked(c, s, timed)
      BY <2>2, <2>5, IrqThreadAssumption DEF IsrGet, TimedGet, TimedGetRetry
    <3>2. QED
      BY <3>1 DEF TimedGetLocked, TryGetLocked, WithoutWakeup, SleepOn
  <2>6. ASSUME NEW c \in Cpu, IsrServe(c) PROVE UNCHANGED <<spin, panic>>
    BY <2>6 DEF IsrServe, semVars, spinVars
  <2>7. Raise \/ Other => UNCHANGED <<spin, panic>>
    BY DEF Raise, Other, semVars, spinVars
  <2>8. ASSUME NEW c \in Cpu, SleepReturns(c) PROVE UNCHANGED <<spin, panic>>
    BY <2>8 DEF SleepReturns
  <2>9. UNCHANGED irqVars => UNCHANGED <<spin, panic>>
    BY DEF irqVars, semVars, spinVars
  <2>10. QED
    BY <2>1, <2>3, <2>4, <2>5, <2>6, <2>7, <2>8, <2>9 DEF IrqNext
<1>3. SpinsFree => SpinlocksNest
  BY DEF SpinsFree, SpinlocksNest
<1>4. QED
  BY <1>1, <1>2, <1>3, PTL DEF IrqSpec

-----------------------------------------------------------------------------
(* Who sleeps, who has been woken, and what for.                            *)

\* A thread that waits for a semaphore or the mailbox is in the sleep of the
\* scheduler that its place says, and only such threads sleep.
Waits(t) ==
  /\ pc[t].op \in {"run", "sleep"}
  /\ pc[t].op = "sleep" <=> at[t].op = "wait"
  /\ pc[t].op = "sleep" => pc[t].q = at[t].queue
  /\ state[t] = "sleep" => pc[t].op = "sleep"
  /\ state[t] # "mutex"
  /\ at[t].op \in {"wait", "retry"} =>
       \/ at[t].queue \in Semaphore /\ at[t].obj = at[t].queue
       \/ at[t].queue = receivers /\ at[t].obj = Box /\ t \in Receiver
       \/ at[t].queue = senders /\ at[t].obj = Box /\ t \in Sender

SleepsOn(t, q) == state[t] = "sleep" /\ pc[t].q = q

WaitsInv == SyncInv /\ TimersInv /\ \A t \in Thread : Waits(t)

Takers(s) == {t \in Thread : Woken(t, s)}

\* The scheduler neither puts t to sleep nor wakes it.
Calm(t) ==
  /\ state'[t] = "sleep" <=> state[t] = "sleep"
  /\ state'[t] # "mutex"
  /\ pc'[t].op = pc[t].op
  /\ pc[t].op = "sleep" => pc'[t].q = pc[t].q

AllCalm == UNCHANGED sleep_result /\ \A t \in Thread : Calm(t)

\* One thread is woken, with result r.
Wakes(u, r) ==
  /\ state[u] = "sleep" /\ state'[u] \notin {"sleep", "mutex"}
  /\ pc'[u] = pc[u]
  /\ sleep_result' = [sleep_result EXCEPT ![u] = r]
  /\ \A t \in Thread : t # u => Calm(t)

\* What happens to the sleeping threads in a step that puts none to sleep.
Stirs == AllCalm \/ \E u \in Thread, r \in Result : Wakes(u, r)

LEMMA SleepersInLinks ==
  ASSUME NEW wq \in [Queue -> Seq(Thread)], NEW st, NEW k, WaitLinks(wq, st, k),
         NEW q \in WaitQueue
  PROVE  wq[q] # <<>> <=> \E t \in Thread : st[t] = "sleep" /\ k[t].q = q
<1>1. q \in Queue /\ SleepState(q) = "sleep"
  BY SchedAssumption DEF Queue, SleepState
<1>2. wq[q] \in Seq(Thread) /\ Range(wq[q]) = {t \in Thread : st[t] = "sleep" /\ k[t].q = q}
  BY <1>1 DEF WaitLinks
<1>3. wq[q] # <<>> => Range(wq[q]) # {}
  BY <1>2, HeadTailFacts
<1>4. wq[q] = <<>> => Range(wq[q]) = {}
  BY SMT DEF Range
<1>5. QED
  BY <1>2, <1>3, <1>4

LEMMA QueueSleepers ==
  ASSUME NEW q \in WaitQueue
  PROVE  /\ SInv => (waitq[q] # <<>> <=> \E t \in Thread : SleepsOn(t, q))
         /\ SInv' => (waitq'[q] # <<>> <=> \E t \in Thread : SleepsOn(t, q)')
<1>1. ASSUME SInv PROVE waitq[q] # <<>> <=> \E t \in Thread : SleepsOn(t, q)
  <2>1. waitq \in [Queue -> Seq(Thread)] /\ WaitLinks(waitq, state, pc)
    BY <1>1 DEF SInv, TypeOK, LinksAgree
  <2>2. QED
    BY SMT, <2>1, SleepersInLinks DEF SleepsOn
<1>2. ASSUME SInv' PROVE waitq'[q] # <<>> <=> \E t \in Thread : SleepsOn(t, q)'
  <2>1. waitq' \in [Queue -> Seq(Thread)] /\ WaitLinks(waitq', state', pc')
    BY <1>2 DEF SInv, TypeOK, LinksAgree, WaitLinks
  <2>2. QED
    BY SMT, <2>1, SleepersInLinks DEF SleepsOn
<1>3. QED
  BY <1>1, <1>2

-----------------------------------------------------------------------------
(* The steps of the scheduler.                                              *)

LEMMA EnqueueStirs ==
  ASSUME WaitsInv, NEW c \in Cpu, NEW u \in Thread, NEW k, NEW hold, k.op = "run",
         EnqueueAndMayYield(c, u, k, hold), state[u] # "running",
         curr[c] # NoThread => pc[curr[c]].op = "run"
  PROVE  /\ state'[u] = "ready" /\ pc'[u] = pc[u]
         /\ \A t \in Thread : t # u => Calm(t)
<1>1. CASE Preempts(c, u)
  <2>1. curr[c] \in Thread /\ state[curr[c]] = "running" /\ pc[curr[c]].op = "run"
    BY SMT, <1>1 DEF Preempts, Outranks, WaitsInv, TimersInv, SInv, TypeOK, CpusAgree
  <2>2. /\ state' = [state EXCEPT ![u] = "ready", ![curr[c]] = "ready"]
        /\ pc' = [pc EXCEPT ![curr[c]] = k]
    BY <1>1 DEF EnqueueAndMayYield
  <2>3. QED
    BY <2>1, <2>2 DEF WaitsInv, TimersInv, SInv, TypeOK, Calm, Waits
<1>2. CASE ~Preempts(c, u)
  <2>1. state' = [state EXCEPT ![u] = "ready"] /\ pc' = pc
    BY <1>2 DEF EnqueueAndMayYield
  <2>2. QED
    BY <2>1 DEF WaitsInv, TimersInv, SInv, TypeOK, Calm, Waits
<1>3. QED
  BY <1>1, <1>2

\* The current thread of a CPU, when the scheduler is not locked.
LEMMA CurrentIsOut ==
  ASSUME WaitsInv, NEW c \in Cpu, Unlocked, curr[c] # NoThread
  PROVE  /\ curr[c] \in Thread /\ pc[curr[c]].op = "run"
         /\ state[curr[c]] = "running" /\ at[curr[c]].op # "wait"
<1>1. curr[c] \in Thread /\ pc[curr[c]].op = "run"
  BY OwnCode DEF WaitsInv, TimersInv
<1>2. state[curr[c]] = "running"
  BY <1>1 DEF WaitsInv, TimersInv, SInv, CpusAgree
<1>3. QED
  BY <1>1, <1>2 DEF WaitsInv, Waits

LEMMA ResumeWakes ==
  ASSUME WaitsInv, NEW c \in Cpu, NEW u \in Thread, NEW r, Unlocked, Asleep(u),
         ResumeSleeper(c, u, r, Run, NoCpu)
  PROVE  Wakes(u, r)
<1>1. state[u] = "sleep"
  BY DEF WaitsInv, Waits, Asleep
<1>2. Run.op = "run"
  BY DEF Run, At
<1>3. /\ EnqueueAndMayYield(c, u, Run, NoCpu)
      /\ sleep_result' = [sleep_result EXCEPT ![u] = r]
  BY DEF ResumeSleeper
<1>4. /\ state'[u] = "ready" /\ pc'[u] = pc[u]
      /\ \A t \in Thread : t # u => Calm(t)
  BY <1>1, <1>2, <1>3, CurrentIsOut, EnqueueStirs
<1>5. QED
  BY <1>1, <1>3, <1>4 DEF Wakes

LEMMA WakeupWakes ==
  ASSUME WaitsInv, NEW c \in Cpu, NEW q \in WaitQueue, WakeupOne(c, q)
  PROVE  /\ Head(waitq[q]) \in Thread /\ SleepsOn(Head(waitq[q]), q)
         /\ Wakes(Head(waitq[q]), "ok")
<1> DEFINE u == Head(waitq[q])
<1>1. q \in Queue /\ SleepState(q) = "sleep"
  BY SchedAssumption DEF Queue, SleepState
<1>2. Unlocked /\ waitq[q] # <<>> /\ ResumeSleeper(c, u, "ok", Run, NoCpu)
  BY DEF WakeupOne, Active, InThread, InIrq
<1>3. waitq[q] \in Seq(Thread) /\ Range(waitq[q]) = {t \in Thread : SleepsOn(t, q)}
  BY <1>1 DEF WaitsInv, TimersInv, SInv, TypeOK, LinksAgree, WaitLinks, SleepsOn
<1>4. u \in Range(waitq[q])
  BY <1>2, <1>3, HeadTailFacts
<1>5. u \in Thread /\ SleepsOn(u, q)
  BY <1>3, <1>4
<1>. HIDE DEF u
<1>6. Asleep(u)
  BY <1>5 DEF SleepsOn, Asleep
<1>7. Wakes(u, "ok")
  BY <1>2, <1>5, <1>6, ResumeWakes
<1>8. QED
  BY <1>5, <1>7 DEF u

LEMMA LeaveIsCalm ==
  ASSUME WaitsInv, NEW c \in Cpu, Unlocked, mode[c] = "run", Leave(c, "ready", Run),
         UNCHANGED sleep_result
  PROVE  AllCalm
<1>1. curr[c] # NoThread
  BY DEF WaitsInv, TimersInv, SInv, CpusAgree
<1>2. /\ state' = [state EXCEPT ![curr[c]] = "ready"]
      /\ pc' = [pc EXCEPT ![curr[c]] = Run]
  BY DEF Leave
<1>3. QED
  BY <1>1, <1>2, CurrentIsOut
     DEF WaitsInv, TimersInv, SInv, TypeOK, Waits, AllCalm, Calm, Run, At

LEMMA SchedStirs ==
  ASSUME WaitsInv,
         \/ \E t \in Thread : BootResume(t)
         \/ \E c \in Cpu :
              \/ SchedStart(c) \/ Dispatch(c) \/ Idle(c) \/ IdleWake(c) \/ ContinueRun(c)
              \/ ThreadYield(c) \/ IrqBegin(c) \/ IrqTick(c) \/ IrqEnd(c)
              \/ \E u \in Thread : ThreadInterrupt(c, u) \/ IrqTimeout(c, u)
         \/ UNCHANGED schedVars
  PROVE  AllCalm \/ \E u \in Thread, r \in {"intr", "timedout"} : Wakes(u, r)
<1>1. CASE UNCHANGED <<state, pc, sleep_result>>
  BY <1>1 DEF WaitsInv, Waits, AllCalm, Calm
<1>2. ASSUME NEW t \in Thread, BootResume(t) PROVE AllCalm
  <2>1. /\ Unlocked /\ state[t] = "suspended" /\ UNCHANGED sleep_result
        /\ EnqueueAndMayYield(BootCpu, t, Run, NoCpu)
    BY <1>2 DEF BootResume
  <2>2. Run.op = "run" /\ BootCpu \in Cpu
    BY SchedAssumption DEF Run, At
  <2>3. /\ state'[t] = "ready" /\ pc'[t] = pc[t]
        /\ \A u \in Thread : u # t => Calm(u)
    BY <2>1, <2>2, CurrentIsOut, EnqueueStirs
  <2>4. QED
    BY <2>1, <2>3 DEF AllCalm, Calm
<1>3. ASSUME NEW c \in Cpu, Dispatch(c) PROVE AllCalm
  <2>1. UNCHANGED <<pc, sleep_result>>
    BY <1>3 DEF Dispatch
  <2>2. PICK p \in Priority :
          Ready(p) /\ state' = [state EXCEPT ![Head(sched_queue[p])] = "running"]
    BY <1>3 DEF Dispatch
  <2> DEFINE t == Head(sched_queue[p])
  <2>3. t \in Thread /\ state[t] = "ready"
    <3>1. sched_queue[p] \in Seq(Thread) /\ sched_queue[p] # <<>>
      BY <2>2 DEF Ready, WaitsInv, TimersInv, SInv, TypeOK
    <3>2. t \in Range(sched_queue[p])
      BY <3>1, HeadTailFacts
    <3>3. QED
      BY <3>2 DEF WaitsInv, TimersInv, SInv, LinksAgree, RunLinks
  <2>. HIDE DEF t
  <2>4. state' = [state EXCEPT ![t] = "running"]
    BY <2>2 DEF t
  <2>5. QED
    BY <2>1, <2>3, <2>4 DEF WaitsInv, TimersInv, SInv, TypeOK, Waits, AllCalm, Calm
<1>4. ASSUME NEW c \in Cpu,
             \/ SchedStart(c) \/ Idle(c) \/ IdleWake(c) \/ ContinueRun(c)
             \/ IrqBegin(c) \/ IrqTick(c)
      PROVE  AllCalm
  <2>1. UNCHANGED <<state, pc, sleep_result>>
    BY <1>4 DEF SchedStart, Idle, IdleWake, ContinueRun, IrqBegin, IrqTick, threadVars
  <2>2. QED
    BY <2>1 DEF WaitsInv, Waits, AllCalm, Calm
<1>5. ASSUME NEW c \in Cpu, ThreadYield(c) PROVE AllCalm
  BY <1>5, LeaveIsCalm DEF ThreadYield, InThread
<1>6. ASSUME NEW c \in Cpu, IrqEnd(c) PROVE AllCalm
  <2>1. Unlocked /\ UNCHANGED sleep_result
    BY <1>6 DEF IrqEnd, InIrq
  <2>2. CASE curr[c] # NoThread /\ resched[curr[c]]
    <3>1. mode[c] = "run" /\ Leave(c, "ready", Run)
      BY <1>6, <2>2 DEF IrqEnd, WaitsInv, TimersInv, SInv, CpusAgree
    <3>2. QED
      BY <2>1, <3>1, LeaveIsCalm
  <2>3. CASE ~(curr[c] # NoThread /\ resched[curr[c]])
    BY <1>6, <2>1, <2>3 DEF IrqEnd, WaitsInv, Waits, AllCalm, Calm
  <2>4. QED
    BY <2>2, <2>3
<1>7. ASSUME NEW c \in Cpu, NEW u \in Thread, ThreadInterrupt(c, u)
      PROVE  Wakes(u, "intr")
  BY <1>7, ResumeWakes DEF ThreadInterrupt, Active, InThread, InIrq
<1>8. ASSUME NEW c \in Cpu, NEW u \in Thread, IrqTimeout(c, u)
      PROVE  AllCalm \/ Wakes(u, "timedout")
  <2>1. CASE Asleep(u)
    BY <1>8, <2>1, ResumeWakes DEF IrqTimeout, InIrq
  <2>2. CASE ~Asleep(u)
    BY <1>8, <2>2 DEF IrqTimeout, WaitsInv, Waits, AllCalm, Calm
  <2>3. QED
    BY <2>1, <2>2
<1>9. QED
  BY <1>1, <1>2, <1>3, <1>4, <1>5, <1>6, <1>7, <1>8 DEF schedVars, threadVars

-----------------------------------------------------------------------------
(* The steps of semaphores and mailboxes, by what they do to sleepers.      *)

\* t has nothing more to take.
Leaves(t) == at[t].op # "wait" /\ at'[t].op \notin {"wait", "retry"}

\* A thread that has been woken, or will be, keeps its place.
Bystanders == \A t \in Thread : at'[t] = at[t] \/ (Leaves(t) /\ at[t].op # "retry")

\* Who sleeps on q has been woken, if anybody does.
Roused(q) ==
  \/ AllCalm /\ \A t \in Thread : ~SleepsOn(t, q)
  \/ \E u \in Thread : SleepsOn(u, q) /\ Wakes(u, "ok")

Rests == UNCHANGED <<count, size>> /\ Stirs /\ Bystanders

Takes(s) ==
  /\ AllCalm /\ UNCHANGED size
  /\ count[s] > 0 /\ count' = [count EXCEPT ![s] = @ - 1]
  /\ \E x \in Thread :
       /\ Leaves(x) /\ (at[x].op = "retry" => at[x].queue = s)
       /\ \A t \in Thread : t # x => at'[t] = at[t]

Gives(s) ==
  /\ Roused(s) /\ Bystanders /\ UNCHANGED size
  /\ count' = [count EXCEPT ![s] = @ + 1]

Mails ==
  /\ Stirs /\ UNCHANGED count
  /\ \A t \in Thread :
       \/ at'[t] = at[t]
       \/ Leaves(t) /\ (at[t].op = "retry" => at[t].queue \notin Semaphore)
  /\ \/ size < capacity /\ size' = size + 1 /\ (size = 0 => Roused(receivers))
     \/ size > 0 /\ size' = size - 1 /\ (size = capacity => Roused(senders))

GoesToSleep(c, q) ==
  /\ UNCHANGED <<count, size>>
  /\ at[curr[c]].op = "retry" => at[curr[c]].queue = q
  /\ \/ q \in Semaphore /\ count[q] = 0
     \/ q = receivers /\ size = 0
     \/ q = senders /\ size = capacity
  /\ \E o, arg : \E timed \in BOOLEAN :
       /\ SleepOn(c, o, q, timed, arg)
       /\ \/ q \in Semaphore /\ o = q
          \/ q = receivers /\ o = Box /\ curr[c] \in Receiver
          \/ q = senders /\ o = Box /\ curr[c] \in Sender

LEMMA StillIsCalm ==
  ASSUME WaitsInv, UNCHANGED schedVars
  PROVE  AllCalm
<1>1. UNCHANGED <<state, pc, sleep_result>>
  BY DEF schedVars, threadVars
<1>2. QED
  BY <1>1 DEF WaitsInv, Waits, AllCalm, Calm

LEMMA StopRests ==
  ASSUME WaitsInv, NEW c, NEW o, AcquireFails(c, o), UNCHANGED <<count, size>>
  PROVE  Rests
<1>1. UNCHANGED schedVars /\ UNCHANGED at
  BY DEF AcquireFails, Stop
<1>2. QED
  BY <1>1, StillIsCalm DEF Rests, Stirs, Bystanders

\* What a call that may wake somebody does to places and sleepers.
LEMMA WakeupRouses ==
  ASSUME WaitsInv, NEW c \in Cpu, NEW o, NEW q \in WaitQueue, Active(c),
         WithoutWakeup(c) \/ WakeupHolding(c, o, q)
  PROVE  /\ Stirs
         /\ WakeupHolding(c, o, q) => Roused(q)
         /\ \A t \in Thread : at'[t] = at[t] \/ (t = curr[c] /\ ~irq[c] /\ Leaves(t))
<1> DEFINE k == InObject("wakeup", o, NoQueue, FALSE, NoQueue)
<1>1. k.op = "wakeup" /\ Outside.op = "none"
  BY DEF InObject, Outside
<1>2. at \in [Thread -> PlaceType]
  BY DEF WaitsInv, SyncInv, PlacesAgree
<1>3. Unlocked /\ (~irq[c] => mode[c] = "run")
  BY DEF Active, InThread, InIrq
<1>4. ~irq[c] => curr[c] \in Thread /\ at[curr[c]].op # "wait"
  BY <1>3, CurrentIsOut DEF WaitsInv, TimersInv, SInv, CpusAgree
<1>5. \/ Returns(c)
      \/ ~irq[c] /\ at' = [at EXCEPT ![curr[c]] = k]
  BY DEF WithoutWakeup, WakeupHolding, Place, Preempts
<1>6. \A t \in Thread : at'[t] = at[t] \/ (t = curr[c] /\ ~irq[c] /\ Leaves(t))
  <2>1. CASE UNCHANGED at
    BY <2>1
  <2>2. ASSUME NEW p, p.op \in {"wakeup", "none"}, ~irq[c], at' = [at EXCEPT ![curr[c]] = p]
        PROVE  \A t \in Thread : at'[t] = at[t] \/ (t = curr[c] /\ ~irq[c] /\ Leaves(t))
    BY <1>2, <1>4, <2>2 DEF Leaves
  <2>3. UNCHANGED at \/ (~irq[c] /\ at' = [at EXCEPT ![curr[c]] = Outside])
                     \/ (~irq[c] /\ at' = [at EXCEPT ![curr[c]] = k])
    BY <1>5 DEF Returns, Place
  <2>. HIDE DEF k
  <2>4. QED
    BY SMTT(30), <1>1, <2>1, <2>2, <2>3
<1>7. CASE UNCHANGED schedVars
  <2>1. AllCalm
    BY <1>7, StillIsCalm
  <2>2. WakeupHolding(c, o, q) => Roused(q)
    <3>1. ASSUME WakeupHolding(c, o, q), waitq[q] # <<>> PROVE Roused(q)
      BY <3>1, WakeupWakes DEF WakeupHolding, Roused
    <3>2. waitq[q] = <<>> => \A t \in Thread : ~SleepsOn(t, q)
      BY QueueSleepers DEF WaitsInv, SyncInv
    <3>3. QED
      BY <2>1, <3>1, <3>2 DEF Roused
  <2>3. QED
    BY <1>6, <2>1, <2>2 DEF Stirs
<1>8. CASE WakeupOne(c, q)
  <2>1. Roused(q) /\ Stirs
    BY <1>8, WakeupWakes DEF Roused, Stirs, Result
  <2>2. QED
    BY <1>6, <2>1
<1>9. QED
  BY <1>7, <1>8 DEF WithoutWakeup, WakeupHolding

LEMMA SpinSchedClass ==
  ASSUME WaitsInv, SpinSchedNext, UNCHANGED <<count, size>>
  PROVE  Rests \/ \E c \in Cpu : SleepReturns(c)
<1>1. ASSUME \/ \E t \in Thread : BootResume(t)
             \/ \E c \in Cpu :
                  \/ SchedStart(c) \/ Dispatch(c) \/ Idle(c) \/ IdleWake(c) \/ ContinueRun(c)
                  \/ ThreadYield(c) \/ IrqBegin(c) \/ IrqTick(c) \/ IrqEnd(c)
                  \/ \E u \in Thread : ThreadInterrupt(c, u) \/ IrqTimeout(c, u),
             UNCHANGED at
      PROVE  Rests
  <2>1. Stirs
    BY <1>1, SchedStirs DEF Stirs, Result
  <2>2. QED
    BY <1>1, <2>1 DEF Rests, Bystanders
<1>2. ASSUME NEW c \in Cpu, GiveUp(c) \/ Release(c) PROVE Rests
  <2>1. /\ UNCHANGED schedVars
        /\ UNCHANGED at \/ at' = [at EXCEPT ![curr[c]] = Outside]
        /\ at[curr[c]].op \in {"giveup", "wakeup"}
    BY <1>2 DEF GiveUp, Release, AcquireFails, Stop, Place
  <2>2. Outside.op = "none"
    BY DEF Outside, InObject
  <2>3. Bystanders
    BY <2>1, <2>2 DEF Bystanders, Leaves, WaitsInv, SyncInv, PlacesAgree
  <2>4. QED
    BY <2>1, <2>3, StillIsCalm DEF Rests, Stirs
<1>3. QED
  BY <1>1, <1>2 DEF SpinSchedNext, spinVars

LEMMA TakeClass ==
  ASSUME WaitsInv, NEW c \in Cpu, NEW s \in Semaphore, InThread(c), TryGetLocked(c, s),
         at[curr[c]].op = "retry" => at[curr[c]].queue = s, UNCHANGED size
  PROVE  Takes(s)
<1>1. /\ count[s] > 0 /\ count' = [count EXCEPT ![s] = @ - 1]
      /\ WithoutWakeup(c) /\ UNCHANGED schedVars /\ ~irq[c]
  BY DEF TryGetLocked, WithoutWakeup, InThread
<1>2. curr[c] \in Thread /\ at[curr[c]].op # "wait"
  BY CurrentIsOut DEF InThread, WaitsInv, TimersInv, SInv, CpusAgree
<1>3. at' = [at EXCEPT ![curr[c]] = Outside] /\ Outside.op = "none"
  BY <1>1 DEF WithoutWakeup, Returns, Place, Outside, InObject
<1>4. Leaves(curr[c]) /\ \A t \in Thread : t # curr[c] => at'[t] = at[t]
  BY <1>2, <1>3 DEF Leaves, WaitsInv, SyncInv, PlacesAgree
<1>5. QED
  BY <1>1, <1>2, <1>4, StillIsCalm DEF Takes

LEMMA SemClass ==
  ASSUME WaitsInv, NEW c \in Cpu, SemOp(c), UNCHANGED size
  PROVE  Rests \/ \E s \in Semaphore : Takes(s) \/ Gives(s) \/ GoesToSleep(c, s)
<1>1. ASSUME NEW s \in Semaphore, NEW timed \in BOOLEAN, InThread(c),
             TimedGetLocked(c, s, timed), at[curr[c]].op = "retry" => at[curr[c]].queue = s
      PROVE  Takes(s) \/ GoesToSleep(c, s)
  <2>1. CASE TryGetLocked(c, s)
    BY <1>1, <2>1, TakeClass
  <2>2. CASE count[s] = 0 /\ SleepOn(c, s, s, timed, NoQueue) /\ UNCHANGED count
    BY <1>1, <2>2 DEF GoesToSleep
  <2>3. QED
    BY <1>1, <2>1, <2>2 DEF TimedGetLocked
<1>2. ASSUME NEW s \in Semaphore, Put(c, s) PROVE Rests \/ Gives(s)
  <2>1. CASE AcquireFails(c, s) /\ UNCHANGED count
    BY <2>1, StopRests
  <2>2. CASE WakeupHolding(c, s, s) /\ count' = [count EXCEPT ![s] = @ + 1]
    <3>1. Active(c) /\ (at[curr[c]].op = "none" \/ irq[c])
      BY <1>2 DEF Put, Caller, Own, InIrq, Active
    <3>2. s \in WaitQueue
      BY SemaphoreAssumption
    <3>3. Roused(s) /\ Bystanders
      BY <2>2, <3>1, <3>2, WakeupRouses DEF Bystanders
    <3>4. QED
      BY <2>2, <3>3 DEF Gives
  <2>3. QED
    BY <1>2, <2>1, <2>2 DEF Put
<1>3. ASSUME NEW s \in Semaphore, NEW timed \in BOOLEAN,
             TimedGet(c, s, timed) \/ TryGet(c, s)
      PROVE  Rests \/ Takes(s) \/ GoesToSleep(c, s)
  <2>1. /\ InThread(c) /\ at[curr[c]].op = "none"
        /\ \/ AcquireFails(c, s) /\ UNCHANGED count
           \/ TimedGetLocked(c, s, timed)
    BY <1>3 DEF TimedGet, TryGet, Own, TimedGetLocked
  <2>2. QED
    BY <1>1, <2>1, StopRests
<1>4. CASE TimedGetRetry(c)
  <2> DEFINE s == at[curr[c]].obj
  <2>1. /\ InThread(c) /\ at[curr[c]].op = "retry" /\ s \in Semaphore
        /\ \/ AcquireFails(c, s) /\ UNCHANGED count
           \/ TimedGetLocked(c, s, at[curr[c]].timed)
    BY <1>4 DEF TimedGetRetry
  <2>2. curr[c] \in Thread
    BY <2>1, Current DEF InThread, WaitsInv, SyncInv
  <2>3. at[curr[c]].timed \in BOOLEAN /\ at[curr[c]].queue = s
    BY SMT, <2>1, <2>2, SyncAssumption DEF WaitsInv, Waits, SyncInv, PlacesAgree, PlaceType
  <2>4. QED
    BY <1>1, <2>1, <2>3, StopRests
<1>5. QED
  BY <1>2, <1>3, <1>4 DEF SemOp

LEMMA MailClass ==
  ASSUME WaitsInv, NEW c \in Cpu, MailOp(c), UNCHANGED count
  PROVE  Rests \/ Mails \/ GoesToSleep(c, receivers) \/ GoesToSleep(c, senders)
<1>0. /\ receivers \in WaitQueue /\ senders \in WaitQueue
      /\ receivers \notin Semaphore /\ senders \notin Semaphore
      /\ Box \notin Semaphore /\ receivers # senders
  BY MailboxAssumption, SyncAssumption
<1>1. ASSUME NEW o, AcquireFails(c, o), UNCHANGED ringVars PROVE Rests
  BY <1>1, StopRests DEF ringVars
<1> DEFINE Fits == at[curr[c]].op = "none" \/ irq[c]
                   \/ (at[curr[c]].op = "retry" /\ at[curr[c]].queue \notin Semaphore)
<1>2. ASSUME NEW q \in {receivers, senders}, Active(c), Fits,
             WithoutWakeup(c) \/ WakeupHolding(c, Box, q)
      PROVE  /\ Stirs /\ (WakeupHolding(c, Box, q) => Roused(q))
             /\ \A t \in Thread :
                  \/ at'[t] = at[t]
                  \/ Leaves(t) /\ (at[t].op = "retry" => at[t].queue \notin Semaphore)
  BY <1>0, <1>2, WakeupRouses
<1>3. ASSUME Active(c), Fits, ReceiveLocked(c) PROVE Mails
  <2>1. /\ size > 0 /\ size' = size - 1
        /\ WithoutWakeup(c) \/ WakeupHolding(c, Box, senders)
        /\ size = capacity => WakeupHolding(c, Box, senders)
    BY <1>3 DEF ReceiveLocked
  <2>2. QED
    BY <1>2, <1>3, <2>1 DEF Mails
<1>4. ASSUME NEW m, Active(c), Fits, SendLocked(c, m) PROVE Mails
  <2>1. /\ size < capacity /\ size' = size + 1
        /\ WithoutWakeup(c) \/ WakeupHolding(c, Box, receivers)
        /\ size = 0 => WakeupHolding(c, Box, receivers)
    BY <1>4 DEF SendLocked
  <2>2. QED
    BY <1>2, <1>4, <2>1 DEF Mails
<1>5. ASSUME NEW timed \in BOOLEAN, InThread(c), Fits, TimedReceiveLocked(c, timed),
             curr[c] \in Receiver, at[curr[c]].op = "retry" => at[curr[c]].queue = receivers
      PROVE  Mails \/ GoesToSleep(c, receivers)
  <2>1. CASE size = 0 /\ SleepOn(c, Box, receivers, timed, NoMessage) /\ UNCHANGED ringVars
    BY <1>5, <2>1 DEF GoesToSleep, ringVars
  <2>2. QED
    BY <1>3, <1>5, <2>1 DEF TimedReceiveLocked, Active
<1>6. ASSUME NEW m, NEW timed \in BOOLEAN, InThread(c), Fits, TimedSendLocked(c, m, timed),
             curr[c] \in Sender, at[curr[c]].op = "retry" => at[curr[c]].queue = senders
      PROVE  Mails \/ GoesToSleep(c, senders)
  <2>1. CASE size = capacity /\ SleepOn(c, Box, senders, timed, m) /\ UNCHANGED ringVars
    BY <1>6, <2>1 DEF GoesToSleep, ringVars
  <2>2. QED
    BY <1>4, <1>6, <2>1 DEF TimedSendLocked, Active
<1>7. CASE TryReceive(c)
  BY <1>1, <1>3, <1>7 DEF TryReceive, Own, Active
<1>8. ASSUME NEW m \in Message, TrySend(c, m) PROVE Rests \/ Mails
  BY <1>1, <1>4, <1>8 DEF TrySend, Own, Active, InIrq
<1>9. ASSUME NEW timed \in BOOLEAN, TimedReceive(c, timed)
      PROVE  Rests \/ Mails \/ GoesToSleep(c, receivers)
  BY <1>1, <1>5, <1>9 DEF TimedReceive, Own
<1>10. ASSUME NEW timed \in BOOLEAN, NEW m \in Message, TimedSend(c, m, timed)
       PROVE  Rests \/ Mails \/ GoesToSleep(c, senders)
  BY <1>1, <1>6, <1>10 DEF TimedSend, Own
<1>11. CASE Retry(c)
  <2>1. InThread(c) /\ at[curr[c]].op = "retry" /\ at[curr[c]].obj = Box
    BY <1>11 DEF Retry
  <2>2. curr[c] \in Thread
    BY <2>1, Current DEF InThread, WaitsInv, SyncInv
  <2>3. /\ at[curr[c]].timed \in BOOLEAN
        /\ \/ at[curr[c]].queue = receivers /\ curr[c] \in Receiver
           \/ at[curr[c]].queue = senders /\ curr[c] \in Sender
    BY <1>0, <2>1, <2>2 DEF WaitsInv, Waits, SyncInv, PlacesAgree, PlaceType
  <2>4. \/ AcquireFails(c, Box) /\ UNCHANGED ringVars
        \/ /\ at[curr[c]].queue = receivers
           /\ TimedReceiveLocked(c, at[curr[c]].timed)
        \/ /\ at[curr[c]].queue = senders
           /\ TimedSendLocked(c, at[curr[c]].arg, at[curr[c]].timed)
    BY <1>11 DEF Retry
  <2>5. Fits
    BY <1>0, <2>1, <2>3
  <2>. HIDE DEF Fits
  <2>6. CASE AcquireFails(c, Box) /\ UNCHANGED ringVars
    BY <1>1, <2>6
  <2>7. CASE at[curr[c]].queue = receivers /\ TimedReceiveLocked(c, at[curr[c]].timed)
    BY <1>0, <1>5, <2>1, <2>3, <2>5, <2>7
  <2>8. CASE at[curr[c]].queue = senders /\ TimedSendLocked(c, at[curr[c]].arg, at[curr[c]].timed)
    BY <1>0, <1>6, <2>1, <2>3, <2>5, <2>8
  <2>9. QED
    BY <2>4, <2>6, <2>7, <2>8
<1>12. QED
  BY <1>7, <1>8, <1>9, <1>10, <1>11 DEF MailOp

-----------------------------------------------------------------------------
(* The sleepers and the woken threads after a step.                         *)

LEMMA StirsKeepWaits ==
  ASSUME WaitsInv, Stirs, NEW t \in Thread, at'[t] = at[t] \/ Leaves(t)
  PROVE  Waits(t)'
<1>1. Waits(t)
  BY DEF WaitsInv
<1>2. CASE Calm(t)
  BY <1>1, <1>2 DEF Waits, Calm, Leaves
<1>3. CASE state'[t] \notin {"sleep", "mutex"} /\ pc'[t] = pc[t]
  BY <1>1, <1>3 DEF Waits, Leaves
<1>4. QED
  BY <1>2, <1>3 DEF Stirs, AllCalm, Wakes

LEMMA StirsKeepWoken ==
  ASSUME WaitsInv, Stirs, NEW t \in Thread, NEW q, Woken(t, q), at'[t] = at[t]
  PROVE  Woken(t, q)'
<1>1. CASE at[t].op = "retry"
  BY <1>1 DEF Woken
<1>2. CASE at[t].op = "wait" /\ state[t] \notin {"sleep", "mutex"}
  <2>1. Calm(t) /\ sleep_result'[t] = sleep_result[t]
    BY <1>2 DEF Stirs, AllCalm, Wakes, WaitsInv, TimersInv, SInv, TypeOK
  <2>2. QED
    BY <1>2, <2>1 DEF Woken, Calm, Asleep
<1>3. QED
  BY <1>1, <1>2 DEF Woken, Asleep

LEMMA StirsKeepSleepers ==
  ASSUME WaitsInv, Stirs, NEW t \in Thread, NEW q, SleepsOn(t, q)'
  PROVE  SleepsOn(t, q) /\ \A u \in Thread, r \in Result : Wakes(u, r) => t # u
<1>1. Calm(t)
  BY DEF Stirs, AllCalm, Wakes, SleepsOn
<1>2. QED
  BY <1>1 DEF Calm, SleepsOn, WaitsInv, Waits, Wakes

LEMMA WokenIsTaker ==
  ASSUME WaitsInv, NEW u \in Thread, NEW q, SleepsOn(u, q), Wakes(u, "ok"), at'[u] = at[u]
  PROVE  ~Woken(u, q) /\ Woken(u, q)'
<1>1. Waits(u)
  BY DEF WaitsInv
<1>2. sleep_result'[u] = "ok"
  BY DEF Wakes, WaitsInv, TimersInv, SInv, TypeOK
<1>3. QED
  BY <1>1, <1>2 DEF SleepsOn, Waits, Wakes, Woken, Asleep

LEMMA TakersCount ==
  ASSUME NEW A, NEW B, A \subseteq Thread, B \subseteq Thread, NEW u
  PROVE  /\ Cardinality(A) \in Nat /\ Cardinality(B) \in Nat
         /\ A \subseteq B => Cardinality(A) <= Cardinality(B)
         /\ A \subseteq B /\ u \in B \ A => Cardinality(A) + 1 <= Cardinality(B)
         /\ A \ {u} \subseteq B => Cardinality(A) - 1 <= Cardinality(B)
<1>1. IsFiniteSet(A) /\ IsFiniteSet(B) /\ IsFiniteSet(A \cup {u}) /\ IsFiniteSet(A \ {u})
  BY SemaphoreAssumption, FS_Subset, FS_AddElement, FS_RemoveElement
<1>2. Cardinality(A) \in Nat /\ Cardinality(B) \in Nat
  BY <1>1, FS_CardinalityType
<1>3. A \subseteq B => Cardinality(A) <= Cardinality(B)
  BY <1>1, FS_Subset
<1>4. ASSUME A \subseteq B, u \in B \ A PROVE Cardinality(A) + 1 <= Cardinality(B)
  <2>1. Cardinality(A \cup {u}) = Cardinality(A) + 1
    BY <1>1, <1>4, FS_AddElement
  <2>2. A \cup {u} \subseteq B
    BY <1>4
  <2>3. Cardinality(A \cup {u}) <= Cardinality(B)
    BY <1>1, <2>2, FS_Subset
  <2>4. QED
    BY <2>1, <2>3
<1>5. ASSUME A \ {u} \subseteq B PROVE Cardinality(A) - 1 <= Cardinality(B)
  <2>1. Cardinality(A \ {u}) <= Cardinality(B)
    BY <1>1, <1>5, FS_Subset
  <2>2. Cardinality(A \ {u}) = Cardinality(A) \/ Cardinality(A \ {u}) = Cardinality(A) - 1
    BY <1>1, FS_RemoveElement
  <2>3. QED
    BY SMTT(30), <1>1, <1>2, <2>1, <2>2, FS_CardinalityType
<1>6. QED
  BY <1>2, <1>3, <1>4, <1>5

CountsInv == count \in [Semaphore -> Nat] /\ CountHasTakers

\* Nobody new sleeps, nobody who has been woken is lost, and the count does not
\* grow.
LEMMA TakersCover ==
  ASSUME SInv, SInv', CountsInv, NEW s \in Semaphore,
         count'[s] \in Nat, count'[s] <= count[s], waitq'[s] # <<>>,
         \A t \in Thread : SleepsOn(t, s)' => SleepsOn(t, s),
         \A t \in Thread : Woken(t, s) => Woken(t, s)'
  PROVE  count'[s] <= Cardinality(Takers(s)')
<1>1. s \in WaitQueue
  BY SemaphoreAssumption
<1>2. waitq[s] # <<>>
  BY <1>1, QueueSleepers
<1>3. count[s] <= Cardinality(Takers(s)) /\ count[s] \in Nat
  BY <1>2 DEF CountsInv, CountHasTakers, Takers
<1>4. /\ Takers(s) \subseteq Takers(s)'
      /\ Takers(s) \subseteq Thread /\ Takers(s)' \subseteq Thread
  BY DEF Takers
<1>5. /\ Cardinality(Takers(s)) <= Cardinality(Takers(s)')
      /\ Cardinality(Takers(s)) \in Nat /\ Cardinality(Takers(s)') \in Nat
  BY <1>4, TakersCount
<1>6. QED
  BY SMT, <1>3, <1>5

LEMMA TakersStay ==
  ASSUME WaitsInv, SInv', CountsInv, Stirs, NEW s \in Semaphore,
         count'[s] \in Nat, count'[s] <= count[s], waitq'[s] # <<>>,
         \A t \in Thread : Woken(t, s) => at'[t] = at[t]
  PROVE  count'[s] <= Cardinality(Takers(s)')
<1>1. SInv
  BY DEF WaitsInv, SyncInv
<1>2. /\ \A t \in Thread : SleepsOn(t, s)' => SleepsOn(t, s)
      /\ \A t \in Thread : Woken(t, s) => Woken(t, s)'
  BY StirsKeepSleepers, StirsKeepWoken
<1>3. QED
  BY <1>1, <1>2, TakersCover

LEMMA RestsKeepCounts ==
  ASSUME WaitsInv, SInv', CountsInv, Rests
  PROVE  CountsInv' /\ \A t \in Thread : Waits(t)'
<1>1. Stirs /\ Bystanders /\ UNCHANGED count
  BY DEF Rests
<1>2. \A t \in Thread : Waits(t)'
  BY <1>1, StirsKeepWaits DEF Bystanders
<1>3. ASSUME NEW s \in Semaphore, waitq'[s] # <<>>
      PROVE  count'[s] <= Cardinality(Takers(s)')
  <2>1. \A t \in Thread : Woken(t, s) => at'[t] = at[t]
    BY <1>1 DEF Bystanders, Leaves, Woken
  <2>2. count'[s] \in Nat /\ count'[s] <= count[s]
    BY SMT, <1>1 DEF CountsInv
  <2>3. QED
    BY <1>1, <1>3, <2>1, <2>2, TakersStay
<1>4. QED
  BY <1>1, <1>2, <1>3 DEF CountsInv, CountHasTakers, Takers

LEMMA MailsKeepCounts ==
  ASSUME WaitsInv, SInv', CountsInv, Mails
  PROVE  CountsInv' /\ \A t \in Thread : Waits(t)'
<1>1. /\ Stirs /\ UNCHANGED count
      /\ \A t \in Thread :
           \/ at'[t] = at[t]
           \/ Leaves(t) /\ (at[t].op = "retry" => at[t].queue \notin Semaphore)
  BY DEF Mails
<1>2. \A t \in Thread : Waits(t)'
  BY <1>1, StirsKeepWaits
<1>3. ASSUME NEW s \in Semaphore, waitq'[s] # <<>>
      PROVE  count'[s] <= Cardinality(Takers(s)')
  <2>1. \A t \in Thread : Woken(t, s) => at'[t] = at[t]
    BY <1>1 DEF Leaves, Woken
  <2>2. count'[s] \in Nat /\ count'[s] <= count[s]
    BY SMT, <1>1 DEF CountsInv
  <2>3. QED
    BY <1>1, <1>3, <2>1, <2>2, TakersStay
<1>4. QED
  BY <1>1, <1>2, <1>3 DEF CountsInv, CountHasTakers, Takers

\* A unit goes to a woken thread, or to one that was not waiting.
LEMMA TakesKeepCounts ==
  ASSUME WaitsInv, SInv', CountsInv, NEW g \in Semaphore, Takes(g)
  PROVE  CountsInv' /\ \A t \in Thread : Waits(t)'
<1>1. Stirs /\ count[g] > 0 /\ count' = [count EXCEPT ![g] = @ - 1]
  BY DEF Takes, Stirs
<1>2. PICK x \in Thread : /\ Leaves(x) /\ (at[x].op = "retry" => at[x].queue = g)
                          /\ \A t \in Thread : t # x => at'[t] = at[t]
  BY DEF Takes
<1>3. \A t \in Thread : Waits(t)'
  BY <1>1, <1>2, StirsKeepWaits
<1>4. count \in [Semaphore -> Nat] /\ count' \in [Semaphore -> Nat]
  BY SMT, <1>1 DEF CountsInv
<1>5. ASSUME NEW s \in Semaphore, waitq'[s] # <<>>
      PROVE  count'[s] <= Cardinality(Takers(s)')
  <2>1. CASE s # g
    <3>1. \A t \in Thread : Woken(t, s) => at'[t] = at[t]
      BY <1>2, <2>1 DEF Leaves, Woken
    <3>2. QED
      BY SMTT(30), <1>1, <1>4, <1>5, <2>1, <3>1, TakersStay
  <2>2. CASE s = g
    <3>1. s \in WaitQueue
      BY SemaphoreAssumption
    <3>2. waitq[s] # <<>>
      BY <1>1, <1>5, <3>1, StirsKeepSleepers, QueueSleepers DEF WaitsInv, SyncInv
    <3>3. count[s] <= Cardinality(Takers(s)) /\ count[s] \in Nat
      BY <3>2 DEF CountsInv, CountHasTakers, Takers
    <3>4. Takers(s) \ {x} \subseteq Takers(s)'
      BY <1>1, <1>2, StirsKeepWoken DEF Takers
    <3>5. Takers(s) \subseteq Thread /\ Takers(s)' \subseteq Thread
      BY DEF Takers
    <3>6. /\ Cardinality(Takers(s)) - 1 <= Cardinality(Takers(s)')
          /\ Cardinality(Takers(s)) \in Nat /\ Cardinality(Takers(s)') \in Nat
      BY <3>4, <3>5, TakersCount
    <3>7. count'[s] = count[s] - 1
      BY <1>1, <1>4, <2>2
    <3>8. QED
      BY SMTT(30), <3>3, <3>6, <3>7
  <2>3. QED
    BY <2>1, <2>2
<1>6. QED
  BY <1>3, <1>4, <1>5 DEF CountsInv, CountHasTakers, Takers

\* k_semaphore_put() adds a unit and, while somebody sleeps, a woken thread.
LEMMA GivesKeepCounts ==
  ASSUME WaitsInv, SInv', CountsInv, NEW g \in Semaphore, Gives(g)
  PROVE  CountsInv' /\ \A t \in Thread : Waits(t)'
<1>1. Roused(g) /\ Bystanders /\ count' = [count EXCEPT ![g] = @ + 1]
  BY DEF Gives
<1>2. Stirs
  BY <1>1 DEF Roused, Stirs, Result
<1>3. \A t \in Thread : Waits(t)'
  BY <1>1, <1>2, StirsKeepWaits DEF Bystanders
<1>4. count \in [Semaphore -> Nat] /\ count' \in [Semaphore -> Nat]
  BY SMT, <1>1 DEF CountsInv
<1>5. ASSUME NEW s \in Semaphore, waitq'[s] # <<>>
      PROVE  count'[s] <= Cardinality(Takers(s)')
  <2>1. \A t \in Thread : Woken(t, s) => at'[t] = at[t]
    BY <1>1 DEF Bystanders, Leaves, Woken
  <2>2. CASE s # g
    BY SMTT(30), <1>1, <1>2, <1>4, <1>5, <2>1, <2>2, TakersStay
  <2>3. CASE s = g
    <3>1. s \in WaitQueue
      BY SemaphoreAssumption
    <3>2. PICK t \in Thread : SleepsOn(t, s)
      BY <1>2, <1>5, <3>1, StirsKeepSleepers, QueueSleepers
    <3>3. waitq[s] # <<>>
      BY <3>1, <3>2, QueueSleepers DEF WaitsInv, SyncInv
    <3>4. count[s] <= Cardinality(Takers(s)) /\ count[s] \in Nat
      BY <3>3 DEF CountsInv, CountHasTakers, Takers
    <3>5. PICK u \in Thread : SleepsOn(u, s) /\ Wakes(u, "ok")
      BY <1>1, <2>3, <3>2 DEF Roused
    <3>6. at'[u] = at[u]
      BY <1>1, <3>5 DEF Bystanders, Leaves, SleepsOn, WaitsInv, Waits
    <3>7. ~Woken(u, s) /\ Woken(u, s)'
      BY <3>5, <3>6, WokenIsTaker
    <3>8. Takers(s) \subseteq Takers(s)' /\ u \in Takers(s)' \ Takers(s)
      BY <1>2, <2>1, <3>7, StirsKeepWoken DEF Takers
    <3>9. Takers(s) \subseteq Thread /\ Takers(s)' \subseteq Thread
      BY DEF Takers
    <3>10. /\ Cardinality(Takers(s)) + 1 <= Cardinality(Takers(s)')
           /\ Cardinality(Takers(s)) \in Nat /\ Cardinality(Takers(s)') \in Nat
      BY <3>8, <3>9, TakersCount
    <3>11. count'[s] = count[s] + 1
      BY <1>1, <1>4, <2>3
    <3>12. QED
      BY SMTT(30), <3>4, <3>10, <3>11
  <2>4. QED
    BY <2>2, <2>3
<1>6. QED
  BY <1>3, <1>4, <1>5 DEF CountsInv, CountHasTakers, Takers

LEMMA SleepEffect ==
  ASSUME WaitsInv, NEW c \in Cpu, NEW q \in WaitQueue, GoesToSleep(c, q)
  PROVE  /\ UNCHANGED <<sleep_result, count, size>>
         /\ \E x \in Thread :
              /\ x = curr[c] /\ at[x].op # "wait"
              /\ SleepsOn(x, q)' /\ Waits(x)'
              /\ \A t \in Thread : t # x =>
                   state'[t] = state[t] /\ pc'[t] = pc[t] /\ at'[t] = at[t]
<1>1. PICK o, arg :
        /\ \E timed \in BOOLEAN : SleepOn(c, o, q, timed, arg)
        /\ \/ q \in Semaphore /\ o = q
           \/ q = receivers /\ o = Box /\ curr[c] \in Receiver
           \/ q = senders /\ o = Box /\ curr[c] \in Sender
  BY DEF GoesToSleep
<1>2. PICK timed \in BOOLEAN : SleepOn(c, o, q, timed, arg)
  BY <1>1
<1> DEFINE k == At("sleep", q, timed)
           p == InObject("wait", o, q, timed, arg)
<1>3. k.op = "sleep" /\ k.q = q /\ p.op = "wait" /\ p.queue = q /\ p.obj = o
  BY DEF At, InObject
<1>4. /\ InThread(c)
      /\ state' = [state EXCEPT ![curr[c]] = "sleep"]
      /\ pc' = [pc EXCEPT ![curr[c]] = k]
      /\ at' = [at EXCEPT ![curr[c]] = p]
      /\ UNCHANGED sleep_result
  BY <1>2 DEF SleepOn, Sleep, Leave, Place
<1>5. PICK x \in Thread : x = curr[c] /\ at[x].op # "wait"
  BY <1>4, CurrentIsOut DEF InThread, WaitsInv, TimersInv, SInv, CpusAgree
<1>6. UNCHANGED <<count, size>>
  BY DEF GoesToSleep
<1>. HIDE DEF k, p
<1>7. state'[x] = "sleep" /\ pc'[x] = k /\ at'[x] = p
  BY <1>4, <1>5 DEF WaitsInv, TimersInv, SInv, TypeOK, SyncInv, PlacesAgree
<1>8. Waits(x)' /\ SleepsOn(x, q)'
  BY <1>1, <1>3, <1>5, <1>7 DEF Waits, SleepsOn
<1>9. \A t \in Thread : t # x =>
        state'[t] = state[t] /\ pc'[t] = pc[t] /\ at'[t] = at[t]
  BY <1>4, <1>5 DEF WaitsInv, TimersInv, SInv, TypeOK, SyncInv, PlacesAgree
<1>10. QED
  BY <1>4, <1>5, <1>6, <1>8, <1>9

\* Only a thread that has found the count 0 goes to sleep.
LEMMA SleepKeepsCounts ==
  ASSUME WaitsInv, SInv', CountsInv, NEW c \in Cpu, NEW q \in WaitQueue, GoesToSleep(c, q)
  PROVE  CountsInv' /\ \A t \in Thread : Waits(t)'
<1>1. UNCHANGED <<sleep_result, count, size>>
  BY SleepEffect
<1>2. PICK x \in Thread :
        /\ x = curr[c] /\ at[x].op # "wait" /\ SleepsOn(x, q)' /\ Waits(x)'
        /\ \A t \in Thread : t # x =>
             state'[t] = state[t] /\ pc'[t] = pc[t] /\ at'[t] = at[t]
  BY SleepEffect
<1>3. /\ at[x].op = "retry" => at[x].queue = q
      /\ q \in Semaphore => count[q] = 0
  BY <1>2, MailboxAssumption, SyncAssumption DEF GoesToSleep
<1>4. \A t \in Thread : Waits(t)'
  <2>1. ASSUME NEW t \in Thread, t # x PROVE Waits(t)'
    BY SMTT(30), <1>2, <2>1 DEF WaitsInv, Waits
  <2>2. QED
    BY <1>2, <2>1
<1>5. ASSUME NEW s \in Semaphore, waitq'[s] # <<>>
      PROVE  count'[s] <= Cardinality(Takers(s)')
  <2>1. CASE s = q
    <3>1. Takers(s)' \subseteq Thread
      BY DEF Takers
    <3>2. Cardinality(Takers(s)') \in Nat
      BY <3>1, TakersCount
    <3>3. QED
      BY SMTT(30), <1>1, <1>3, <2>1, <3>2
  <2>2. CASE s # q
    <3>1. \A t \in Thread : Woken(t, s) => t # x
      BY <1>2, <1>3, <2>2 DEF Woken
    <3>2. \A t \in Thread : Woken(t, s) => Woken(t, s)'
      BY <1>1, <1>2, <3>1 DEF Woken, Asleep
    <3>3. \A t \in Thread : SleepsOn(t, s)' => SleepsOn(t, s)
      BY <1>2, <2>2 DEF SleepsOn
    <3>4. SInv /\ count'[s] \in Nat /\ count'[s] <= count[s]
      BY SMT, <1>1 DEF CountsInv, WaitsInv, SyncInv
    <3>5. QED
      BY <1>5, <3>2, <3>3, <3>4, TakersCover
  <2>3. QED
    BY <2>1, <2>2
<1>6. QED
  BY <1>1, <1>4, <1>5 DEF CountsInv, CountHasTakers, Takers

\* The sleep returns: a woken thread goes on to take its unit.
LEMMA ReturnEffect ==
  ASSUME WaitsInv, NEW c \in Cpu, SleepReturns(c)
  PROVE  /\ UNCHANGED state
         /\ \A t \in Thread : Waits(t)'
         /\ \A t \in Thread, q \in WaitQueue :
              /\ SleepsOn(t, q)' => SleepsOn(t, q)
              /\ Woken(t, q) => Woken(t, q)'
<1> DEFINE x == curr[c]
           op == IF sleep_result[x] = "ok" THEN "retry" ELSE "giveup"
<1>1. /\ mode[c] = "run" /\ pc[x].op = "sleep"
      /\ pc' = [pc EXCEPT ![x] = Run]
      /\ sleep_result' = [sleep_result EXCEPT ![x] = "ok"]
      /\ UNCHANGED state
  BY DEF SleepReturns, ContinueSleep, Holding, FinishSleep
<1>2. x \in Thread
  BY <1>1, Current DEF WaitsInv, SyncInv
<1>3. state[x] = "running"
  BY <1>1, <1>2 DEF WaitsInv, TimersInv, SInv, CpusAgree
<1>4. Waits(x) /\ at[x].op = "wait"
  BY <1>1, <1>2 DEF WaitsInv, Waits
<1>5. at' = [at EXCEPT ![x] = [at[x] EXCEPT !.op = op]]
  BY <1>4 DEF SleepReturns, Place
<1>6. Run.op = "run"
  BY DEF Run, At
<1>7. at \in [Thread -> PlaceType] /\ at[x] \in PlaceType
  BY <1>2 DEF WaitsInv, SyncInv, PlacesAgree
<1>8. op \in {"retry", "giveup"} /\ (sleep_result[x] = "ok" => op = "retry")
  OBVIOUS
<1>. HIDE DEF x, op
<1>9. /\ at'[x].op = op /\ at'[x].queue = at[x].queue /\ at'[x].obj = at[x].obj
      /\ \A t \in Thread : t # x => at'[t] = at[t]
  BY <1>2, <1>5, <1>7 DEF PlaceType
<1>10. /\ pc'[x].op = "run" /\ sleep_result'[x] = "ok"
       /\ \A t \in Thread : t # x =>
            pc'[t] = pc[t] /\ sleep_result'[t] = sleep_result[t]
  BY <1>1, <1>2, <1>6 DEF WaitsInv, TimersInv, SInv, TypeOK
<1>11. ASSUME NEW t \in Thread PROVE Waits(t)'
  <2>1. CASE t = x
    BY SMTT(30), <1>1, <1>3, <1>4, <1>8, <1>9, <1>10, <2>1 DEF Waits
  <2>2. CASE t # x
    BY SMTT(30), <1>1, <1>9, <1>10, <2>2 DEF WaitsInv, Waits
  <2>3. QED
    BY <2>1, <2>2
<1>12. ASSUME NEW t \in Thread, NEW q \in WaitQueue
       PROVE  /\ SleepsOn(t, q)' => SleepsOn(t, q)
              /\ Woken(t, q) => Woken(t, q)'
  <2>1. CASE t = x
    BY <1>1, <1>3, <1>4, <1>8, <1>9, <2>1 DEF SleepsOn, Woken
  <2>2. CASE t # x
    BY <1>1, <1>9, <1>10, <2>2 DEF SleepsOn, Woken, Asleep
  <2>3. QED
    BY <2>1, <2>2
<1>13. QED
  BY <1>1, <1>11, <1>12

LEMMA ReturnKeepsCounts ==
  ASSUME WaitsInv, SInv', CountsInv, NEW c \in Cpu, SleepReturns(c), UNCHANGED count
  PROVE  CountsInv'
<1>1. ASSUME NEW s \in Semaphore, waitq'[s] # <<>>
      PROVE  count'[s] <= Cardinality(Takers(s)')
  <2>1. s \in WaitQueue
    BY SemaphoreAssumption
  <2>2. SInv /\ count'[s] \in Nat /\ count'[s] <= count[s]
    BY SMT DEF CountsInv, WaitsInv, SyncInv
  <2>3. QED
    BY <1>1, <2>1, <2>2, ReturnEffect, TakersCover
<1>2. QED
  BY <1>1 DEF CountsInv, CountHasTakers, Takers

-----------------------------------------------------------------------------
(* One receiver and one sender.                                             *)

OneEach ==
  /\ \A a, b \in Receiver : a = b
  /\ \A a, b \in Sender : a = b

\* Nobody sleeps next to work.
Alone ==
  \A t \in Thread :
    /\ SleepsOn(t, receivers) => size = 0
    /\ SleepsOn(t, senders) => size = capacity

LEMMA OneSleeper ==
  ASSUME OneEach, WaitsInv, NEW q \in {receivers, senders},
         NEW t \in Thread, NEW u \in Thread, SleepsOn(t, q), SleepsOn(u, q)
  PROVE  t = u
<1>1. receivers \notin Semaphore /\ senders \notin Semaphore /\ receivers # senders
  BY MailboxAssumption, SyncAssumption
<1>2. ASSUME NEW v \in Thread, SleepsOn(v, q)
      PROVE  IF q = receivers THEN v \in Receiver ELSE v \in Sender
  BY SMTT(30), <1>1, <1>2 DEF WaitsInv, Waits, SleepsOn
<1>3. QED
  BY <1>2 DEF OneEach

LEMMA StirsKeepAlone ==
  ASSUME WaitsInv, Alone, Stirs, UNCHANGED size
  PROVE  Alone'
BY StirsKeepSleepers DEF Alone

LEMMA MailsKeepAlone ==
  ASSUME OneEach, WaitsInv, Alone, Mails
  PROVE  Alone'
<1>1. Stirs /\ size \in Nat /\ capacity \in Nat
  BY SMT, MailboxAssumption DEF Mails, WaitsInv, SyncInv, RingAgrees
<1>2. ASSUME NEW q \in {receivers, senders}, Roused(q), NEW t \in Thread, SleepsOn(t, q)'
      PROVE  FALSE
  <2>1. SleepsOn(t, q)
    BY <1>1, <1>2, StirsKeepSleepers
  <2>2. PICK u \in Thread : SleepsOn(u, q) /\ Wakes(u, "ok")
    BY <1>2, <2>1 DEF Roused
  <2>3. t # u
    BY <1>1, <1>2, <2>2, StirsKeepSleepers DEF Result
  <2>4. QED
    BY <2>1, <2>2, <2>3, OneSleeper
<1>3. ASSUME NEW t \in Thread
      PROVE  /\ SleepsOn(t, receivers)' => SleepsOn(t, receivers)
             /\ SleepsOn(t, senders)' => SleepsOn(t, senders)
  BY <1>1, StirsKeepSleepers
<1>4. CASE size < capacity /\ size' = size + 1 /\ (size = 0 => Roused(receivers))
  BY SMTT(30), <1>1, <1>2, <1>3, <1>4 DEF Alone
<1>5. CASE size > 0 /\ size' = size - 1 /\ (size = capacity => Roused(senders))
  BY SMTT(30), <1>1, <1>2, <1>3, <1>5 DEF Alone
<1>6. QED
  BY <1>4, <1>5 DEF Mails

LEMMA SleepKeepsAlone ==
  ASSUME WaitsInv, Alone, NEW c \in Cpu, NEW q \in WaitQueue, GoesToSleep(c, q)
  PROVE  Alone'
<1>1. UNCHANGED size
  BY SleepEffect
<1>2. PICK x \in Thread :
        /\ SleepsOn(x, q)'
        /\ \A t \in Thread : t # x => state'[t] = state[t] /\ pc'[t] = pc[t]
  BY SleepEffect
<1>3. (q = receivers => size = 0) /\ (q = senders => size = capacity)
  BY MailboxAssumption, SyncAssumption DEF GoesToSleep
<1>4. QED
  BY <1>1, <1>2, <1>3 DEF Alone, SleepsOn

-----------------------------------------------------------------------------
(* The two results.                                                         *)

TakersInv == WaitsInv /\ CountsInv

LEMMA TakersStep ==
  ASSUME TakersInv, SyncNext \/ UNCHANGED syncVars
  PROVE  TakersInv' /\ (OneEach /\ Alone => Alone')
<1>1. WaitsInv /\ CountsInv
  BY DEF TakersInv
<1>2. SyncInv' /\ TimersInv' /\ SInv'
  <2>1. SyncInv' /\ StepsAgree
    BY <1>1, SyncSteps, SyncAgrees DEF WaitsInv
  <2>2. QED
    BY <1>1, <2>1, TimersStep DEF WaitsInv, StepsAgree, SyncInv
<1>3. CASE Rests
  BY <1>1, <1>2, <1>3, RestsKeepCounts, StirsKeepAlone DEF Rests, TakersInv, WaitsInv
<1>4. ASSUME NEW c \in Cpu, SleepReturns(c), UNCHANGED <<count, size>>
      PROVE  TakersInv' /\ (OneEach /\ Alone => Alone')
  <2>1. (\A t \in Thread : Waits(t)') /\ CountsInv'
    BY <1>1, <1>2, <1>4, ReturnEffect, ReturnKeepsCounts
  <2>2. Alone => Alone'
    BY <1>1, <1>4, Queues, ReturnEffect DEF Alone
  <2>3. QED
    BY <1>2, <2>1, <2>2 DEF TakersInv, WaitsInv
<1>5. ASSUME NEW s \in Semaphore, Takes(s) \/ Gives(s)
      PROVE  TakersInv' /\ (OneEach /\ Alone => Alone')
  <2>1. Stirs /\ UNCHANGED size
    BY <1>5 DEF Takes, Gives, Roused, Stirs, Result
  <2>2. QED
    BY SMTT(30), <1>1, <1>2, <1>5, <2>1, TakesKeepCounts, GivesKeepCounts, StirsKeepAlone
       DEF TakersInv, WaitsInv
<1>6. CASE Mails
  BY <1>1, <1>2, <1>6, MailsKeepCounts, MailsKeepAlone DEF TakersInv, WaitsInv
<1>7. ASSUME NEW c \in Cpu, NEW q \in WaitQueue, GoesToSleep(c, q)
      PROVE  TakersInv' /\ (OneEach /\ Alone => Alone')
  BY <1>1, <1>2, <1>7, SleepKeepsCounts, SleepKeepsAlone DEF TakersInv, WaitsInv
<1>8. CASE UNCHANGED syncVars
  <2>1. Rests
    BY <1>1, <1>8, StillIsCalm
       DEF syncVars, spinVars, ringVars, Rests, Stirs, Bystanders
  <2>2. QED
    BY <1>3, <2>1
<1>9. ASSUME SpinSchedNext, UNCHANGED <<count, ringVars>>
      PROVE  TakersInv' /\ (OneEach /\ Alone => Alone')
  BY <1>1, <1>3, <1>4, <1>9, SpinSchedClass DEF ringVars
<1>10. ASSUME NEW c \in Cpu, SemOp(c), UNCHANGED ringVars
       PROVE  TakersInv' /\ (OneEach /\ Alone => Alone')
  BY SMTT(30), <1>1, <1>3, <1>5, <1>7, <1>10, Queues, SemClass DEF ringVars
<1>11. ASSUME NEW c \in Cpu, MailOp(c), UNCHANGED count
       PROVE  TakersInv' /\ (OneEach /\ Alone => Alone')
  BY <1>1, <1>3, <1>6, <1>7, <1>11, Queues, MailClass
<1>12. QED
  BY <1>8, <1>9, <1>10, <1>11 DEF SyncNext

LEMMA TakersStart ==
  ASSUME SyncInit
  PROVE  TakersInv /\ Alone
<1>1. SyncInv /\ TimersInv
  BY SyncStart, InitTimers DEF SyncInit
<1>2. /\ state = [t \in Thread |-> "suspended"] /\ pc = [t \in Thread |-> Run]
      /\ at = [t \in Thread |-> Outside] /\ waitq = [q \in Queue |-> <<>>]
      /\ count = [s \in Semaphore |-> 0]
  BY DEF SyncInit, Init, SpinInit, SemInit
<1>3. Run.op = "run" /\ Outside.op = "none"
  BY DEF Run, At, Outside, InObject
<1>4. \A t \in Thread : Waits(t)
  BY <1>2, <1>3 DEF Waits
<1>5. Semaphore \subseteq Queue
  BY SemaphoreAssumption DEF Queue
<1>6. CountsInv
  BY <1>2, <1>5 DEF CountsInv, CountHasTakers
<1>7. Alone
  BY <1>2 DEF Alone, SleepsOn
<1>8. QED
  BY <1>1, <1>4, <1>6, <1>7 DEF TakersInv, WaitsInv

\* No k_semaphore_put() is lost: while threads sleep on a semaphore, each unit of
\* its count has a woken thread of its own on the way to take it, for any number
\* of threads and semaphores and however the wakeups of semaphore.c race with
\* timeouts, interrupted sleeps and threads that take the count without waiting.
THEOREM SyncCountHasTakers == SyncSpec => []CountHasTakers
<1>1. SyncInit => TakersInv
  BY TakersStart
<1>2. TakersInv /\ [SyncNext]_syncVars => TakersInv'
  BY TakersStep
<1>3. TakersInv => CountHasTakers
  BY DEF TakersInv, CountsInv
<1>4. QED
  BY <1>1, <1>2, <1>3, PTL DEF SyncSpec

\* With one receiver and one sender (IRQ handlers may send as well), waking a
\* receiver only when the mailbox leaves "empty" and a sender only when it leaves
\* "full" is enough: nobody sleeps next to work (mailbox.c:184 and :248).
THEOREM SyncNobodyForgotten == OneEach => (SyncSpec => []NobodyForgotten)
<1>1. SUFFICES ASSUME OneEach PROVE SyncSpec => []NobodyForgotten
  OBVIOUS
<1>2. SyncInit => TakersInv /\ Alone
  BY TakersStart
<1>3. TakersInv /\ Alone /\ [SyncNext]_syncVars => TakersInv' /\ Alone'
  BY <1>1, TakersStep
<1>4. TakersInv /\ Alone => NobodyForgotten
  <2>1. SUFFICES ASSUME TakersInv, Alone PROVE NobodyForgotten
    OBVIOUS
  <2>2. /\ waitq[receivers] # <<>> => size = 0
        /\ waitq[senders] # <<>> => size = capacity
    BY <2>1, Queues, QueueSleepers DEF TakersInv, WaitsInv, SyncInv, Alone
  <2>3. size \in Nat /\ capacity \in Nat
    BY SMT, <2>1, MailboxAssumption DEF TakersInv, WaitsInv, SyncInv, RingAgrees
  <2>4. QED
    BY SMTT(30), <2>2, <2>3 DEF NobodyForgotten
<1>5. QED
  BY <1>2, <1>3, <1>4, PTL DEF SyncSpec
==============================================================================
