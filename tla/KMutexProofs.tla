---------------------------- MODULE KMutexProofs -----------------------------
(***************************************************************************)
(* Priority inheritance holds for any number of threads, CPUs, mutexes and  *)
(* priorities: the invariant IInv of module KMutex is inductive.            *)
(*                                                                         *)
(* The heart of the argument: an owner is never below the priority stored   *)
(* in its mutex (OwnersBound), and that priority is never below a waiter's, *)
(* except for the one mutex the pending call has still to visit             *)
(* (WaitersBound).  So the thread an unlock wakes does not outrank the      *)
(* caller, the unlock is not preempted, and the priorities it recalculates  *)
(* from the head of a sorted queue are right.                               *)
(***************************************************************************)
EXTENDS KMutex, SchedProofs

\* Zenon proves most leaves; those that need arithmetic, or more about functions
\* and records, cite SMT.
USE Zenon

-----------------------------------------------------------------------------
(* Steps of the scheduler alone, and interrupts off under its lock.  A step *)
(* is quiet if it leaves the mutexes alone, changes the priority of no      *)
(* thread that could own or await one, and takes threads off the queues of  *)
(* mutexes at most: such a step keeps IInv (QuietKeepsIInv).                *)

\* What a step of the scheduler alone leaves of the mutexes' business.
ThreadsQuiet ==
  /\ \A t \in Thread : pc'[t] = pc[t] \/ pc'[t].op \in {"run", "sleep", "wakeall"}
  /\ \A t \in Thread : priority'[t] = priority[t] \/ state[t] = "none"
  /\ \A t \in Thread : state'[t] = "mutex" => state[t] = "mutex" /\ pc'[t] = pc[t]
  /\ \A t \in Thread : state'[t] \in {"none", "destroyed"} =>
                         state[t] \in {"none", "destroyed"} \/ held[t] = {}

QueuesQuiet ==
  \A m \in Mutex : \/ waitq'[m] = waitq[m]
                   \/ \E u \in Thread : waitq'[m] = Remove(waitq[m], u)

CpusQuiet ==
  /\ \A c \in Cpu : irq'[c] => mode'[c] \in {"run", "idle", "free"}
  /\ \A c \in Cpu : drain'[c] # NoQueue =>
       sched_lock' = c /\ mode'[c] \in {"run", "idle", "free"}

\* The continuation of a thread that is in no call.
LEMMA RunOp == Run.op = "run"
BY DEF Run, At

NoLockPath == \A t \in Thread : ~LockPath(t)

\* The invariant of the scheduler is part of the invariant of the mutexes.
LEMMA IInvSInv == IInv => SInv /\ MutexTypeOK /\ TypeOK
BY DEF IInv, SInv, MutexTypeOK

\* Only the thread that holds the scheduler lock can be on its way to sleep on
\* a mutex.
LEMMA NoLockPathFacts ==
  ASSUME IInv, NEW c \in Cpu,
         \/ sched_lock = NoCpu
         \/ sched_lock = c /\ (drain[c] # NoQueue \/ curr[c] = NoThread)
         \/ sched_lock = c /\ pc[curr[c]].op \notin {"raise", "block"}
  PROVE  NoLockPath /\ visit = NoQueue
<1>1. NoLockPath
  BY SMT, SchedAssumption DEF NoLockPath, IInv, LockPathsLocked, LockPath
<1>2. visit = NoQueue
  BY <1>1 DEF NoLockPath, IInv, LockPathsLocked, LockPath
<1>3. QED
  BY <1>1, <1>2

\* While no thread is on such a path, every waiter is accounted for by the
\* priority stored in the mutex.
LEMMA WaitersCounted ==
  ASSUME IInv, visit = NoQueue, NEW w \in Thread, state[w] = "mutex" \/ LockPath(w)
  PROVE  pc[w].q \in Mutex /\ mpriority[pc[w].q] <= priority[w]
<1>1. pc[w].q \in Mutex
  BY DEF IInv, LockPathsLocked, LockPath
<1>2. pc[w].q # NoQueue
  BY <1>1, SchedAssumption DEF Queue
<1>3. QED
  BY <1>1, <1>2 DEF IInv, WaitersBound, RaisePending

\* A step of the scheduler that leaves the mutexes alone keeps IInv.
LEMMA QuietKeepsIInv ==
  ASSUME IInv, SInv', NoLockPath, UNCHANGED mutexVars, ThreadsQuiet, QueuesQuiet,
         CpusQuiet
  PROVE  IInv'
<1>1. MutexTypeOK' /\ TypeOK' /\ CpusAgree' /\ LinksAgree'
  BY DEF IInv, SInv, MutexTypeOK, mutexVars
<1>2. \A t \in Thread : ~LockPath(t)'
  BY DEF NoLockPath, LockPath, ThreadsQuiet
<1>3. visit = NoQueue /\ visit' = NoQueue
  BY DEF IInv, LockPathsLocked, NoLockPath, LockPath, mutexVars
<1>4. LockPathsLocked'
  <2>1. ~\E t \in Thread : pc'[t].op = "raise"
    BY <1>2 DEF LockPath
  <2>2. \A t \in Thread : pc'[t].op \in {"raise", "block", "lock"} => pc'[t].q \in Mutex
    BY DEF IInv, LockPathsLocked, ThreadsQuiet
  <2>3. \A t \in Thread : state'[t] = "mutex" => pc'[t].op = "lock"
    BY SMT DEF IInv, LockPathsLocked, ThreadsQuiet
  <2>4. QED
    BY <1>2, <1>3, <2>1, <2>2, <2>3 DEF LockPathsLocked, CpusQuiet
<1>5. UnlockIsAtomic'
  BY DEF IInv, UnlockIsAtomic, ThreadsQuiet
<1>6. OwnersHold'
  <2>1. UNCHANGED <<owner, held>>
    BY DEF mutexVars
  <2>2. SUFFICES ASSUME NEW m \in Mutex, owner[m] # NoThread
                 PROVE  m \in held[owner[m]] /\ state'[owner[m]] \notin {"none", "destroyed"}
    BY <2>1 DEF OwnersHold
  <2>3. owner[m] \in Thread
    BY <2>2 DEF IInv, MutexTypeOK
  <2>4. m \in held[owner[m]] /\ state[owner[m]] \notin {"none", "destroyed"}
    BY <2>2 DEF IInv, OwnersHold
  <2>5. QED
    BY <2>3, <2>4 DEF ThreadsQuiet
<1>7. OwnersBound'
  <2>1. UNCHANGED <<owner, mpriority>>
    BY DEF mutexVars
  <2>2. SUFFICES ASSUME NEW m \in Mutex, owner[m] # NoThread
                 PROVE  priority'[owner[m]] <= mpriority[m]
    BY <2>1 DEF OwnersBound
  <2>3. owner[m] \in Thread
    BY <2>2 DEF IInv, MutexTypeOK
  <2>4. priority[owner[m]] <= mpriority[m] /\ state[owner[m]] # "none"
    BY <2>2 DEF IInv, OwnersHold, OwnersBound
  <2>5. QED
    BY <2>3, <2>4 DEF ThreadsQuiet
<1>8. WaitersBound'
  <2>1. UNCHANGED mpriority
    BY DEF mutexVars
  <2>2. SUFFICES ASSUME NEW w \in Thread, state'[w] = "mutex"
                 PROVE  mpriority[pc'[w].q] <= priority'[w]
    BY <1>2, <2>1 DEF WaitersBound
  <2>3. state[w] = "mutex" /\ pc'[w] = pc[w] /\ priority'[w] = priority[w]
    BY <2>2 DEF ThreadsQuiet
  <2>4. mpriority[pc[w].q] <= priority[w]
    BY <1>3, <2>3, WaitersCounted
  <2>5. QED
    BY <2>3, <2>4
<1>9. QueuesSorted'
  <2>1. SUFFICES ASSUME NEW m \in Mutex PROVE Sorted(waitq'[m], priority')
    BY DEF QueuesSorted
  <2>2. m \in Queue /\ SleepState(m) = "mutex"
    BY DEF Queue, SleepState
  <2>3. Sorted(waitq[m], priority) /\ waitq[m] \in Seq(Thread) /\ IsInjective(waitq[m])
    BY <2>2 DEF IInv, QueuesSorted, MutexTypeOK, TypeOK, LinksAgree, WaitLinks
  <2>4. Sorted(waitq'[m], priority) /\ waitq'[m] \in Seq(Thread)
    <3>1. CASE waitq'[m] = waitq[m]
      BY <2>3, <3>1
    <3>2. ASSUME NEW u \in Thread, waitq'[m] = Remove(waitq[m], u)
          PROVE  Sorted(waitq'[m], priority) /\ waitq'[m] \in Seq(Thread)
      BY SMT, <2>3, <3>2, RemoveFacts
    <3>3. QED
      BY <3>1, <3>2 DEF QueuesQuiet
  <2>5. \A x \in Range(waitq'[m]) : priority'[x] = priority[x]
    <3>1. Range(waitq'[m]) = {x \in Thread : state'[x] = "mutex" /\ pc'[x].q = m}
      BY <1>1, <2>2 DEF LinksAgree, WaitLinks
    <3>2. QED
      BY <3>1 DEF ThreadsQuiet
  <2>6. QED
    BY <2>4, <2>5, SortedSame
<1>10. QED
  BY <1>1, <1>4, <1>5, <1>6, <1>7, <1>8, <1>9 DEF IInv

\* No wakeup loop is under way on any CPU.
NoDrain == \A d \in Cpu : drain[d] = NoQueue

\* A CPU that holds the scheduler lock outside a wakeup loop, and a free lock,
\* mean that no CPU is inside one.
LEMMA NoDrainFacts ==
  ASSUME IInv, NEW c \in Cpu,
         \/ sched_lock = NoCpu
         \/ sched_lock = c /\ (drain[c] = NoQueue \/ mode[c] \in {"loop", "reap", "boot"})
  PROVE  NoDrain
BY SchedAssumption DEF NoDrain, IInv, LockPathsLocked

\* The scheduler loop.
LEMMA LoopKeepsIInv ==
  ASSUME IInv, NEW c \in Cpu, UNCHANGED mutexVars,
         \/ SchedStart(c) \/ Reaped(c) \/ Idle(c) \/ IdleWake(c) \/ ContinueRun(c)
  PROVE  IInv'
<1>1. SInv'
  BY IInvSInv, QuietSteps
<1>2. NoLockPath /\ NoDrain
  <2>1. mode[c] # "run" => curr[c] = NoThread
    BY DEF IInv, CpusAgree
  <2>2. QED
    BY <2>1, NoLockPathFacts, NoDrainFacts
       DEF SchedStart, Reaped, Idle, IdleWake, ContinueRun, Holding, Unlocked
<1>3. UNCHANGED <<state, priority, pc, waitq, irq, drain>>
  BY DEF SchedStart, Reaped, Idle, IdleWake, ContinueRun, threadVars, queueVars
<1>4. ThreadsQuiet /\ QueuesQuiet
  BY <1>3 DEF ThreadsQuiet, QueuesQuiet
<1>5. CpusQuiet
  <2>1. \A d \in Cpu : drain'[d] = NoQueue
    BY <1>2, <1>3 DEF NoDrain
  <2>2. \A d \in Cpu : irq[d] => mode'[d] \in {"run", "idle", "free"}
    BY ZenonT(30), IInvSInv DEF IInv, LockPathsLocked, TypeOK, SchedStart, Reaped, Idle, IdleWake,
                    ContinueRun
  <2>3. QED
    BY <1>3, <2>1, <2>2 DEF CpusQuiet
<1>6. QED
  BY <1>1, <1>2, <1>4, <1>5, QuietKeepsIInv

\* Dispatching a thread and reaping one.
LEMMA DispatchKeepsIInv ==
  ASSUME IInv, NEW c \in Cpu, UNCHANGED mutexVars, Dispatch(c) \/ Reap(c)
  PROVE  IInv'
<1>1. SInv'
  BY IInvSInv, DispatchKeepsSInv, ReapKeepsSInv
<1>2. NoLockPath /\ NoDrain
  <2>1. mode[c] # "run" => curr[c] = NoThread
    BY DEF IInv, CpusAgree
  <2>2. QED
    BY <2>1, NoLockPathFacts, NoDrainFacts DEF Dispatch, Reap
<1>3. UNCHANGED <<priority, pc, waitq, irq, drain>>
  BY DEF Dispatch, Reap
<1>4. PICK t \in Thread, s \in {"running", "none"} :
        /\ state' = [state EXCEPT ![t] = s]
        /\ s = "none" => state[t] = "destroyed"
  <2>1. CASE Dispatch(c)
    <3>1. PICK p \in Priority :
            /\ Ready(p)
            /\ state' = [state EXCEPT ![Head(sched_queue[p])] = "running"]
      BY <2>1 DEF Dispatch
    <3>2. sched_queue[p] \in Seq(Thread) /\ sched_queue[p] # <<>>
      BY <3>1, IInvSInv DEF TypeOK, Ready
    <3>3. Head(sched_queue[p]) \in Thread
      BY <3>2, HeadTailFacts, RangeFacts
    <3>4. QED
      BY <3>1, <3>3
  <2>2. CASE Reap(c)
    <3>1. /\ state' = [state EXCEPT ![Head(threads_to_destroy)] = "none"]
          /\ threads_to_destroy \in Seq(Thread) /\ threads_to_destroy # <<>>
          /\ Range(threads_to_destroy) = {x \in Thread : state[x] = "destroyed"}
      BY <2>2, IInvSInv DEF Reap, TypeOK, IInv, LinksAgree, DestroyLinks
    <3>2. Head(threads_to_destroy) \in Range(threads_to_destroy)
      BY <3>1, HeadTailFacts
    <3>3. QED
      BY <3>1, <3>2
  <2>3. QED
    BY <2>1, <2>2
<1>5. ThreadsQuiet /\ QueuesQuiet
  <2>1. \A x \in Thread : \/ state'[x] = state[x]
                          \/ state'[x] = "running"
                          \/ state'[x] = "none" /\ state[x] = "destroyed"
    BY <1>4, IInvSInv DEF TypeOK
  <2>2. QED
    BY <1>3, <2>1 DEF ThreadsQuiet, QueuesQuiet
<1>6. CpusQuiet
  <2>1. \A d \in Cpu : drain'[d] = NoQueue
    BY <1>2, <1>3 DEF NoDrain
  <2>2. \/ mode' = [mode EXCEPT ![c] = "run"]
        \/ mode' = [mode EXCEPT ![c] = "free"]
    BY DEF Dispatch, Reap
  <2>3. mode \in [Cpu -> Mode]
    BY IInvSInv DEF TypeOK
  <2>4. \A d \in Cpu : irq[d] => mode[d] \in {"run", "idle", "free"}
    BY DEF IInv, LockPathsLocked
  <2>5. \A d \in Cpu : irq[d] => mode'[d] \in {"run", "idle", "free"}
    BY <2>2, <2>3, <2>4
  <2>6. QED
    BY <1>3, <2>1, <2>5 DEF CpusQuiet
<1>7. QED
  BY <1>1, <1>2, <1>5, <1>6, QuietKeepsIInv

\* The thread that leaves its CPU, on any path but that of a mutex.
LEMMA LeaveKeepsIInv ==
  ASSUME IInv, SInv', NEW c \in Cpu, UNCHANGED mutexVars, sched_lock = NoCpu,
         mode[c] = "run", NEW s \in State, s \notin {"mutex", "none", "running"},
         NEW k \in PcType, k.op \in {"run", "sleep", "wakeall"}, Leave(c, s, k),
         s = "destroyed" => held[curr[c]] = {},
         \A m \in Mutex : waitq'[m] = waitq[m],
         UNCHANGED <<priority, drain>>,
         \/ irq' = [irq EXCEPT ![c] = FALSE]
         \/ irq' = irq /\ ~irq[c]
  PROVE  IInv'
<1>1. NoLockPath /\ NoDrain
  BY NoLockPathFacts, NoDrainFacts
<1>2. /\ curr[c] \in Thread /\ state[curr[c]] = "running"
      /\ state' = [state EXCEPT ![curr[c]] = s]
      /\ pc' = [pc EXCEPT ![curr[c]] = k]
  BY SMT, IInvSInv, LeaveFacts
<1>3. \A x \in Thread : \/ state'[x] = state[x] /\ pc'[x] = pc[x]
                        \/ state'[x] = s /\ pc'[x] = k /\ x = curr[c]
  BY <1>2, IInvSInv DEF TypeOK
<1>4. ThreadsQuiet /\ QueuesQuiet
  BY <1>3 DEF ThreadsQuiet, QueuesQuiet
<1>5. CpusQuiet
  <2>1. \A d \in Cpu : drain'[d] = NoQueue
    BY <1>1 DEF NoDrain
  <2>2. mode' = [mode EXCEPT ![c] = "loop"]
    BY DEF Leave, SwitchOut
  <2>3. \A d \in Cpu : irq'[d] => d # c /\ irq[d]
    BY IInvSInv DEF TypeOK
  <2>4. \A d \in Cpu : irq'[d] => mode'[d] \in {"run", "idle", "free"}
    BY <2>2, <2>3, IInvSInv DEF IInv, LockPathsLocked, TypeOK
  <2>5. QED
    BY <2>1, <2>4 DEF CpusQuiet
<1>6. QED
  BY <1>1, <1>4, <1>5, QuietKeepsIInv

\* Yielding, suspending, sleeping on a wait queue, exiting.
LEMMA LeaveSteps ==
  ASSUME IInv, NEW c \in Cpu, UNCHANGED mutexVars,
         \/ ThreadYield(c) \/ ThreadSuspend(c) \/ Exit(c)
         \/ \E q \in WaitQueue, timed \in BOOLEAN : Sleep(c, q, timed)
  PROVE  IInv'
<1>1. Run \in PcType /\ Run.op = "run"
  BY DEF Run, At, PcType, Op
<1>2. {"ready", "suspended", "sleep", "destroyed"} \subseteq State
  BY DEF State
<1>3. CASE ThreadYield(c)
  <2>1. SInv'
    BY <1>3, IInvSInv, SwitchSteps
  <2>2. /\ sched_lock = NoCpu /\ mode[c] = "run" /\ ~irq[c] /\ Leave(c, "ready", Run)
        /\ UNCHANGED <<priority, waitq, irq, drain>>
    BY <1>3 DEF ThreadYield, InThread, Unlocked
  <2>3. QED
    BY <1>1, <1>2, <2>1, <2>2, LeaveKeepsIInv
<1>4. CASE ThreadSuspend(c)
  <2>1. SInv'
    BY <1>4, IInvSInv, SuspendKeepsSInv
  <2>2. /\ sched_lock = NoCpu /\ mode[c] = "run" /\ ~irq[c] /\ Leave(c, "suspended", Run)
        /\ UNCHANGED <<priority, waitq, irq, drain>>
    BY <1>4 DEF ThreadSuspend, InThread, Unlocked, queueVars
  <2>3. QED
    BY <1>1, <1>2, <2>1, <2>2, LeaveKeepsIInv
<1>5. CASE Exit(c)
  <2>1. SInv'
    BY <1>5, IInvSInv, ExitKeepsSInv DEF Exit
  <2>2. /\ sched_lock = NoCpu /\ mode[c] = "run" /\ ~irq[c] /\ Leave(c, "destroyed", Run)
        /\ held[curr[c]] = {}
        /\ UNCHANGED <<priority, waitq, irq, drain>>
    BY <1>5 DEF Exit, ThreadExit, InThread, Unlocked
  <2>3. QED
    BY <1>1, <1>2, <2>1, <2>2, LeaveKeepsIInv
<1>6. ASSUME NEW q \in WaitQueue, NEW timed \in BOOLEAN, Sleep(c, q, timed)
      PROVE  IInv'
  <2> DEFINE k == At("sleep", q, timed)
  <2>1. SInv'
    BY <1>6, IInvSInv, SwitchSteps
  <2>2. /\ sched_lock = NoCpu /\ mode[c] = "run" /\ ~irq[c] /\ Leave(c, "sleep", k)
        /\ waitq' = [waitq EXCEPT ![q] = Add(@, priority, curr[c])]
        /\ UNCHANGED <<priority, irq, drain>>
    BY <1>6 DEF Sleep, InThread, Unlocked
  <2>3. k \in PcType /\ k.op = "sleep"
    BY DEF At, PcType, Op, Queue
  <2>4. waitq \in [Queue -> Seq(Thread)]
    BY IInvSInv DEF TypeOK
  <2>5. \A m \in Mutex : m \in Queue /\ m # q
    BY SchedAssumption DEF Queue
  <2>6. \A m \in Mutex : waitq'[m] = waitq[m]
    BY <2>2, <2>4, <2>5
  <2>. HIDE DEF k
  <2>7. QED
    BY <1>2, <2>1, <2>2, <2>3, <2>6, LeaveKeepsIInv
<1>7. QED
  BY <1>3, <1>4, <1>5, <1>6

\* The end of an interrupt.
LEMMA IrqEndKeepsIInv ==
  ASSUME IInv, NEW c \in Cpu, UNCHANGED mutexVars, IrqEnd(c)
  PROVE  IInv'
<1>1. SInv'
  BY IInvSInv, SwitchSteps
<1>2. /\ sched_lock = NoCpu /\ irq' = [irq EXCEPT ![c] = FALSE]
      /\ UNCHANGED <<priority, waitq, drain>>
  BY DEF IrqEnd, InIrq, Unlocked
<1>3. CASE curr[c] # NoThread /\ resched[curr[c]]
  <2>1. Leave(c, "ready", Run)
    BY <1>3 DEF IrqEnd
  <2>2. mode[c] = "run"
    BY <1>3 DEF IInv, CpusAgree
  <2>3. Run \in PcType /\ Run.op = "run" /\ "ready" \in State
    BY DEF Run, At, PcType, Op, State
  <2>4. QED
    BY <1>1, <1>2, <2>1, <2>2, <2>3, LeaveKeepsIInv
<1>4. CASE ~(curr[c] # NoThread /\ resched[curr[c]])
  <2>1. UNCHANGED <<state, pc, mode, curr, sched_lock>>
    BY <1>4 DEF IrqEnd
  <2>2. NoLockPath /\ NoDrain
    BY <1>2, NoLockPathFacts, NoDrainFacts
  <2>3. ThreadsQuiet /\ QueuesQuiet
    BY <1>2, <2>1 DEF ThreadsQuiet, QueuesQuiet
  <2>4. \A d \in Cpu : irq'[d] => irq[d]
    BY <1>2, IInvSInv DEF TypeOK
  <2>5. CpusQuiet
    BY <1>2, <2>1, <2>2, <2>4 DEF CpusQuiet, NoDrain, IInv, LockPathsLocked
  <2>6. QED
    BY <1>1, <2>2, <2>3, <2>5, QuietKeepsIInv
<1>5. QED
  BY <1>3, <1>4

\* A thread is made ready, by a wakeup, a timeout, an interruption or a resume.
LEMMA ReadyKeepsIInv ==
  ASSUME IInv, SInv', NEW c \in Cpu, UNCHANGED mutexVars, NoLockPath,
         NEW u \in Thread, NEW k \in PcType, k.op \in {"run", "wakeall"},
         NEW hold \in Cpu \cup {NoCpu}, EnqueueAndMayYield(c, u, k, hold),
         waitq' = waitq \/ waitq' = Unlink(u),
         UNCHANGED <<priority, irq>>,
         \A d \in Cpu : drain'[d] # NoQueue => d = c /\ hold = c /\ ~Preempts(c, u)
                                               /\ mode[c] \in {"run", "idle", "free"}
  PROVE  IInv'
<1>1. curr[c] \in Thread \cup {NoThread} /\ state \in [Thread -> State]
      /\ pc \in [Thread -> PcType] /\ mode \in [Cpu -> Mode]
  BY IInvSInv DEF TypeOK, PcType
<1>2. ThreadsQuiet
  <2>1. \A x \in Thread : \/ state'[x] = state[x] /\ pc'[x] = pc[x]
                          \/ state'[x] = "ready" /\ (pc'[x] = pc[x] \/ pc'[x] = k)
    BY <1>1 DEF EnqueueAndMayYield
  <2>2. QED
    BY <2>1 DEF ThreadsQuiet
<1>3. QueuesQuiet
  <2>1. \A m \in Mutex : m \in Queue
    BY DEF Queue
  <2>2. QED
    BY <2>1 DEF QueuesQuiet, Unlink
<1>4. CpusQuiet
  <2>1. \A d \in Cpu : irq[d] => mode[d] \in {"run", "idle", "free"}
    BY DEF IInv, LockPathsLocked
  <2>2. CASE Preempts(c, u)
    <3>1. mode' = [mode EXCEPT ![c] = "loop"] /\ ~irq[c]
      BY <2>2 DEF EnqueueAndMayYield, SwitchOut, Preempts
    <3>2. \A d \in Cpu : irq'[d] => mode'[d] \in {"run", "idle", "free"}
      BY <1>1, <2>1, <3>1
    <3>3. QED
      BY <2>2, <3>2 DEF CpusQuiet
  <2>3. CASE ~Preempts(c, u)
    <3>1. mode' = mode /\ sched_lock' = hold
      BY <2>3 DEF EnqueueAndMayYield
    <3>2. QED
      BY <2>1, <3>1 DEF CpusQuiet
  <2>4. QED
    BY <2>2, <2>3
<1>5. QED
  BY <1>2, <1>3, <1>4, QuietKeepsIInv

\* Every step that makes a thread ready.
LEMMA ReadySteps ==
  ASSUME IInv, NEW c \in Cpu, UNCHANGED mutexVars,
         \/ \E u \in Thread : \/ BootResume(u) \/ ThreadResume(c, u)
                              \/ ThreadInterrupt(c, u) \/ IrqTimeout(c, u)
         \/ \E q \in WaitQueue : WakeupOne(c, q)
         \/ WakeupAllNext(c)
  PROVE  IInv'
<1>1. Run \in PcType /\ Run.op = "run" /\ NoCpu \in Cpu \cup {NoCpu}
  BY DEF Run, At, PcType, Op
<1>2. ASSUME NEW d \in Cpu, NEW u \in Thread, SInv', sched_lock = NoCpu,
             EnqueueAndMayYield(d, u, Run, NoCpu),
             waitq' = waitq \/ waitq' = Unlink(u),
             UNCHANGED <<priority, irq, drain>>
      PROVE  IInv'
  <2>1. NoLockPath /\ NoDrain
    BY <1>2, NoLockPathFacts, NoDrainFacts
  <2>2. \A e \in Cpu : drain'[e] = NoQueue
    BY <1>2, <2>1 DEF NoDrain
  <2>3. QED
    BY <1>1, <1>2, <2>1, <2>2, ReadyKeepsIInv
<1>3. ASSUME NEW u \in Thread, BootResume(u) PROVE IInv'
  <2>1. SInv'
    BY <1>3, IInvSInv, SwitchSteps
  <2>2. /\ sched_lock = NoCpu /\ EnqueueAndMayYield(BootCpu, u, Run, NoCpu)
        /\ UNCHANGED <<priority, waitq, irq, drain>>
    BY <1>3 DEF BootResume, Unlocked
  <2>3. QED
    BY <1>2, <2>1, <2>2, SchedAssumption
<1>4. ASSUME NEW u \in Thread, ThreadResume(c, u) PROVE IInv'
  <2>1. SInv'
    BY <1>4, IInvSInv, SwitchSteps
  <2>2. /\ sched_lock = NoCpu /\ EnqueueAndMayYield(c, u, Run, NoCpu)
        /\ UNCHANGED <<priority, waitq, irq, drain>>
    BY <1>4 DEF ThreadResume, Active, InThread, InIrq, Unlocked
  <2>3. QED
    BY <1>2, <2>1, <2>2
<1>5. ASSUME NEW u \in Thread, ThreadInterrupt(c, u) PROVE IInv'
  <2>1. SInv'
    BY <1>5, IInvSInv, WakeupSteps
  <2>2. /\ sched_lock = NoCpu /\ EnqueueAndMayYield(c, u, Run, NoCpu)
        /\ waitq' = Unlink(u)
        /\ UNCHANGED <<priority, irq, drain>>
    BY <1>5 DEF ThreadInterrupt, ResumeSleeper, Active, InThread, InIrq, Unlocked
  <2>3. QED
    BY <1>2, <2>1, <2>2
<1>6. ASSUME NEW u \in Thread, IrqTimeout(c, u) PROVE IInv'
  <2>1. SInv'
    BY <1>6, IInvSInv, WakeupSteps
  <2>2. sched_lock = NoCpu /\ UNCHANGED <<priority, irq, drain>>
    BY <1>6 DEF IrqTimeout, InIrq, Unlocked
  <2>3. CASE Asleep(u)
    <3>1. EnqueueAndMayYield(c, u, Run, NoCpu) /\ waitq' = Unlink(u)
      BY <1>6, <2>3 DEF IrqTimeout, ResumeSleeper
    <3>2. QED
      BY <1>2, <2>1, <2>2, <3>1
  <2>4. CASE ~Asleep(u)
    <3>1. UNCHANGED <<state, pc, waitq, mode, sched_lock>>
      BY <1>6, <2>4 DEF IrqTimeout
    <3>2. NoLockPath
      BY <2>2, NoLockPathFacts
    <3>3. ThreadsQuiet /\ QueuesQuiet /\ CpusQuiet
      BY <2>2, <3>1 DEF ThreadsQuiet, QueuesQuiet, CpusQuiet, IInv, LockPathsLocked
    <3>4. QED
      BY <2>1, <3>2, <3>3, QuietKeepsIInv
  <2>5. QED
    BY <2>3, <2>4
<1>7. ASSUME NEW q \in WaitQueue, WakeupOne(c, q) PROVE IInv'
  <2>1. SInv'
    BY <1>7, IInvSInv, WakeupSteps
  <2>2. /\ sched_lock = NoCpu /\ waitq[q] # <<>> /\ q \in Queue
        /\ EnqueueAndMayYield(c, Head(waitq[q]), Run, NoCpu)
        /\ waitq' = Unlink(Head(waitq[q]))
        /\ UNCHANGED <<priority, irq, drain>>
    BY <1>7 DEF WakeupOne, ResumeSleeper, Active, InThread, InIrq, Unlocked, Queue
  <2>3. Head(waitq[q]) \in Thread
    BY <2>2, IInvSInv, HeadAsleep
  <2>4. QED
    BY <1>2, <2>1, <2>2, <2>3
<1>8. ASSUME WakeupAllNext(c) PROVE IInv'
  <2> DEFINE q == drain[c]
             u == Head(waitq[q])
             k == At("wakeall", q, FALSE)
  <2>1. SInv'
    BY <1>8, IInvSInv, WakeupSteps
  <2>2. /\ q # NoQueue /\ waitq[q] # <<>>
        /\ EnqueueAndMayYield(c, u, k, c) /\ waitq' = Unlink(u)
        /\ drain' = IF Preempts(c, u) THEN [drain EXCEPT ![c] = NoQueue] ELSE drain
        /\ UNCHANGED <<priority, irq>>
    BY <1>8 DEF WakeupAllNext, ResumeSleeper
  <2>3. drain \in [Cpu -> Queue \cup {NoQueue}]
    BY IInvSInv DEF TypeOK
  <2>4. q \in Queue /\ k \in PcType /\ k.op = "wakeall"
    BY <2>2, <2>3 DEF At, PcType, Op
  <2>5. u \in Thread
    BY <2>2, <2>4, IInvSInv, HeadAsleep
  <2>6. /\ sched_lock = c /\ mode[c] \in {"run", "idle", "free"}
        /\ \A d \in Cpu : drain[d] # NoQueue => d = c
    BY <2>2 DEF IInv, LockPathsLocked
  <2>7. NoLockPath
    BY <2>2, <2>6, NoLockPathFacts
  <2>. HIDE DEF u, k
  <2>8. \A d \in Cpu : drain'[d] # NoQueue => d = c /\ ~Preempts(c, u)
    <3>1. CASE Preempts(c, u)
      BY <2>2, <2>3, <2>6, <3>1
    <3>2. CASE ~Preempts(c, u)
      BY <2>2, <2>6, <3>2
    <3>3. QED
      BY <3>1, <3>2
  <2>9. QED
    BY <2>1, <2>2, <2>4, <2>5, <2>6, <2>7, <2>8, ReadyKeepsIInv
<1>9. QED
  BY <1>3, <1>4, <1>5, <1>6, <1>7, <1>8

\* The steps that concern one thread or CPU and no list.
LEMMA LocalSteps ==
  ASSUME IInv, NEW c \in Cpu, UNCHANGED mutexVars,
         \/ \E u \in Thread : ThreadCreate(c, u)
         \/ \E q \in WaitQueue : WakeupAll(c, q)
         \/ WakeupAllDone(c) \/ ContinueWakeupAll(c) \/ ContinueSleep(c) \/ IrqTick(c)
  PROVE  IInv'
<1>1. SInv'
  BY IInvSInv, CreateKeepsSInv, QuietSteps
<1>2. NoLockPath
  BY NoLockPathFacts DEF ThreadCreate, WakeupAll, WakeupAllDone, ContinueWakeupAll,
       ContinueSleep, IrqTick, InThread, InIrq, Active, Unlocked, Holding, IInv,
       LockPathsLocked
<1>3. UNCHANGED <<waitq, irq, mode>>
  BY DEF ThreadCreate, WakeupAll, WakeupAllDone, ContinueWakeupAll, ContinueSleep,
         IrqTick, queueVars, cpuVars
<1>4. ThreadsQuiet
  <2>1. ASSUME NEW u \in Thread, ThreadCreate(c, u) PROVE ThreadsQuiet
    <3>1. /\ state' = [state EXCEPT ![u] = "suspended"] /\ state[u] = "none"
          /\ priority' = [priority EXCEPT ![u] = SavedPriority[u]]
          /\ pc' = [pc EXCEPT ![u] = Run]
      BY <2>1 DEF ThreadCreate
    <3>2. \A x \in Thread :
            \/ x = u /\ state'[x] = "suspended" /\ pc'[x] = Run
            \/ state'[x] = state[x] /\ pc'[x] = pc[x] /\ priority'[x] = priority[x]
      BY <3>1, IInvSInv DEF TypeOK
    <3>3. \A x \in Thread : pc'[x] = pc[x] \/ pc'[x].op = "run"
      BY <3>2, RunOp
    <3>4. QED
      BY <3>1, <3>2, <3>3 DEF ThreadsQuiet
  <2>2. CASE WakeupAllDone(c) \/ IrqTick(c) \/ \E q \in WaitQueue : WakeupAll(c, q)
    BY <2>2 DEF ThreadsQuiet, WakeupAllDone, IrqTick, WakeupAll, threadVars
  <2>3. CASE ContinueWakeupAll(c) \/ ContinueSleep(c)
    <3>1. UNCHANGED <<state, priority>> /\ pc' = [pc EXCEPT ![curr[c]] = Run]
      BY <2>3 DEF ContinueWakeupAll, ContinueSleep
    <3>2. curr[c] \in Thread /\ state[curr[c]] = "running"
      BY <2>3, IInvSInv, CurrentRuns DEF ContinueWakeupAll, ContinueSleep, Holding
    <3>3. \A x \in Thread : \/ x = curr[c] /\ pc'[x] = Run
                            \/ pc'[x] = pc[x]
      BY <3>1, <3>2, IInvSInv DEF TypeOK
    <3>4. \A x \in Thread : pc'[x] = pc[x] \/ pc'[x].op = "run"
      BY <3>3, RunOp
    <3>5. \A x \in Thread : state[x] = "mutex" => pc'[x] = pc[x]
      BY <3>2, <3>3
    <3>6. QED
      BY <3>1, <3>4, <3>5 DEF ThreadsQuiet
  <2>4. QED
    BY <2>1, <2>2, <2>3
<1>5. QueuesQuiet
  BY <1>3 DEF QueuesQuiet
<1>6. CpusQuiet
  <2>1. \A d \in Cpu : irq[d] => mode[d] \in {"run", "idle", "free"}
    BY DEF IInv, LockPathsLocked
  <2>2. \A d \in Cpu : drain'[d] # NoQueue =>
          sched_lock' = d /\ mode[d] \in {"run", "idle", "free"}
    <3>1. drain \in [Cpu -> Queue \cup {NoQueue}]
      BY IInvSInv DEF TypeOK
    <3>2. CASE (\E u \in Thread : ThreadCreate(c, u)) \/ ContinueSleep(c) \/ IrqTick(c)
      <4>1. drain' = drain /\ NoDrain
        BY <3>2, NoDrainFacts DEF ThreadCreate, ContinueSleep, IrqTick, InThread, InIrq,
             Unlocked, Holding, cpuVars
      <4>2. QED
        BY <4>1 DEF NoDrain
    <3>3. CASE \E q \in WaitQueue : WakeupAll(c, q)
      <4>1. /\ sched_lock = NoCpu /\ sched_lock' = c /\ (mode[c] = "run" \/ irq[c])
            /\ \E q \in WaitQueue : drain' = [drain EXCEPT ![c] = q]
        BY <3>3 DEF WakeupAll, Active, InThread, InIrq, Unlocked
      <4>2. NoDrain
        BY <4>1, NoDrainFacts
      <4>3. QED
        BY <2>1, <3>1, <4>1, <4>2 DEF NoDrain
    <3>4. CASE WakeupAllDone(c)
      <4>1. drain[c] # NoQueue /\ drain' = [drain EXCEPT ![c] = NoQueue]
        BY <3>4 DEF WakeupAllDone
      <4>2. \A d \in Cpu : drain[d] # NoQueue => d = c
        BY <4>1 DEF IInv, LockPathsLocked
      <4>3. QED
        BY <3>1, <4>1, <4>2
    <3>5. CASE ContinueWakeupAll(c)
      <4>1. /\ sched_lock = c /\ sched_lock' = c /\ mode[c] = "run" /\ drain[c] = NoQueue
            /\ drain' = [drain EXCEPT ![c] = pc[curr[c]].q]
        BY <3>5 DEF ContinueWakeupAll, Holding
      <4>2. NoDrain
        BY <4>1, NoDrainFacts
      <4>3. QED
        BY <3>1, <4>1, <4>2 DEF NoDrain
    <3>6. QED
      BY <3>2, <3>3, <3>4, <3>5
  <2>3. QED
    BY <1>3, <2>1, <2>2 DEF CpusQuiet
<1>7. QED
  BY <1>1, <1>2, <1>4, <1>5, <1>6, QuietKeepsIInv

\* An interrupt can arrive on one CPU while a thread on another one is on its
\* way to sleep on a mutex.
LEMMA IrqBeginKeepsIInv ==
  ASSUME IInv, NEW c \in Cpu, UNCHANGED mutexVars, IrqBegin(c)
  PROVE  IInv'
<1>1. SInv'
  BY IInvSInv, QuietSteps
<1>2. /\ mode[c] \in {"run", "idle", "free"} /\ irq' = [irq EXCEPT ![c] = TRUE]
      /\ UNCHANGED <<state, priority, pc, waitq, mode, curr, drain, sched_lock>>
  BY DEF IrqBegin, threadVars, queueVars
<1>3. UNCHANGED <<owner, mpriority, live, visit, held, panic>>
  BY DEF mutexVars
<1>4. MutexTypeOK' /\ CpusAgree' /\ LinksAgree'
  BY <1>1, <1>3 DEF IInv, SInv, MutexTypeOK
<1>5. \A d \in Cpu : irq'[d] => mode[d] \in {"run", "idle", "free"}
  BY <1>2, IInvSInv DEF IInv, LockPathsLocked, TypeOK
<1>6. LockPathsLocked'
  BY <1>2, <1>3, <1>5 DEF IInv, LockPathsLocked, LockPath
<1>7. OwnersHold' /\ OwnersBound' /\ QueuesSorted' /\ UnlockIsAtomic'
  BY <1>2, <1>3 DEF IInv, OwnersHold, OwnersBound, QueuesSorted, UnlockIsAtomic
<1>8. WaitersBound'
  BY <1>2, <1>3 DEF IInv, WaitersBound, RaisePending, LockPath
<1>9. QED
  BY <1>4, <1>6, <1>7, <1>8 DEF IInv

\* Every step of the scheduler alone.
LEMMA SchedStepIInv ==
  ASSUME IInv, UNCHANGED mutexVars, SchedNext \/ \E c \in Cpu : Exit(c)
  PROVE  IInv'
<1>1. CASE \E t \in Thread : BootResume(t)
  BY <1>1, ReadySteps, SchedAssumption
<1>2. ASSUME NEW c \in Cpu, SchedLoop(c) PROVE IInv'
  BY <1>2, LoopKeepsIInv, DispatchKeepsIInv, LocalSteps, ReadySteps DEF SchedLoop
<1>3. ASSUME NEW c \in Cpu, ThreadOp(c) PROVE IInv'
  BY <1>3, LeaveSteps, ReadySteps, LocalSteps DEF ThreadOp
<1>4. ASSUME NEW c \in Cpu, Interrupt(c) PROVE IInv'
  BY <1>4, IrqBeginKeepsIInv, LocalSteps, IrqEndKeepsIInv, ReadySteps DEF Interrupt
<1>5. ASSUME NEW c \in Cpu, Exit(c) PROVE IInv'
  BY <1>5, LeaveSteps
<1>6. QED
  BY <1>1, <1>2, <1>3, <1>4, <1>5 DEF SchedNext
\* The ways a CPU takes, keeps and gives back the scheduler lock.
LEMMA LockHandling ==
  ASSUME LockMasksIrqs, NEW c \in Cpu, irq \in [Cpu -> BOOLEAN],
         irq' = irq \/ irq' = [irq EXCEPT ![c] = FALSE],
         \/ sched_lock' = NoCpu
         \/ sched_lock' = c /\ (~irq[c] \/ drain'[c] # NoQueue)
         \/ sched_lock' = sched_lock /\ drain' = drain
  PROVE  LockMasksIrqs'
BY SchedAssumption DEF LockMasksIrqs

\* Interrupts stay off while the scheduler lock is held.
LEMMA LockMasksIrqsStep ==
  ASSUME KInv, MutexNext
  PROVE  LockMasksIrqs'
<1>1. /\ irq \in [Cpu -> BOOLEAN] /\ drain \in [Cpu -> Queue \cup {NoQueue}] /\ LockMasksIrqs
      /\ \A d \in Cpu : irq[d] => mode[d] \in {"run", "idle", "free"}
  BY IInvSInv DEF KInv, IInv, LockPathsLocked, TypeOK
<1>2. ASSUME NEW c \in Cpu, NEW u, NEW k, EnqueueAndMayYield(c, u, k, NoCpu),
             UNCHANGED irq
      PROVE  LockMasksIrqs'
  BY <1>1, <1>2, LockHandling DEF EnqueueAndMayYield, SwitchOut, Preempts
<1>3. ASSUME NEW c \in Cpu, SchedLoop(c) PROVE LockMasksIrqs'
  <2>1. CASE SchedStart(c) \/ Dispatch(c) \/ Reap(c) \/ Reaped(c) \/ Idle(c) \/ IdleWake(c)
    BY <1>1, <2>1, LockHandling DEF SchedStart, Dispatch, Reap, Reaped, Idle, IdleWake
  <2>2. CASE ContinueRun(c) \/ ContinueSleep(c) \/ ContinueWakeupAll(c) \/ WakeupAllDone(c)
    BY <1>1, <2>2, LockHandling
       DEF ContinueRun, ContinueSleep, ContinueWakeupAll, WakeupAllDone, Holding, LockMasksIrqs
  <2>3. CASE WakeupAllNext(c)
    <3>1. PICK u, k : EnqueueAndMayYield(c, u, k, c) /\ irq' = irq /\ drain[c] # NoQueue
                        /\ (Preempts(c, u) \/ drain' = drain)
      BY <2>3 DEF WakeupAllNext, ResumeSleeper
    <3>2. sched_lock' = c /\ (~irq[c] \/ drain'[c] # NoQueue)
      BY <3>1 DEF EnqueueAndMayYield, SwitchOut, Preempts
    <3>3. QED
      BY <1>1, <3>1, <3>2, LockHandling
  <2>4. QED
    BY <1>3, <2>1, <2>2, <2>3 DEF SchedLoop
<1>4. ASSUME NEW t \in Thread, BootResume(t) PROVE LockMasksIrqs'
  BY <1>2, <1>4, SchedAssumption DEF BootResume
<1>5. ASSUME NEW c \in Cpu, ThreadOp(c) \/ Exit(c) PROVE LockMasksIrqs'
  <2>1. CASE ThreadYield(c) \/ ThreadSuspend(c) \/ Exit(c)
    BY <1>1, <2>1, LockHandling
       DEF ThreadYield, ThreadSuspend, Exit, ThreadExit, InThread, Leave, SwitchOut
  <2>2. CASE \E u \in Thread : ThreadCreate(c, u)
    BY <1>1, <2>2, LockHandling DEF ThreadCreate, cpuVars
  <2>3. CASE \E u \in Thread : ThreadResume(c, u) \/ ThreadInterrupt(c, u)
    BY <1>2, <2>3 DEF ThreadResume, ThreadInterrupt, ResumeSleeper
  <2>4. CASE \E q \in WaitQueue, timed \in BOOLEAN : Sleep(c, q, timed)
    BY <1>1, <2>4, LockHandling DEF Sleep, InThread, Leave, SwitchOut
  <2>5. CASE \E q \in WaitQueue : WakeupOne(c, q)
    BY <1>2, <2>5 DEF WakeupOne, ResumeSleeper
  <2>6. CASE \E q \in WaitQueue : WakeupAll(c, q)
    <3>1. PICK q \in WaitQueue : WakeupAll(c, q)
      BY <2>6
    <3>2. drain'[c] # NoQueue /\ sched_lock' = c /\ irq' = irq
      BY <1>1, <3>1, SchedAssumption DEF WakeupAll, Queue
    <3>3. QED
      BY <1>1, <3>2, LockHandling
  <2>7. QED
    BY <1>5, <2>1, <2>2, <2>3, <2>4, <2>5, <2>6 DEF ThreadOp
<1>6. ASSUME NEW c \in Cpu, Interrupt(c) PROVE LockMasksIrqs'
  <2>1. CASE IrqBegin(c)
    BY <1>1, <2>1 DEF IrqBegin, LockMasksIrqs
  <2>2. CASE IrqTick(c)
    BY <1>1, <2>2, LockHandling DEF IrqTick, cpuVars
  <2>3. CASE \E u \in Thread : IrqTimeout(c, u)
    <3>1. PICK u \in Thread : IrqTimeout(c, u)
      BY <2>3
    <3>2. CASE Asleep(u)
      BY <1>2, <3>1, <3>2 DEF IrqTimeout, ResumeSleeper
    <3>3. CASE ~Asleep(u)
      BY <1>1, <3>1, <3>3, LockHandling DEF IrqTimeout
    <3>4. QED
      BY <3>2, <3>3
  <2>4. CASE IrqEnd(c)
    <3>1. irq' = [irq EXCEPT ![c] = FALSE] /\ drain' = drain
          /\ (sched_lock' = sched_lock \/ sched_lock' = c)
      BY <2>4 DEF IrqEnd, Leave, SwitchOut
    <3>2. QED
      BY <1>1, <3>1, SchedAssumption DEF LockMasksIrqs
  <2>5. QED
    BY <1>6, <2>1, <2>2, <2>3, <2>4 DEF Interrupt
<1>7. ASSUME NEW c \in Cpu, MutexOp(c) PROVE LockMasksIrqs'
  <2>1. ASSUME NEW m \in Mutex, NEW timed \in BOOLEAN, Lock(c, m, timed) \/ TryLock(c, m)
        PROVE  irq' = irq /\ ~irq[c] /\ sched_lock' \in {c, NoCpu}
    BY <2>1 DEF Lock, TryLock, LockIteration, Acquire, LockReturns, Stop, InThread
  <2>2. ASSUME NEW m \in Mutex, Unlock(c, m)
        PROVE  irq' = irq /\ ~irq[c] /\ sched_lock' \in {c, NoCpu}
    BY <2>2 DEF Unlock, ResumeSleeper, EnqueueAndMayYield, SwitchOut, Stop, InThread,
                       Unlocked
  <2>3. ASSUME NEW m \in Mutex, Fini(c, m) \/ Create(c, m)
        PROVE  irq' = irq /\ ~irq[c] /\ sched_lock' \in {c, NoCpu}
    BY <2>3 DEF Fini, Create, Stop, InThread, Unlocked, schedVars, cpuVars
  <2>4. CASE RaisePriority(c) \/ Block(c) \/ ContinueMutex(c)
    <3>1. ~irq[c] /\ irq' = irq
      BY <1>1, <2>4 DEF RaisePriority, Block, ContinueMutex, Holding, LockMasksIrqs
    <3>2. sched_lock' \in {c, NoCpu}
      BY <2>4 DEF RaisePriority, Block, ContinueMutex, Holding, MayRaisePriority,
           RaiseThread, RaiseDone, Stop, Leave, SwitchOut, LockIteration, Acquire, LockReturns
    <3>3. QED
      BY <1>1, <3>1, <3>2, LockHandling
  <2>5. QED
    <3>1. irq' = irq /\ ~irq[c] /\ sched_lock' \in {c, NoCpu} => LockMasksIrqs'
      BY <1>1, LockHandling
    <3>2. \A m \in Disposable : m \in Mutex
      BY DisposableAssumption
    <3>3. QED
      BY <1>7, <2>1, <2>2, <2>3, <2>4, <3>1, <3>2 DEF MutexOp
<1>8. CASE panic # "none" /\ UNCHANGED vars
  BY <1>1, <1>8 DEF LockMasksIrqs, vars, schedVars, cpuVars
<1>9. QED
  BY <1>3, <1>4, <1>5, <1>6, <1>7, <1>8, SchedAssumption DEF MutexNext, SchedNext

\* The priority of the caller is not above itself.
LEMMA NatReflexive == \A n \in Nat : n <= n
BY SMT

\* _k_sched_raise_priority() of a ready thread: from one run queue to another.
LEMMA RaiseReadyLinks ==
  ASSUME TypeOK, RunLinks(sched_queue, state, priority),
         NEW o \in Thread, state[o] = "ready", NEW p \in Priority, p # priority[o],
         priority' = [priority EXCEPT ![o] = p],
         sched_queue' = [sched_queue EXCEPT ![priority[o]] = Remove(@, o),
                                            ![p] = Append(@, o)]
  PROVE  /\ sched_queue' \in [Priority -> Seq(Thread)]
         /\ RunLinks(sched_queue', state, priority')
<1>1. /\ priority \in [Thread -> Priority] /\ sched_queue \in [Priority -> Seq(Thread)]
      /\ priority[o] \in Priority
  BY DEF TypeOK
<1>2. \A r \in Priority :
        /\ IsInjective(sched_queue[r])
        /\ Range(sched_queue[r]) = {x \in Thread : state[x] = "ready" /\ priority[x] = r}
  BY DEF RunLinks
<1>3. priority'[o] = p /\ \A x \in Thread : x # o => priority'[x] = priority[x]
  BY <1>1
<1> DEFINE a == Remove(sched_queue[priority[o]], o)
           b == Append(sched_queue[p], o)
<1>4. a \in Seq(Thread) /\ IsInjective(a) /\ Range(a) = Range(sched_queue[priority[o]]) \ {o}
  BY SMT, <1>1, <1>2, RemoveFacts
<1>5. o \notin Range(sched_queue[p])
  BY <1>2
<1>6. b \in Seq(Thread) /\ IsInjective(b) /\ Range(b) = Range(sched_queue[p]) \cup {o}
  BY SMT, <1>1, <1>2, <1>5, AppendFacts
<1>7. /\ sched_queue' \in [Priority -> Seq(Thread)]
      /\ sched_queue'[priority[o]] = a /\ sched_queue'[p] = b
      /\ \A r \in Priority : r # p /\ r # priority[o] => sched_queue'[r] = sched_queue[r]
  <2>. HIDE DEF a, b
  <2> DEFINE f == [sched_queue EXCEPT ![priority[o]] = a]
  <2>1. sched_queue' = [f EXCEPT ![p] = b]
    BY <1>1 DEF a, b
  <2>2. /\ f \in [Priority -> Seq(Thread)] /\ f[priority[o]] = a
        /\ \A r \in Priority : r # priority[o] => f[r] = sched_queue[r]
    BY <1>1, <1>4
  <2>. HIDE DEF f
  <2>3. sched_queue' \in [Priority -> Seq(Thread)] /\ sched_queue'[p] = b
    BY <1>6, <2>1, <2>2
  <2>4. \A r \in Priority : r # p => sched_queue'[r] = f[r]
    BY <2>1, <2>2
  <2>5. QED
    BY <1>1, <2>2, <2>3, <2>4
<1>. HIDE DEF a, b
<1>8. ASSUME NEW r \in Priority
      PROVE  /\ IsInjective(sched_queue'[r])
             /\ Range(sched_queue'[r]) =
                  {x \in Thread : state[x] = "ready" /\ priority'[x] = r}
  <2>1. CASE r = p
    <3>1. {x \in Thread : state[x] = "ready" /\ priority'[x] = p} =
          {x \in Thread : state[x] = "ready" /\ priority[x] = p} \cup {o}
      BY <1>3
    <3>2. QED
      BY <1>2, <1>6, <1>7, <2>1, <3>1
  <2>2. CASE r = priority[o]
    <3>1. {x \in Thread : state[x] = "ready" /\ priority'[x] = r} =
          {x \in Thread : state[x] = "ready" /\ priority[x] = r} \ {o}
      BY <1>3, <2>2
    <3>2. QED
      BY <1>2, <1>4, <1>7, <2>2, <3>1
  <2>3. CASE r # p /\ r # priority[o]
    <3>1. {x \in Thread : state[x] = "ready" /\ priority'[x] = r} =
          {x \in Thread : state[x] = "ready" /\ priority[x] = r}
      BY <1>3, <2>3
    <3>2. QED
      BY <1>2, <1>7, <2>3, <3>1
  <2>4. QED
    BY <2>1, <2>2, <2>3
<1>9. QED
  BY <1>7, <1>8 DEF RunLinks

\* The queues whose threads keep their priority stay sorted.
LEMMA OthersSorted ==
  ASSUME TypeOK, LinksAgree, QueuesSorted, NEW o \in Thread, NEW p,
         priority' = [priority EXCEPT ![o] = p],
         NEW m \in Mutex, ~(state[o] = "mutex" /\ pc[o].q = m)
  PROVE  Sorted(waitq[m], priority')
<1>1. m \in Queue /\ SleepState(m) = "mutex"
  BY DEF Queue, SleepState
<1>2. /\ waitq[m] \in Seq(Thread)
      /\ Range(waitq[m]) = {x \in Thread : state[x] = "mutex" /\ pc[x].q = m}
  BY <1>1 DEF TypeOK, LinksAgree, WaitLinks
<1>3. \A x \in Thread : x # o => priority'[x] = priority[x]
  BY DEF TypeOK
<1>4. \A x \in Range(waitq[m]) : priority'[x] = priority[x]
  BY <1>2, <1>3
<1>5. Sorted(waitq[m], priority)
  BY DEF QueuesSorted
<1>6. \A i \in 1 .. Len(waitq[m]) : waitq[m][i] \in Range(waitq[m])
  BY <1>2, RangeFacts
<1>7. QED
  BY <1>4, <1>5, <1>6 DEF Sorted

\* _k_sched_raise_priority() of a thread that waits for a mutex: it is moved
\* within the queue.
LEMMA RaiseWaiterLinks ==
  ASSUME TypeOK, LinksAgree, QueuesSorted,
         NEW o \in Thread, state[o] = "mutex", NEW q \in Mutex, pc[o].q = q,
         NEW p \in Priority, priority' = [priority EXCEPT ![o] = p],
         waitq' = [waitq EXCEPT ![q] = Add(Remove(waitq[q], o), priority', o)]
  PROVE  /\ waitq' \in [Queue -> Seq(Thread)]
         /\ WaitLinks(waitq', state, pc)
         /\ \A m \in Mutex : Sorted(waitq'[m], priority')
<1>1. q \in Queue /\ SleepState(q) = "mutex" /\ Mutex \subseteq Queue
  BY DEF Queue, SleepState
<1>2. /\ waitq \in [Queue -> Seq(Thread)]
      /\ \A r \in Queue :
           /\ IsInjective(waitq[r])
           /\ Range(waitq[r]) = {x \in Thread : state[x] = SleepState(r) /\ pc[x].q = r}
  BY DEF TypeOK, LinksAgree, WaitLinks
<1>3. /\ priority' \in [Thread -> Nat]
      /\ \A x \in Thread : x # o => priority'[x] = priority[x]
  <2>1. priority \in [Thread -> Priority] /\ Priority \subseteq Nat
    BY SMT, SchedAssumption DEF TypeOK, Priority
  <2>2. QED
    BY <2>1
<1> DEFINE s == Remove(waitq[q], o)
           a == Add(s, priority', o)
<1>4. s \in Seq(Thread) /\ IsInjective(s) /\ Range(s) = Range(waitq[q]) \ {o}
  BY SMT, <1>1, <1>2, RemoveFacts
<1>5. Sorted(s, priority)
  BY <1>1, <1>2, RemoveFacts DEF QueuesSorted
<1>. HIDE DEF s
<1>6. Sorted(s, priority')
  <2>1. \A x \in Range(s) : priority'[x] = priority[x]
    BY <1>1, <1>2, <1>3, <1>4
  <2>2. QED
    BY <1>4, <1>5, <2>1, SortedSame
<1>7. /\ a \in Seq(Thread) /\ IsInjective(a) /\ Range(a) = Range(s) \cup {o}
      /\ Sorted(a, priority')
  <2>1. o \notin Range(s)
    BY <1>4
  <2> DEFINE prio == priority'
  <2>2. prio \in [Thread -> Nat] /\ Sorted(s, prio)
    BY <1>3, <1>6
  <2>. HIDE DEF prio
  <2>3. /\ Add(s, prio, o) \in Seq(Thread) /\ IsInjective(Add(s, prio, o))
        /\ Range(Add(s, prio, o)) = Range(s) \cup {o} /\ Sorted(Add(s, prio, o), prio)
    BY SMT, <1>4, <2>1, <2>2, AddFacts
  <2>4. QED
    BY <2>3 DEF prio
<1>. HIDE DEF a
<1>8. Range(a) = Range(waitq[q])
  <2>1. o \in Range(waitq[q])
    BY <1>1, <1>2
  <2>2. QED
    BY <1>4, <1>7, <2>1
<1>9. /\ waitq' \in [Queue -> Seq(Thread)] /\ waitq'[q] = a
      /\ \A r \in Queue : r # q => waitq'[r] = waitq[r]
  <2>1. waitq' = [waitq EXCEPT ![q] = a]
    BY DEF a, s
  <2>2. QED
    BY SMT, <1>1, <1>2, <1>7, <2>1
<1>10. WaitLinks(waitq', state, pc)
  BY <1>2, <1>7, <1>8, <1>9 DEF WaitLinks
<1>11. ASSUME NEW m \in Mutex PROVE Sorted(waitq'[m], priority')
  <2>1. CASE m = q
    BY <1>7, <1>9, <2>1
  <2>2. CASE m # q
    BY <1>1, <1>9, <2>2, OthersSorted
  <2>3. QED
    BY <2>1, <2>2
<1>12. QED
  BY <1>9, <1>10, <1>11

\* What the current thread of a CPU in k_mutex_lock() and the like is.
LEMMA CallerFacts ==
  ASSUME IInv, NEW c \in Cpu, mode[c] = "run"
  PROVE  /\ curr[c] \in Thread /\ state[curr[c]] = "running"
         /\ pc[curr[c]] \in PcType
         /\ priority[curr[c]] \in Priority /\ priority[curr[c]] \in Nat
<1>1. curr[c] \in Thread /\ state[curr[c]] = "running"
  BY IInvSInv, CurrentRuns
<1>2. pc \in [Thread -> PcType] /\ priority \in [Thread -> Priority]
  BY IInvSInv DEF TypeOK, PcType
<1>3. Priority \subseteq Nat
  BY SMT, SchedAssumption DEF Priority
<1>4. QED
  BY <1>1, <1>2, <1>3

\* A step of the caller that takes no thread off or onto a list: only its own
\* continuation, its timer and result, and the mutex variables change.
LEMMA CallerKeepsSInv ==
  ASSUME IInv, NEW c \in Cpu, mode[c] = "run", NEW k \in PcType,
         pc' = [pc EXCEPT ![curr[c]] = k],
         sleep_result' \in [Thread -> Result], timer' \in [Thread -> BOOLEAN],
         sched_lock' \in Cpu \cup {NoCpu},
         UNCHANGED <<state, priority, resched, queueVars, mode, curr, irq, drain>>
  PROVE  SInv'
<1>1. curr[c] \in Thread /\ state[curr[c]] = "running"
  BY CallerFacts
<1>2. pc \in [Thread -> PcType]
  BY IInvSInv DEF TypeOK, PcType
<1>3. pc' \in [Thread -> PcType]
  BY <1>1, <1>2
<1>4. TypeOK'
  BY <1>3, IInvSInv DEF TypeOK, PcType, queueVars
<1>5. \A t \in Thread : pc'[t].q = pc[t].q \/ state[t] \notin {"sleep", "mutex"}
  BY <1>1, <1>2
<1>6. QED
  BY <1>4, <1>5, IInvSInv, QuietKeepsSInv

\* The ways k_mutex_timed_lock() can go on when the caller has the scheduler
\* lock: it returns, with or without the mutex, or it has to wait for it.
LEMMA LockKeepsIInv ==
  ASSUME IInv, NoLockPath, NoDrain, visit = NoQueue,
         NEW c \in Cpu, mode[c] = "run", NEW m \in Mutex, NEW k \in PcType,
         pc' = [pc EXCEPT ![curr[c]] = k],
         sleep_result' \in [Thread -> Result], timer' \in [Thread -> BOOLEAN],
         UNCHANGED <<state, priority, resched, queueVars, mode, curr, irq, drain>>,
         UNCHANGED <<mpriority, live>>, panic' \in Panic,
         \/ /\ k.op = "run" /\ visit' = visit /\ sched_lock' \in Cpu \cup {NoCpu}
            /\ held' = [held EXCEPT ![curr[c]] = @ \cup {m}]
            /\ \/ owner' = owner
               \/ /\ owner' = [owner EXCEPT ![m] = curr[c]]
                  /\ priority[curr[c]] <= mpriority[m]
         \/ /\ k.op = "raise" /\ k.q = m /\ visit' = m /\ sched_lock' = c
            /\ UNCHANGED <<owner, held>>
  PROVE  IInv'
<1> DEFINE t == curr[c]
<1>1. /\ t \in Thread /\ state[t] = "running" /\ priority[t] \in Nat
  BY CallerFacts
<1>2. SInv'
  BY CallerKeepsSInv
<1>3. pc \in [Thread -> PcType] /\ priority \in [Thread -> Priority]
  BY IInvSInv DEF TypeOK, PcType
<1>4. pc'[t] = k /\ \A x \in Thread : x # t => pc'[x] = pc[x]
  BY <1>1, <1>3
<1>5. /\ owner \in [Mutex -> Thread \cup {NoThread}]
      /\ held \in [Thread -> SUBSET Mutex]
  BY IInvSInv DEF MutexTypeOK
<1>6. MutexTypeOK'
  BY SMT, <1>1, <1>2, <1>5, IInvSInv DEF SInv, MutexTypeOK
<1>7. \A x \in Thread : pc[x].op \notin {"raise", "block"}
  BY DEF NoLockPath, LockPath
<1>. HIDE DEF t
<1>8. LockPathsLocked'
  <2>1. \A x \in Thread : LockPath(x)' =>
          \E d \in Cpu : sched_lock' = d /\ curr[d] = x /\ drain[d] = NoQueue
    BY <1>4, <1>7 DEF LockPath, t, NoDrain
  <2>2. \A d \in Cpu : irq[d] => mode[d] \in {"run", "idle", "free"}
    BY DEF IInv, LockPathsLocked
  <2>3. visit' # NoQueue <=> \E x \in Thread : pc'[x].op = "raise"
    BY <1>1, <1>4, <1>7, SchedAssumption DEF Queue
  <2>4. \A x \in Thread : pc'[x].op \in {"raise", "block", "lock"} => pc'[x].q \in Mutex
    BY SMT, <1>4 DEF IInv, LockPathsLocked
  <2>5. \A x \in Thread : state[x] = "mutex" => pc'[x].op = "lock"
    BY ZenonT(30), <1>1, <1>4 DEF IInv, LockPathsLocked
  <2>6. QED
    BY <2>1, <2>2, <2>3, <2>4, <2>5 DEF LockPathsLocked, NoDrain
<1>9. UnlockIsAtomic'
  BY <1>4 DEF IInv, UnlockIsAtomic
<1>10. QueuesSorted'
  BY DEF IInv, QueuesSorted, queueVars
<1>11. OwnersHold'
  <2>1. SUFFICES ASSUME NEW n \in Mutex, owner'[n] # NoThread
                 PROVE  /\ n \in held'[owner'[n]]
                        /\ state[owner'[n]] \notin {"none", "destroyed"}
    BY DEF OwnersHold
  <2>2. owner'[n] = owner[n] \/ (n = m /\ owner'[n] = t /\ m \in held'[t])
    BY SMT, <1>1, <1>5 DEF t
  <2>3. CASE owner'[n] = owner[n]
    <3>1. n \in held[owner[n]] /\ state[owner[n]] \notin {"none", "destroyed"}
      BY <2>1, <2>3 DEF IInv, OwnersHold
    <3>2. owner[n] \in Thread
      BY <2>1, <2>3, <1>5
    <3>3. held[owner[n]] \subseteq held'[owner[n]]
      BY SMT, <1>5, <3>2
    <3>4. QED
      BY <2>3, <3>1, <3>3
  <2>4. QED
    BY <1>1, <2>2, <2>3
<1>12. OwnersBound'
  BY <1>1, <1>5 DEF IInv, OwnersBound, t
<1>13. WaitersBound'
  <2>1. SUFFICES ASSUME NEW w \in Thread, state[w] = "mutex" \/ LockPath(w)'
                 PROVE  \/ mpriority[pc'[w].q] <= priority[w]
                        \/ /\ visit' = pc'[w].q
                           /\ \E x \in Thread : /\ pc'[x].op = "raise"
                                               /\ priority[x] <= priority[w]
    BY DEF WaitersBound, RaisePending
  <2>2. CASE w = t
    <3>1. k.op = "raise" /\ k.q = m /\ visit' = m
      BY <1>1, <1>4, <2>1, <2>2 DEF LockPath
    <3>2. QED
      BY SMTT(30), <1>1, <1>4, <2>2, <3>1
  <2>3. CASE w # t
    <3>1. pc'[w] = pc[w] /\ (state[w] = "mutex" \/ LockPath(w))
      BY <1>4, <2>1, <2>3 DEF LockPath
    <3>2. QED
      BY <3>1, WaitersCounted
  <2>4. QED
    BY <2>2, <2>3
<1>14. QED
  BY <1>2, <1>6, <1>8, <1>9, <1>10, <1>11, <1>12, <1>13 DEF IInv, SInv

\* A panic, the beginning of k_mutex_fini() and the creation of a mutex: no
\* thread and no owner changes.
LEMMA AsideKeepsIInv ==
  ASSUME IInv, NoLockPath, visit = NoQueue,
         UNCHANGED <<state, priority, pc, resched, queueVars, mode, curr, irq>>,
         UNCHANGED <<owner, visit>>,
         sleep_result' \in [Thread -> Result], timer' \in [Thread -> BOOLEAN],
         sched_lock' \in Cpu \cup {NoCpu}, drain' \in [Cpu -> Queue \cup {NoQueue}],
         mpriority' \in [Mutex -> 0 .. MaxPriorities], live' \in [Mutex -> BOOLEAN],
         held' \in [Thread -> SUBSET Mutex], panic' \in Panic,
         \A d \in Cpu : drain'[d] # NoQueue => sched_lock' = d /\ mode[d] = "run",
         \A m \in Mutex : owner[m] # NoThread => m \in held'[owner[m]],
         \A m \in Mutex : \/ mpriority'[m] = mpriority[m]
                          \/ mpriority'[m] = MaxPriorities /\ waitq[m] = <<>>
  PROVE  IInv'
<1>1. TypeOK'
  BY IInvSInv DEF TypeOK, queueVars
<1>2. SInv'
  BY <1>1, IInvSInv, QuietKeepsSInv
<1>3. MutexTypeOK'
  BY <1>1, IInvSInv DEF MutexTypeOK
<1>4. LockPathsLocked'
  BY DEF IInv, LockPathsLocked, NoLockPath, LockPath
<1>5. OwnersHold' /\ QueuesSorted' /\ UnlockIsAtomic'
  BY DEF IInv, OwnersHold, QueuesSorted, UnlockIsAtomic, queueVars
<1>6. OwnersBound'
  <2>1. SUFFICES ASSUME NEW m \in Mutex, owner[m] # NoThread
                 PROVE  priority[owner[m]] <= mpriority'[m]
    BY DEF OwnersBound
  <2>2. owner[m] \in Thread
    BY <2>1, IInvSInv DEF MutexTypeOK
  <2>3. priority[owner[m]] \in 0 .. MaxPriorities - 1 /\ MaxPriorities \in Nat
    BY <2>2, IInvSInv, SchedAssumption DEF TypeOK, Priority
  <2>4. priority[owner[m]] <= mpriority[m]
    BY <2>1 DEF IInv, OwnersBound
  <2>5. QED
    BY SMTT(30), <2>3, <2>4
<1>7. WaitersBound'
  <2>1. SUFFICES ASSUME NEW w \in Thread, state[w] = "mutex"
                 PROVE  mpriority'[pc[w].q] <= priority[w]
    BY DEF WaitersBound, NoLockPath, LockPath
  <2>2. pc[w].q \in Mutex /\ mpriority[pc[w].q] <= priority[w]
    BY <2>1, WaitersCounted
  <2>3. waitq[pc[w].q] # <<>>
    <3>1. pc[w].q \in Queue /\ SleepState(pc[w].q) = "mutex"
      BY <2>2 DEF Queue, SleepState
    <3>2. w \in Range(waitq[pc[w].q])
      BY SMT, <2>1, <3>1 DEF IInv, LinksAgree, WaitLinks
    <3>3. Range(<<>>) = {}
      BY SMT DEF Range
    <3>4. QED
      BY <3>2, <3>3
  <2>4. QED
    BY <2>2, <2>3
<1>8. QED
  BY <1>2, <1>3, <1>4, <1>5, <1>6, <1>7 DEF IInv, SInv

\* One iteration of the loop in k_mutex_timed_lock().
LEMMA IterationKeepsIInv ==
  ASSUME IInv, NoLockPath, NoDrain, visit = NoQueue,
         NEW c \in Cpu, mode[c] = "run", NEW m \in Mutex, NEW timed \in BOOLEAN,
         \/ LockIteration(c, m, timed)
         \/ /\ owner[m] = NoThread /\ Acquire(c, m)
            /\ UNCHANGED <<mpriority, live, visit>>
         \/ LockReturns(c, m) /\ UNCHANGED <<owner, mpriority, live, visit, panic>>,
         sleep_result' \in [Thread -> Result], timer' \in [Thread -> BOOLEAN],
         UNCHANGED <<state, priority, resched, queueVars, mode, curr, irq, drain>>
  PROVE  IInv'
<1>1. Run \in PcType /\ Run.op = "run"
  BY DEF Run, At, PcType, Op
<1>2. panic \in Panic /\ "not the highest priority" \in Panic
  BY IInvSInv DEF MutexTypeOK, Panic
<1>3. NoCpu \in Cpu \cup {NoCpu} /\ c \in Cpu \cup {NoCpu}
  OBVIOUS
<1>4. ASSUME LockReturns(c, m), UNCHANGED <<owner, mpriority, live, visit, panic>>
      PROVE  IInv'
  BY <1>1, <1>2, <1>3, <1>4, LockKeepsIInv DEF LockReturns
<1>5. ASSUME owner[m] = NoThread, Acquire(c, m), UNCHANGED <<mpriority, live, visit>>
      PROVE  IInv'
  <2>1. CASE priority[curr[c]] <= mpriority[m]
    <3>1. /\ owner' = [owner EXCEPT ![m] = curr[c]]
          /\ LockReturns(c, m) /\ UNCHANGED panic
      BY <1>5, <2>1 DEF Acquire
    <3>2. QED
      BY <1>1, <1>2, <1>3, <1>5, <2>1, <3>1, LockKeepsIInv DEF LockReturns
  <2>2. CASE ~(priority[curr[c]] <= mpriority[m])
    <3>1. /\ panic' = "not the highest priority" /\ sched_lock' = c
          /\ UNCHANGED <<owner, held, pc>>
      BY <1>5, <2>2 DEF Acquire, Stop
    <3>2. /\ drain' \in [Cpu -> Queue \cup {NoQueue}]
          /\ mpriority' \in [Mutex -> 0 .. MaxPriorities] /\ live' \in [Mutex -> BOOLEAN]
          /\ held' \in [Thread -> SUBSET Mutex]
      BY <1>5, <3>1, IInvSInv DEF TypeOK, MutexTypeOK
    <3>3. \A d \in Cpu : drain'[d] = NoQueue
      BY DEF NoDrain
    <3>4. \A n \in Mutex : owner[n] # NoThread => n \in held'[owner[n]]
      BY <3>1 DEF IInv, OwnersHold
    <3>5. \A n \in Mutex : mpriority'[n] = mpriority[n]
      BY <1>5
    <3>6. QED
      BY <1>2, <1>3, <1>5, <3>1, <3>2, <3>3, <3>4, <3>5, AsideKeepsIInv
  <2>3. QED
    BY <2>1, <2>2
<1>6. CASE LockIteration(c, m, timed)
  <2>1. CASE owner[m] = NoThread /\ Acquire(c, m) /\ UNCHANGED visit
    BY <1>5, <1>6, <2>1 DEF LockIteration
  <2>2. CASE LockReturns(c, m) /\ UNCHANGED <<owner, visit, panic>>
    BY <1>4, <1>6, <2>2 DEF LockIteration
  <2>3. CASE /\ visit' = m /\ pc' = [pc EXCEPT ![curr[c]] = At("raise", m, timed)]
             /\ sched_lock' = c /\ UNCHANGED <<owner, held, panic>>
    <3> DEFINE k == At("raise", m, timed)
    <3>1. k \in PcType /\ k.op = "raise" /\ k.q = m
      BY DEF At, PcType, Op, Queue
    <3>2. UNCHANGED <<mpriority, live>>
      BY <1>6 DEF LockIteration
    <3>. HIDE DEF k
    <3>3. pc' = [pc EXCEPT ![curr[c]] = k]
      BY <2>3 DEF k
    <3>4. QED
      BY <1>2, <2>3, <3>1, <3>2, <3>3, LockKeepsIInv
  <2>4. QED
    BY <1>6, <2>1, <2>2, <2>3 DEF LockIteration
<1>7. QED
  BY <1>4, <1>5, <1>6

\* k_mutex_lock(), k_mutex_timed_lock() and k_mutex_try_lock(), from the call
\* and after a sleep.
LEMMA LockSteps ==
  ASSUME IInv, NEW c \in Cpu,
         \/ \E m \in Mutex, timed \in BOOLEAN : Lock(c, m, timed)
         \/ \E m \in Mutex : TryLock(c, m)
         \/ ContinueMutex(c)
  PROVE  IInv'
<1>1. sleep_result \in [Thread -> Result] /\ timer \in [Thread -> BOOLEAN]
  BY IInvSInv DEF TypeOK
<1>2. ASSUME NEW m \in Mutex, NEW timed \in BOOLEAN, Lock(c, m, timed) PROVE IInv'
  <2>1. /\ sched_lock = NoCpu /\ mode[c] = "run" /\ LockIteration(c, m, timed)
        /\ UNCHANGED <<state, priority, sleep_result, timer, resched, queueVars, mode,
                       curr, irq, drain>>
    BY <1>2 DEF Lock, InThread, Unlocked
  <2>2. NoLockPath /\ NoDrain /\ visit = NoQueue
    BY <2>1, NoLockPathFacts, NoDrainFacts
  <2>3. QED
    BY <1>1, <2>1, <2>2, IterationKeepsIInv
<1>3. ASSUME NEW m \in Mutex, TryLock(c, m) PROVE IInv'
  <2>1. /\ sched_lock = NoCpu /\ mode[c] = "run" /\ owner[m] = NoThread /\ Acquire(c, m)
        /\ UNCHANGED <<mpriority, live, visit>>
        /\ UNCHANGED <<state, priority, sleep_result, timer, resched, queueVars, mode,
                       curr, irq, drain>>
    BY <1>3 DEF TryLock, InThread, Unlocked
  <2>2. NoLockPath /\ NoDrain /\ visit = NoQueue
    BY <2>1, NoLockPathFacts, NoDrainFacts
  <2>3. QED
    BY <1>1, <2>1, <2>2, IterationKeepsIInv
<1>4. CASE ContinueMutex(c)
  <2> DEFINE t == curr[c]
             k == pc[t]
  <2>1. /\ sched_lock = c /\ mode[c] = "run" /\ drain[c] = NoQueue
        /\ k.op \in {"lock", "unlock"} /\ FinishSleep(t)
        /\ UNCHANGED <<state, resched, queueVars, mode, curr, irq, drain>>
    BY <1>4 DEF ContinueMutex, Holding
  <2>2. t \in Thread /\ k \in PcType
    BY <2>1, CallerFacts
  <2>3. k.op = "lock"
    BY <2>1, <2>2 DEF IInv, UnlockIsAtomic
  <2>4. k.q \in Mutex /\ k.timed \in BOOLEAN
    BY <2>2, <2>3 DEF IInv, LockPathsLocked, PcType
  <2>5. /\ priority' = priority
        /\ \/ LockReturns(c, k.q) /\ UNCHANGED <<owner, mpriority, live, visit, panic>>
           \/ LockIteration(c, k.q, k.timed)
    BY <1>4, <2>3 DEF ContinueMutex
  <2>6. NoLockPath /\ NoDrain /\ visit = NoQueue
    BY <2>1, <2>3, NoLockPathFacts, NoDrainFacts
  <2>7. sleep_result' \in [Thread -> Result] /\ timer' \in [Thread -> BOOLEAN]
    BY <1>1, <2>1, <2>2 DEF FinishSleep, Result
  <2>. HIDE DEF k, t
  <2>8. QED
    BY <2>1, <2>4, <2>5, <2>6, <2>7, IterationKeepsIInv
<1>5. QED
  BY <1>2, <1>3, <1>4

-----------------------------------------------------------------------------
(* The operations on mutexes.                                               *)

\* The caller of a pending _k_mutex_may_raise_priority(), or of the sleep after
\* it, is the only thread on such a path.
LEMMA RaiserFacts ==
  ASSUME IInv, NEW c \in Cpu, NEW op \in {"raise", "block"}, Holding(c, op)
  PROVE  /\ curr[c] \in Thread /\ state[curr[c]] = "running"
         /\ pc[curr[c]].op = op /\ pc[curr[c]] \in PcType /\ pc[curr[c]].q \in Mutex
         /\ priority[curr[c]] \in Priority /\ priority[curr[c]] \in Nat
         /\ sched_lock = c /\ drain[c] = NoQueue /\ mode[c] = "run"
         /\ \A x \in Thread : pc[x].op \in {"raise", "block"} => x = curr[c]
         /\ op = "raise" => visit \in Mutex
         /\ op = "block" => visit = NoQueue
<1>1. sched_lock = c /\ drain[c] = NoQueue /\ mode[c] = "run" /\ pc[curr[c]].op = op
  BY DEF Holding
<1>2. /\ curr[c] \in Thread /\ state[curr[c]] = "running" /\ pc[curr[c]] \in PcType
      /\ priority[curr[c]] \in Priority /\ priority[curr[c]] \in Nat
  BY <1>1, CallerFacts
<1>3. LockPathsLocked /\ visit \in Mutex \cup {NoQueue}
  BY DEF IInv, MutexTypeOK
<1>4. \A x \in Thread : pc[x].op \in {"raise", "block"} => x = curr[c]
  BY <1>1, <1>3 DEF LockPathsLocked, LockPath
<1>5. pc[curr[c]].q \in Mutex
  BY <1>1, <1>2, <1>3 DEF LockPathsLocked
<1>6. visit # NoQueue <=> \E t \in Thread : pc[t].op = "raise"
  BY <1>3 DEF LockPathsLocked
<1>7. op = "raise" => visit \in Mutex
  BY <1>1, <1>2, <1>3, <1>6
<1>8. op = "block" => visit = NoQueue
  <2>1. SUFFICES ASSUME op = "block" PROVE visit = NoQueue
    OBVIOUS
  <2>2. ~\E t \in Thread : pc[t].op = "raise"
    BY <1>1, <1>4, <2>1
  <2>3. QED
    BY <1>6, <2>2
<1>9. QED
  BY <1>1, <1>2, <1>4, <1>5, <1>7, <1>8

\* The bounds after one step along the chain: no owner is below its mutex, and
\* no mutex is below a thread that waits for it and is not the one raised.
LEMMA RaiseBounds ==
  ASSUME IInv, NEW c \in Cpu, Holding(c, "raise"), NEW v \in Mutex, visit = v,
         NEW o \in Thread, owner[v] = o, NEW p \in Nat, p = priority[curr[c]],
         mpriority' = IF mpriority[v] > p THEN [mpriority EXCEPT ![v] = p] ELSE mpriority,
         priority' = IF mpriority[v] > p /\ priority[o] > p
                     THEN [priority EXCEPT ![o] = p] ELSE priority
  PROVE  /\ priority' \in [Thread -> Priority]
         /\ mpriority' \in [Mutex -> 0 .. MaxPriorities]
         /\ \A x \in Thread : priority'[x] = priority[x] \/ (x = o /\ priority'[x] = p)
         /\ \A m \in Mutex : owner[m] # NoThread => priority'[owner[m]] <= mpriority'[m]
         /\ \A w \in Thread :
              /\ state[w] = "mutex" \/ LockPath(w)
              /\ priority'[w] = priority[w]
              => mpriority'[pc[w].q] <= priority'[w]
<1> DEFINE t == curr[c]
<1>1. /\ t \in Thread /\ p \in Priority /\ p \in 0 .. MaxPriorities
      /\ \A x \in Thread : pc[x].op \in {"raise", "block"} => x = t
  <2>1. /\ t \in Thread /\ p \in Priority
        /\ \A x \in Thread : pc[x].op \in {"raise", "block"} => x = t
    BY RaiserFacts
  <2>2. p \in 0 .. MaxPriorities
    BY SMT, <2>1, SchedAssumption DEF Priority
  <2>3. QED
    BY <2>1, <2>2
<1>2. /\ priority \in [Thread -> Priority] /\ mpriority \in [Mutex -> 0 .. MaxPriorities]
      /\ owner \in [Mutex -> Thread \cup {NoThread}]
  BY IInvSInv DEF TypeOK, MutexTypeOK
<1>3. \A x \in Thread : priority[x] \in Nat
  BY SMT, <1>2, SchedAssumption DEF Priority
<1>4. \A m \in Mutex : mpriority[m] \in Nat
  BY SMT, <1>2, SchedAssumption
<1>5. /\ priority' \in [Thread -> Priority] /\ mpriority' \in [Mutex -> 0 .. MaxPriorities]
  BY <1>1, <1>2
<1>6. /\ \A x \in Thread : priority'[x] = priority[x] \/ (x = o /\ priority'[x] = p)
      /\ \A x \in Thread : priority'[x] <= priority[x]
  BY SMTT(30), <1>1, <1>2, <1>3
<1>7. /\ \A m \in Mutex : m # v => mpriority'[m] = mpriority[m]
      /\ mpriority'[v] <= p /\ mpriority'[v] <= mpriority[v] /\ mpriority'[v] \in Nat
      /\ priority'[o] <= mpriority[v] => priority'[o] <= mpriority'[v]
  BY SMTT(30), <1>1, <1>2, <1>3, <1>4
<1>. HIDE DEF t
<1>8. ASSUME NEW m \in Mutex, owner[m] # NoThread
      PROVE  priority'[owner[m]] <= mpriority'[m]
  <2>1. owner[m] \in Thread
    BY <1>2, <1>8
  <2>2. priority[owner[m]] <= mpriority[m]
    BY <1>8 DEF IInv, OwnersBound
  <2>3. priority'[owner[m]] <= priority[owner[m]] /\ priority'[owner[m]] \in Nat
    BY <1>3, <1>6, <2>1
  <2>4. priority'[owner[m]] <= mpriority[m]
    BY SMT, <1>3, <1>4, <2>1, <2>2, <2>3
  <2>5. CASE m = v
    BY <1>7, <2>4, <2>5
  <2>6. CASE m # v
    BY <1>7, <2>4, <2>6
  <2>7. QED
    BY <2>5, <2>6
<1>9. ASSUME NEW w \in Thread, state[w] = "mutex" \/ LockPath(w), priority'[w] = priority[w]
      PROVE  mpriority'[pc[w].q] <= priority'[w]
  <2>1. pc[w].q \in Mutex
    BY <1>9 DEF IInv, LockPathsLocked, LockPath
  <2>2. \/ mpriority[pc[w].q] <= priority[w]
        \/ pc[w].q = v /\ \E x \in Thread : pc[x].op = "raise" /\ priority[x] <= priority[w]
    BY <1>9 DEF IInv, WaitersBound, RaisePending
  <2>3. \/ mpriority[pc[w].q] <= priority[w]
        \/ pc[w].q = v /\ p <= priority[w]
    BY <1>1, <2>2 DEF t
  <2>4. QED
    BY SMT, <1>3, <1>4, <1>7, <1>9, <2>1, <2>3
<1>10. QED
  BY <1>5, <1>6, <1>8, <1>9

\* One step along the chain, once the lists are known to be right.
LEMMA RaiseKeepsIInv ==
  ASSUME IInv, NEW c \in Cpu, Holding(c, "raise"), NEW v \in Mutex, visit = v,
         NEW o \in Thread, owner[v] = o, NEW p \in Nat, p = priority[curr[c]],
         mpriority' = IF mpriority[v] > p THEN [mpriority EXCEPT ![v] = p] ELSE mpriority,
         priority' = IF mpriority[v] > p /\ priority[o] > p
                     THEN [priority EXCEPT ![o] = p] ELSE priority,
         sched_queue' \in [Priority -> Seq(Thread)],
         RunLinks(sched_queue', state, priority'),
         waitq' \in [Queue -> Seq(Thread)], WaitLinks(waitq', state, pc),
         \A m \in Mutex : Sorted(waitq'[m], priority'),
         \/ RaiseDone(c) /\ (state[o] # "mutex" \/ priority' = priority)
         \/ UNCHANGED pc /\ visit' = pc[o].q /\ state[o] = "mutex",
         UNCHANGED <<state, sleep_result, timer, resched, threads_to_destroy, mode,
                     curr, irq, drain, sched_lock, owner, live, held, panic>>
  PROVE  IInv'
<1> DEFINE t == curr[c]
<1>1. /\ t \in Thread /\ state[t] = "running" /\ pc[t].op = "raise" /\ pc[t] \in PcType
      /\ sched_lock = c /\ drain[c] = NoQueue
      /\ \A x \in Thread : pc[x].op \in {"raise", "block"} => x = t
  BY RaiserFacts
<1>2. /\ priority' \in [Thread -> Priority]
      /\ mpriority' \in [Mutex -> 0 .. MaxPriorities]
      /\ \A x \in Thread : priority'[x] = priority[x] \/ (x = o /\ priority'[x] = p)
      /\ \A m \in Mutex : owner[m] # NoThread => priority'[owner[m]] <= mpriority'[m]
      /\ \A w \in Thread :
           /\ state[w] = "mutex" \/ LockPath(w)
           /\ priority'[w] = priority[w]
           => mpriority'[pc[w].q] <= priority'[w]
  BY RaiseBounds
<1>3. TypeOK /\ SInv /\ LockPathsLocked /\ MutexTypeOK /\ UnlockIsAtomic
  BY IInvSInv DEF IInv, MutexTypeOK
<1>4. pc \in [Thread -> PcType]
  BY <1>3 DEF TypeOK, PcType
<1>5. state[o] = "mutex" => pc[o].q \in Mutex
  BY <1>3 DEF LockPathsLocked
<1>6. /\ pc' \in [Thread -> PcType]
      /\ \A x \in Thread : pc'[x].q = pc[x].q
      /\ \A x \in Thread : x # t => pc'[x] = pc[x]
      /\ \/ pc'[t].op = "block" /\ visit' = NoQueue
         \/ pc'[t].op = "raise" /\ visit' = pc[o].q /\ visit' \in Mutex /\ state[o] = "mutex"
  <2>1. CASE RaiseDone(c)
    <3> DEFINE k == [pc[t] EXCEPT !.op = "block"]
    <3>1. k \in PcType /\ k.op = "block" /\ k.q = pc[t].q
      BY <1>1 DEF PcType, Op
    <3>2. pc' = [pc EXCEPT ![t] = k] /\ visit' = NoQueue
      BY <2>1 DEF RaiseDone
    <3>. HIDE DEF k, t
    <3>3. pc' \in [Thread -> PcType] /\ pc'[t] = k /\ \A x \in Thread : x # t => pc'[x] = pc[x]
      BY <1>1, <1>4, <3>1, <3>2
    <3>4. QED
      BY <3>1, <3>2, <3>3
  <2>2. CASE UNCHANGED pc /\ visit' = pc[o].q /\ state[o] = "mutex"
    BY <1>1, <1>4, <1>5, <2>2
  <2>3. QED
    BY <2>1, <2>2
<1>. HIDE DEF t
<1>7. TypeOK'
  BY <1>2, <1>3, <1>6 DEF TypeOK, PcType
<1>8. MutexTypeOK'
  BY <1>2, <1>3, <1>6, <1>7 DEF MutexTypeOK
<1>9. CpusAgree'
  BY <1>3 DEF SInv, CpusAgree
<1>10. LinksAgree'
  <2>1. WaitLinks(waitq', state, pc')
    BY ZenonT(60), <1>6, WaitLinksSame
  <2>2. DestroyLinks(threads_to_destroy, state)
    BY <1>3 DEF SInv, LinksAgree
  <2>3. QED
    BY <2>1, <2>2 DEF LinksAgree
<1>11. LockPathsLocked'
  <2>1. \A x \in Thread : LockPath(x)' =>
          \E d \in Cpu : sched_lock = d /\ curr[d] = x /\ drain[d] = NoQueue
    BY <1>1, <1>6 DEF LockPath, t
  <2>2. /\ \A d \in Cpu : irq[d] => mode[d] \in {"run", "idle", "free"}
        /\ \A d \in Cpu : drain[d] # NoQueue =>
             sched_lock = d /\ mode[d] \in {"run", "idle", "free"}
    BY <1>3 DEF LockPathsLocked
  <2>3. visit' # NoQueue <=> \E x \in Thread : pc'[x].op = "raise"
    <3>1. NoQueue \notin Mutex
      BY SchedAssumption DEF Queue
    <3>2. \A x \in Thread : x # t => pc'[x].op # "raise"
      BY <1>1, <1>6
    <3>3. QED
      BY <1>1, <1>6, <3>1, <3>2
  <2>4. \A x \in Thread : pc'[x].op \in {"raise", "block", "lock"} => pc'[x].q \in Mutex
    <3>1. \A x \in Thread : pc[x].op \in {"raise", "block", "lock"} => pc[x].q \in Mutex
      BY <1>3 DEF LockPathsLocked
    <3>2. QED
      BY <1>1, <1>6, <3>1
  <2>5. \A x \in Thread : state[x] = "mutex" => pc'[x].op = "lock"
    <3>1. \A x \in Thread : state[x] = "mutex" => pc[x].op = "lock"
      BY <1>3 DEF LockPathsLocked
    <3>2. QED
      BY <1>1, <1>6, <3>1
  <2>6. QED
    BY <2>1, <2>2, <2>3, <2>4, <2>5 DEF LockPathsLocked
<1>12. OwnersHold'
  BY DEF IInv, OwnersHold
<1>13. OwnersBound'
  BY <1>2 DEF OwnersBound
<1>14. WaitersBound'
  <2>1. SUFFICES ASSUME NEW w \in Thread, state[w] = "mutex" \/ LockPath(w)'
                 PROVE  \/ mpriority'[pc'[w].q] <= priority'[w]
                        \/ /\ visit' = pc'[w].q
                           /\ \E x \in Thread : /\ pc'[x].op = "raise"
                                               /\ priority'[x] <= priority'[w]
    BY DEF WaitersBound, RaisePending
  <2>2. pc'[w].q = pc[w].q /\ (state[w] = "mutex" \/ LockPath(w))
    BY <1>1, <1>6, <2>1 DEF LockPath
  <2>3. CASE priority'[w] = priority[w]
    BY <1>2, <2>2, <2>3
  <2>4. CASE priority'[w] # priority[w]
    <3>1. w = o /\ priority'[w] = p
      BY <1>2, <2>4
    <3>2. w # t
      BY <2>4, <3>1 DEF t
    <3>3. state[o] = "mutex"
      BY <1>1, <2>2, <3>1, <3>2 DEF LockPath
    <3>4. pc'[t].op = "raise" /\ visit' = pc[o].q
      <4>1. priority' # priority
        BY <2>4
      <4>2. pc' = pc /\ visit' = pc[o].q
        BY <3>3, <4>1
      <4>3. QED
        BY <1>1, <4>2
    <3>5. priority'[t] = p
      BY <1>1, <1>2 DEF t
    <3>6. priority'[t] <= priority'[w]
      BY <3>1, <3>5, NatReflexive
    <3>7. QED
      BY <1>1, <2>2, <3>1, <3>4, <3>6
  <2>5. QED
    BY <2>3, <2>4
<1>15. QueuesSorted'
  BY DEF QueuesSorted
<1>16. UnlockIsAtomic'
  BY <1>3, <1>6 DEF UnlockIsAtomic
<1>17. QED
  BY <1>8, <1>9, <1>10, <1>11, <1>12, <1>13, <1>14, <1>15, <1>16 DEF IInv

\* _k_mutex_may_raise_priority() and _k_sched_raise_priority().
LEMMA RaiseSteps ==
  ASSUME IInv, NEW c \in Cpu, RaisePriority(c)
  PROVE  IInv'
<1> DEFINE v == visit
           o == owner[v]
           p == priority[curr[c]]
<1>1. /\ Holding(c, "raise")
      /\ UNCHANGED <<state, sleep_result, timer, resched, threads_to_destroy, mode,
                     curr, irq, drain, owner, live, held>>
  BY DEF RaisePriority
<1>2. v \in Mutex /\ p \in Priority /\ p \in Nat /\ sched_lock = c
  BY <1>1, RaiserFacts
<1>3. MutexTypeOK /\ TypeOK /\ SInv
  BY IInvSInv DEF MutexTypeOK
<1>4. CASE o = NoThread
  <2>1. /\ panic' = "no owner" /\ sched_lock' = c
        /\ UNCHANGED <<priority, pc, sched_queue, waitq, mpriority, visit>>
    BY <1>4 DEF RaisePriority, MayRaisePriority, Stop
  <2>2. panic' \in Panic
    BY <2>1 DEF Panic
  <2>3. TypeOK'
    BY <1>1, <1>2, <1>3, <2>1 DEF TypeOK
  <2>4. MutexTypeOK'
    BY <1>1, <1>3, <2>1, <2>2, <2>3 DEF MutexTypeOK
  <2>5. CpusAgree' /\ LinksAgree' /\ QueuesSorted' /\ UnlockIsAtomic'
    BY <1>1, <2>1 DEF IInv, CpusAgree, LinksAgree, QueuesSorted, UnlockIsAtomic
  <2>6. OwnersHold' /\ OwnersBound' /\ WaitersBound'
    BY <1>1, <2>1 DEF IInv, OwnersHold, OwnersBound, WaitersBound, LockPath, RaisePending
  <2>7. LockPathsLocked'
    BY <1>1, <1>2, <2>1 DEF IInv, LockPathsLocked, LockPath
  <2>8. QED
    BY <2>4, <2>5, <2>6, <2>7 DEF IInv
<1>5. CASE o # NoThread
  <2>1. /\ IF mpriority[v] > p /\ priority[o] > p
           THEN RaiseThread(c, o, p)
           ELSE RaiseDone(c) /\ UNCHANGED <<priority, sched_queue, waitq>>
        /\ mpriority' = IF mpriority[v] > p
                        THEN [mpriority EXCEPT ![v] = p] ELSE mpriority
        /\ UNCHANGED <<panic, sched_lock>>
    BY <1>5 DEF RaisePriority, MayRaisePriority
  <2>2. o \in Thread
    BY <1>2, <1>3, <1>5 DEF MutexTypeOK
  <2>3. /\ RunLinks(sched_queue, state, priority) /\ WaitLinks(waitq, state, pc)
        /\ sched_queue \in [Priority -> Seq(Thread)] /\ waitq \in [Queue -> Seq(Thread)]
        /\ LinksAgree /\ QueuesSorted
    BY <1>3 DEF TypeOK, SInv, LinksAgree, IInv
  <2>4. CASE ~(mpriority[v] > p /\ priority[o] > p)
    <3>1. RaiseDone(c) /\ UNCHANGED <<priority, sched_queue, waitq>>
      BY <2>1, <2>4
    <3>2. \A m \in Mutex : Sorted(waitq'[m], priority')
      BY <2>3, <3>1 DEF QueuesSorted
    <3>. HIDE DEF v, o, p
    <3>3. priority' = IF mpriority[v] > p /\ priority[o] > p
                      THEN [priority EXCEPT ![o] = p] ELSE priority
      BY <2>4, <3>1
    <3>4. /\ sched_queue' \in [Priority -> Seq(Thread)] /\ waitq' \in [Queue -> Seq(Thread)]
          /\ RunLinks(sched_queue', state, priority') /\ WaitLinks(waitq', state, pc)
      BY <2>3, <3>1
    <3>5. QED
      BY <1>1, <1>2, <2>1, <2>2, <3>1, <3>2, <3>3, <3>4, RaiseKeepsIInv DEF v, o, p
  <2>5. CASE mpriority[v] > p /\ priority[o] > p
    <3>1. RaiseThread(c, o, p) /\ priority' = [priority EXCEPT ![o] = p]
      BY <2>1, <2>5 DEF RaiseThread
    <3>2. p # priority[o]
      BY SMT, <1>2, <2>5
    <3>. HIDE DEF v, o, p
    <3>3. priority' = IF mpriority[v] > p /\ priority[o] > p
                      THEN [priority EXCEPT ![o] = p] ELSE priority
      BY <2>5, <3>1
    <3>4. CASE state[o] = "mutex"
      <4>1. /\ waitq' = [waitq EXCEPT ![pc[o].q] = Add(Remove(waitq[pc[o].q], o), priority', o)]
            /\ visit' = pc[o].q /\ UNCHANGED <<pc, sched_queue>>
        BY <3>1, <3>4 DEF RaiseThread
      <4>2. pc[o].q \in Mutex
        BY <2>2, <3>4 DEF IInv, LockPathsLocked
      <4>3. /\ waitq' \in [Queue -> Seq(Thread)] /\ WaitLinks(waitq', state, pc)
            /\ \A m \in Mutex : Sorted(waitq'[m], priority')
        BY <1>2, <1>3, <2>2, <2>3, <3>1, <3>4, <4>1, <4>2, RaiseWaiterLinks
      <4>4. RunLinks(sched_queue', state, priority')
        BY <1>3, <2>2, <2>3, <3>1, <3>4, <4>1 DEF RunLinks, TypeOK
      <4>5. QED
        BY <1>1, <1>2, <2>1, <2>2, <2>3, <3>3, <3>4, <4>1, <4>3, <4>4,
           RaiseKeepsIInv DEF v, o, p
    <3>5. CASE state[o] # "mutex"
      <4>1. RaiseDone(c) /\ waitq' = waitq
        BY <3>1, <3>5 DEF RaiseThread
      <4>2. \A m \in Mutex : Sorted(waitq'[m], priority')
        BY <1>3, <2>2, <2>3, <3>1, <3>5, <4>1, OthersSorted
      <4>3. waitq' \in [Queue -> Seq(Thread)] /\ WaitLinks(waitq', state, pc)
        BY <2>3, <4>1
      <4>4. CASE state[o] = "ready"
        <5>1. sched_queue' = [sched_queue EXCEPT ![priority[o]] = Remove(@, o),
                                                ![p] = Append(@, o)]
          BY <3>1, <4>4 DEF RaiseThread
        <5>2. /\ sched_queue' \in [Priority -> Seq(Thread)]
              /\ RunLinks(sched_queue', state, priority')
          BY <1>2, <1>3, <2>2, <2>3, <3>1, <3>2, <4>4, <5>1, RaiseReadyLinks
        <5>3. QED
          BY <1>1, <1>2, <2>1, <2>2, <3>3, <3>5, <4>1, <4>2, <4>3, <5>2,
             RaiseKeepsIInv DEF v, o, p
      <4>5. CASE state[o] # "ready"
        <5>1. sched_queue' = sched_queue
          BY <3>1, <3>5, <4>5 DEF RaiseThread
        <5>2. RunLinks(sched_queue', state, priority')
          BY <1>3, <2>2, <2>3, <3>1, <4>5, <5>1 DEF RunLinks, TypeOK
        <5>3. QED
          BY ZenonT(30), <1>1, <1>2, <2>1, <2>2, <2>3, <3>3, <3>5, <4>1, <4>2, <4>3,
             <5>1, <5>2, RaiseKeepsIInv DEF v, o, p
      <4>6. QED
        BY <4>4, <4>5
    <3>6. QED
      BY <3>4, <3>5
  <2>6. QED
    BY <2>4, <2>5
<1>6. QED
  BY <1>4, <1>5

\* _k_sched_sleep() on the mutex, after the priorities have been raised.
LEMMA BlockKeepsIInv ==
  ASSUME KInv, NEW c \in Cpu, Block(c)
  PROVE  IInv'
<1> DEFINE t == curr[c]
           q == pc[t].q
           k == [pc[t] EXCEPT !.op = "lock"]
<1>1. IInv /\ LockMasksIrqs /\ Holding(c, "block")
  BY DEF KInv, Block
<1>2. /\ t \in Thread /\ state[t] = "running" /\ pc[t] \in PcType /\ q \in Mutex
      /\ sched_lock = c /\ drain[c] = NoQueue /\ mode[c] = "run" /\ visit = NoQueue
      /\ pc[t].op = "block"
      /\ \A x \in Thread : pc[x].op \in {"raise", "block"} => x = t
  BY <1>1, RaiserFacts
<1>3. k \in PcType /\ k.op = "lock" /\ k.q = q
  BY <1>2 DEF PcType, Op
<1>4. /\ waitq' = [waitq EXCEPT ![q] = Add(waitq[q], priority, t)]
      /\ timer' = [timer EXCEPT ![t] = pc[t].timed]
      /\ Leave(c, "mutex", k)
      /\ UNCHANGED <<priority, sleep_result, resched, sched_queue,
                     threads_to_destroy, irq, drain, mutexVars>>
  BY DEF Block
<1>5. /\ SInv /\ TypeOK /\ MutexTypeOK /\ LinksAgree /\ LockPathsLocked
  BY <1>1, IInvSInv DEF IInv
<1>6. q \in Queue /\ SleepState(q) = "mutex" /\ "mutex" \in State
  BY <1>2 DEF Queue, SleepState, State
<1>7. timer' \in [Thread -> BOOLEAN]
  BY <1>2, <1>4, <1>5 DEF TypeOK, PcType
<1>8. UNCHANGED <<owner, mpriority, live, visit, held, panic>>
  BY <1>4 DEF mutexVars
<1>9. /\ state' = [state EXCEPT ![t] = "mutex"] /\ pc' = [pc EXCEPT ![t] = k]
      /\ mode' = [mode EXCEPT ![c] = "loop"] /\ sched_lock' = c
  BY <1>4 DEF Leave, SwitchOut
<1>. HIDE DEF t, q, k
<1>10. SInv'
  <2>1. Leave(c, SleepState(q), k)
    BY <1>4, <1>6
  <2>2. waitq' = [waitq EXCEPT ![q] = Add(@, priority, curr[c])]
    BY <1>4 DEF t
  <2>3. UNCHANGED <<priority, sleep_result, resched, sched_queue,
                    threads_to_destroy, irq, drain>>
    BY <1>4
  <2>4. QED
    BY <1>2, <1>3, <1>5, <1>6, <1>7, <2>1, <2>2, <2>3, BlockKeepsSInv
<1>11. MutexTypeOK' /\ CpusAgree' /\ LinksAgree'
  BY <1>5, <1>8, <1>10 DEF SInv, MutexTypeOK
<1>12. /\ state'[t] = "mutex" /\ pc'[t] = k
       /\ \A x \in Thread : x # t => state'[x] = state[x] /\ pc'[x] = pc[x]
  BY <1>2, <1>5, <1>9 DEF TypeOK
<1>13. NoDrain
  BY <1>1, <1>2, NoDrainFacts
<1>14. LockPathsLocked'
  <2>1. \A x \in Thread : pc'[x].op \notin {"raise", "block"}
    <3>1. k.op \notin {"raise", "block"}
      BY <1>3
    <3>2. QED
      BY <1>2, <1>12, <3>1
  <2>2. \A d \in Cpu : irq'[d] => mode'[d] \in {"run", "idle", "free"}
    <3>1. ~irq[c] /\ irq' = irq
      BY <1>1, <1>2, <1>4 DEF LockMasksIrqs
    <3>2. \A d \in Cpu : irq[d] => mode[d] \in {"run", "idle", "free"}
      BY <1>5 DEF LockPathsLocked
    <3>3. QED
      BY <1>5, <1>9, <3>1, <3>2 DEF TypeOK
  <2>3. \A d \in Cpu : drain'[d] = NoQueue
    BY <1>4, <1>13 DEF NoDrain
  <2>4. \A x \in Thread : pc'[x].op = "lock" => pc'[x].q \in Mutex
    <3>1. \A x \in Thread : pc[x].op = "lock" => pc[x].q \in Mutex
      BY <1>5 DEF LockPathsLocked
    <3>2. QED
      BY <1>2, <1>3, <1>12, <3>1
  <2>5. \A x \in Thread : state'[x] = "mutex" => pc'[x].op = "lock"
    <3>1. \A x \in Thread : state[x] = "mutex" => pc[x].op = "lock"
      BY <1>5 DEF LockPathsLocked
    <3>2. QED
      BY <1>3, <1>12, <3>1
  <2>6. visit' = NoQueue
    BY <1>2, <1>8
  <2>7. QED
    BY <2>1, <2>2, <2>3, <2>4, <2>5, <2>6 DEF LockPathsLocked, LockPath
<1>15. OwnersHold'
  <2>1. SUFFICES ASSUME NEW m \in Mutex, owner[m] # NoThread
                 PROVE  /\ m \in held[owner[m]]
                        /\ state'[owner[m]] \notin {"none", "destroyed"}
    BY <1>8 DEF OwnersHold
  <2>2. owner[m] \in Thread
    BY <1>5, <2>1 DEF MutexTypeOK
  <2>3. m \in held[owner[m]] /\ state[owner[m]] \notin {"none", "destroyed"}
    BY <1>1, <2>1 DEF IInv, OwnersHold
  <2>4. "mutex" \notin {"none", "destroyed"}
    OBVIOUS
  <2>5. QED
    BY <1>12, <2>2, <2>3, <2>4
<1>16. OwnersBound'
  BY <1>1, <1>4, <1>8 DEF IInv, OwnersBound
<1>17. WaitersBound'
  <2>1. SUFFICES ASSUME NEW w \in Thread, state'[w] = "mutex" \/ LockPath(w)'
                 PROVE  mpriority'[pc'[w].q] <= priority'[w]
    BY DEF WaitersBound
  <2>2. pc'[w].q = pc[w].q /\ (state[w] = "mutex" \/ LockPath(w))
    <3>1. CASE w = t
      BY <1>2, <1>3, <1>12, <3>1 DEF LockPath, q
    <3>2. CASE w # t
      BY <1>12, <2>1, <3>2 DEF LockPath
    <3>3. QED
      BY <3>1, <3>2
  <2>3. mpriority[pc[w].q] <= priority[w]
    BY <1>1, <1>2, <2>2, WaitersCounted
  <2>4. QED
    BY <1>4, <1>8, <2>2, <2>3
<1>18. QueuesSorted'
  <2>1. SUFFICES ASSUME NEW m \in Mutex PROVE Sorted(waitq'[m], priority)
    BY <1>4 DEF QueuesSorted
  <2>2. m \in Queue /\ waitq \in [Queue -> Seq(Thread)] /\ Sorted(waitq[m], priority)
        /\ priority \in [Thread -> Priority]
    BY <1>1, <1>5 DEF TypeOK, IInv, QueuesSorted, Queue
  <2>3. CASE m # q
    BY <1>4, <2>2, <2>3
  <2>4. CASE m = q
    <3>1. /\ IsInjective(waitq[q])
          /\ Range(waitq[q]) = {x \in Thread : state[x] = SleepState(q) /\ pc[x].q = q}
      BY <1>5, <1>6 DEF LinksAgree, WaitLinks
    <3>2. t \notin Range(waitq[q])
      BY <1>2, <1>6, <3>1
    <3>3. priority \in [Thread -> Nat] /\ waitq[q] \in Seq(Thread) /\ Sorted(waitq[q], priority)
      BY <1>6, <2>2, <2>4, PriorityNat
    <3>4. Sorted(Add(waitq[q], priority, t), priority)
      BY <1>2, <3>1, <3>2, <3>3, AddFacts
    <3>5. QED
      BY <1>4, <1>6, <2>2, <2>4, <3>4
  <2>5. QED
    BY <2>3, <2>4
<1>19. UnlockIsAtomic'
  <2>1. k.op # "unlock"
    BY <1>3
  <2>2. QED
    BY <1>1, <1>12, <2>1 DEF IInv, UnlockIsAtomic
<1>20. QED
  BY <1>11, <1>14, <1>15, <1>16, <1>17, <1>18, <1>19 DEF IInv

\* The minimum of a set of numbers.
LEMMA MinFacts ==
  ASSUME NEW T \in SUBSET Nat, T # {}
  PROVE  Min(T) \in T /\ \A y \in T : Min(T) <= y
<1>1. \E x \in T : \A y \in T : x <= y
  BY NatMin
<1>2. QED
  BY <1>1 DEF Min

\* _k_sched_update_effective_priority() gives a priority, which is no lower
\* than that of any mutex the thread owns.
LEMMA EffectivePriorityFacts ==
  ASSUME NEW own \in [Mutex -> Thread \cup {NoThread}],
         NEW mprio \in [Mutex -> 0 .. MaxPriorities], NEW t \in Thread
  PROVE  /\ EffectivePriority(own, mprio, t) \in Priority
         /\ \A m \in Mutex : own[m] = t => EffectivePriority(own, mprio, t) <= mprio[m]
<1> DEFINE T == {SavedPriority[t]} \cup {mprio[m] : m \in Owned(own, t)}
<1>1. MaxPriorities \in Nat /\ SavedPriority[t] \in 0 .. MaxPriorities - 1
  BY SchedAssumption DEF Priority
<1>2. \A m \in Owned(own, t) : m \in Mutex /\ mprio[m] \in 0 .. MaxPriorities
  BY DEF Owned
<1>3. T \in SUBSET Nat /\ SavedPriority[t] \in T
  BY SMT, <1>1, <1>2
<1>4. T # {}
  BY <1>3
<1>5. \A m \in Mutex : own[m] = t => mprio[m] \in T
  BY DEF Owned
<1>. HIDE DEF T
<1>6. Min(T) \in T /\ \A y \in T : Min(T) <= y
  BY <1>3, <1>4, MinFacts
<1>7. Min(T) \in Nat /\ Min(T) <= SavedPriority[t]
  BY <1>3, <1>6
<1>8. Min(T) \in Priority
  BY SMT, <1>1, <1>7 DEF Priority
<1>9. EffectivePriority(own, mprio, t) = Min(T)
  BY DEF EffectivePriority, T
<1>10. QED
  BY <1>5, <1>6, <1>8, <1>9

\* The end of k_mutex_unlock(), once the lists are known to be right: the
\* caller t has the priority e and the mutex m the priority f.
Released(t, m, e, f) ==
  /\ owner[m] = t /\ owner' = [owner EXCEPT ![m] = NoThread]
  /\ held' = [held EXCEPT ![t] = @ \ {m}]
  /\ priority' = [priority EXCEPT ![t] = e]
  /\ mpriority' = [mpriority EXCEPT ![m] = f]
  /\ \A n \in Mutex : owner'[n] = t => e <= mpriority'[n]
  /\ \A w \in Thread : state'[w] = "mutex" /\ pc[w].q = m => f <= priority[w]
  /\ \A x \in Thread : state'[x] = state[x] \/ state'[x] = "ready"
  /\ state'[t] = "running" /\ sched_lock' = NoCpu
  /\ UNCHANGED <<pc, timer, resched, threads_to_destroy, mode, curr, irq, drain,
                 live, visit, panic>>

\* The lists after the wakeup, before the caller has its new priority.
ReleasedLists ==
  /\ state' \in [Thread -> State] /\ sleep_result' \in [Thread -> Result]
  /\ sched_queue' \in [Priority -> Seq(Thread)] /\ waitq' \in [Queue -> Seq(Thread)]
  /\ RunLinks(sched_queue', state', priority) /\ WaitLinks(waitq', state', pc)
  /\ DestroyLinks(threads_to_destroy, state') /\ CpusAgree'
  /\ \A n \in Mutex : Sorted(waitq'[n], priority)

\* The end of k_mutex_unlock() keeps the invariant.
LEMMA ReleaseKeepsIInv ==
  ASSUME IInv, NoLockPath, NoDrain, visit = NoQueue, NEW t \in Thread, NEW m \in Mutex,
         NEW e \in Priority, NEW f \in 0 .. MaxPriorities,
         Released(t, m, e, f), ReleasedLists
  PROVE  IInv'
<1>. USE DEF Released, ReleasedLists
<1>1. MutexTypeOK /\ TypeOK
  BY IInvSInv
<1>2. /\ priority \in [Thread -> Priority] /\ mpriority \in [Mutex -> 0 .. MaxPriorities]
      /\ owner \in [Mutex -> Thread \cup {NoThread}] /\ held \in [Thread -> SUBSET Mutex]
  BY <1>1 DEF TypeOK, MutexTypeOK
<1>3. /\ priority' \in [Thread -> Priority] /\ mpriority' \in [Mutex -> 0 .. MaxPriorities]
      /\ owner' \in [Mutex -> Thread \cup {NoThread}] /\ held' \in [Thread -> SUBSET Mutex]
  BY <1>2
<1>4. /\ priority'[t] = e /\ \A x \in Thread : x # t => priority'[x] = priority[x]
      /\ mpriority'[m] = f /\ \A n \in Mutex : n # m => mpriority'[n] = mpriority[n]
      /\ owner'[m] = NoThread /\ \A n \in Mutex : n # m => owner'[n] = owner[n]
      /\ held'[t] = held[t] \ {m} /\ \A x \in Thread : x # t => held'[x] = held[x]
  BY <1>2
<1>5. TypeOK'
  BY <1>1, <1>3 DEF TypeOK
<1>6. MutexTypeOK'
  BY <1>1, <1>3, <1>5 DEF MutexTypeOK
<1>7. LinksAgree'
  <2>1. RunLinks(sched_queue', state', priority')
    BY SMT, <1>4 DEF RunLinks
  <2>2. QED
    BY <2>1 DEF LinksAgree
<1>8. LockPathsLocked'
  <2>1. \A x \in Thread : state'[x] = "mutex" => state[x] = "mutex"
    BY <1>1 DEF TypeOK
  <2>2. QED
    BY <2>1 DEF IInv, LockPathsLocked, NoLockPath, NoDrain, LockPath
<1>9. OwnersHold'
  <2>1. SUFFICES ASSUME NEW n \in Mutex, owner'[n] # NoThread
                 PROVE  /\ n \in held'[owner'[n]]
                        /\ state'[owner'[n]] \notin {"none", "destroyed"}
    BY DEF OwnersHold
  <2>2. n # m /\ owner'[n] = owner[n] /\ owner[n] \in Thread
    BY SMTT(30), <1>2, <1>4, <2>1
  <2>3. n \in held[owner[n]] /\ state[owner[n]] \notin {"none", "destroyed"}
    BY <2>1, <2>2 DEF IInv, OwnersHold
  <2>4. n \in held'[owner[n]]
    BY <1>4, <2>2, <2>3
  <2>5. state'[owner[n]] \notin {"none", "destroyed"}
    BY <2>2, <2>3
  <2>6. QED
    BY <2>2, <2>4, <2>5
<1>10. OwnersBound'
  <2>1. SUFFICES ASSUME NEW n \in Mutex, owner'[n] # NoThread
                 PROVE  priority'[owner'[n]] <= mpriority'[n]
    BY DEF OwnersBound
  <2>2. CASE owner'[n] = t
    BY SMTT(30), <1>4, <2>2
  <2>3. CASE owner'[n] # t
    <3>1. n # m /\ owner'[n] = owner[n] /\ owner[n] \in Thread
      BY SMT, <1>2, <1>4, <2>1
    <3>2. priority[owner[n]] <= mpriority[n]
      BY <2>1, <3>1 DEF IInv, OwnersBound
    <3>3. QED
      BY SMTT(30), <1>4, <2>3, <3>1, <3>2
  <2>4. QED
    BY <2>2, <2>3
<1>11. WaitersBound'
  <2>1. SUFFICES ASSUME NEW w \in Thread, state'[w] = "mutex"
                 PROVE  mpriority'[pc[w].q] <= priority'[w]
    BY DEF WaitersBound, NoLockPath, LockPath
  <2>2. w # t /\ state[w] = "mutex"
    BY <1>1, <2>1 DEF TypeOK
  <2>3. pc[w].q \in Mutex /\ mpriority[pc[w].q] <= priority[w]
    BY <2>2, WaitersCounted
  <2>4. QED
    BY ZenonT(60), <1>4, <2>1, <2>2, <2>3
<1>12. QueuesSorted'
  <2>1. SUFFICES ASSUME NEW n \in Mutex PROVE Sorted(waitq'[n], priority')
    BY DEF QueuesSorted
  <2>2. n \in Queue /\ SleepState(n) = "mutex"
    BY DEF Queue, SleepState
  <2>3. \A x \in Range(waitq'[n]) : x \in Thread /\ state'[x] = "mutex"
    BY <2>2 DEF WaitLinks
  <2>4. \A x \in Range(waitq'[n]) : priority'[x] = priority[x]
    BY <1>4, <2>3
  <2>5. waitq'[n] \in Seq(Thread) /\ Sorted(waitq'[n], priority)
    BY <2>2
  <2> DEFINE q == waitq'[n]
             prio == priority'
  <2>6. q \in Seq(Thread) /\ Sorted(q, priority) /\ \A x \in Range(q) : prio[x] = priority[x]
    BY <2>4, <2>5
  <2>. HIDE DEF q, prio, Released, ReleasedLists
  <2>7. Sorted(q, prio)
    BY <2>6, SortedSame
  <2>8. QED
    BY <2>7 DEF q, prio
<1>13. UnlockIsAtomic'
  BY DEF IInv, UnlockIsAtomic
<1>14. QED
  BY <1>6, <1>7, <1>8, <1>9, <1>10, <1>11, <1>12, <1>13 DEF IInv

\* The priorities that k_mutex_unlock() recalculates.
LEMMA RecalculateFacts ==
  ASSUME MutexTypeOK, NEW t \in Thread, NEW m \in Mutex,
         owner' = [owner EXCEPT ![m] = NoThread], NEW f \in 0 .. MaxPriorities,
         mpriority' = [mpriority EXCEPT ![m] = f],
         priority' = [priority EXCEPT ![t] = EffectivePriority(owner', mpriority', t)]
  PROVE  \E e \in Priority :
           /\ priority' = [priority EXCEPT ![t] = e]
           /\ \A n \in Mutex : owner'[n] = t => e <= mpriority'[n]
<1> DEFINE own == owner'
           mprio == mpriority'
           e == EffectivePriority(own, mprio, t)
<1>1. own \in [Mutex -> Thread \cup {NoThread}]
  BY DEF MutexTypeOK
<1>2. mprio \in [Mutex -> 0 .. MaxPriorities]
  BY DEF MutexTypeOK
<1>3. priority' = [priority EXCEPT ![t] = e]
  OBVIOUS
<1>. HIDE DEF own, mprio
<1>4. /\ e \in Priority /\ \A n \in Mutex : own[n] = t => e <= mprio[n]
  BY <1>1, <1>2, EffectivePriorityFacts
<1>. HIDE DEF e
<1>5. QED
  BY <1>3, <1>4 DEF own, mprio

\* k_mutex_unlock().  The thread it wakes does not outrank the caller, which
\* owns the mutex still when it is compared.
LEMMA UnlockKeepsIInv ==
  ASSUME IInv, NEW c \in Cpu, NEW m \in Mutex, Unlock(c, m)
  PROVE  IInv'
<1> DEFINE t == curr[c]
           u == Head(waitq[m])
<1>1. /\ sched_lock = NoCpu /\ mode[c] = "run" /\ m \in held[t]
      /\ held' = [held EXCEPT ![t] = @ \ {m}]
      /\ UNCHANGED <<irq, drain, live, visit>>
  BY DEF Unlock, InThread, Unlocked
<1>2. NoLockPath /\ NoDrain /\ visit = NoQueue
  BY <1>1, NoLockPathFacts, NoDrainFacts
<1>3. t \in Thread /\ state[t] = "running"
  BY <1>1, CallerFacts
<1>4. SInv /\ MutexTypeOK /\ TypeOK /\ LinksAgree /\ QueuesSorted
  BY IInvSInv DEF IInv
<1>5. m \in Queue /\ waitq[m] \in Seq(Thread) /\ SleepState(m) = "mutex"
  BY <1>4 DEF TypeOK, Queue, SleepState
<1>6. CASE owner[m] # t
  <2>1. /\ panic' = "not holding" /\ sched_lock' = c
        /\ UNCHANGED <<threadVars, queueVars, mode, curr, owner, mpriority>>
    BY <1>6 DEF Unlock, Stop
  <2>2. held' \in [Thread -> SUBSET Mutex]
    BY <1>1, <1>3, <1>4 DEF MutexTypeOK
  <2>3. \A n \in Mutex : owner[n] # NoThread => n \in held'[owner[n]]
    <3>1. SUFFICES ASSUME NEW n \in Mutex, owner[n] # NoThread PROVE n \in held'[owner[n]]
      OBVIOUS
    <3>2. n \in held[owner[n]] /\ owner[n] \in Thread
      BY <1>4, <3>1 DEF IInv, OwnersHold, MutexTypeOK
    <3>3. held \in [Thread -> SUBSET Mutex]
      BY <1>4 DEF MutexTypeOK
    <3>4. QED
      BY <1>1, <1>3, <1>6, <3>2, <3>3
  <2>4. /\ UNCHANGED <<state, priority, pc, resched, queueVars, mode, curr, irq>>
        /\ sleep_result' = sleep_result /\ timer' = timer
    BY <1>1, <2>1 DEF threadVars
  <2>5. /\ sleep_result' \in [Thread -> Result] /\ timer' \in [Thread -> BOOLEAN]
        /\ drain' \in [Cpu -> Queue \cup {NoQueue}]
        /\ mpriority' \in [Mutex -> 0 .. MaxPriorities] /\ live' \in [Mutex -> BOOLEAN]
    BY <1>1, <1>4, <2>1, <2>4 DEF TypeOK, MutexTypeOK
  <2>6. "not holding" \in Panic
    BY DEF Panic
  <2>7. \A d \in Cpu : drain'[d] = NoQueue
    BY <1>1, <1>2 DEF NoDrain
  <2>8. \A n \in Mutex : mpriority'[n] = mpriority[n]
    BY <2>1
  <2>9. UNCHANGED <<owner, visit>> /\ sched_lock' \in Cpu \cup {NoCpu} /\ panic' \in Panic
    BY <1>1, <2>1, <2>6
  <2>10. QED
    BY <1>2, <2>2, <2>3, <2>4, <2>5, <2>7, <2>8, <2>9, AsideKeepsIInv
<1>7. CASE owner[m] = t /\ waitq[m] = <<>>
  <2>1. /\ owner' = [owner EXCEPT ![m] = NoThread]
        /\ Recalculate(t, m, waitq, owner')
        /\ UNCHANGED <<state, pc, sleep_result, resched, sched_queue, waitq, mode, curr,
                       sched_lock>>
        /\ UNCHANGED <<timer, threads_to_destroy, panic>>
    BY <1>7 DEF Unlock
  <2> DEFINE f == MaxPriorities
  <2>2. f \in 0 .. MaxPriorities
    BY SMT, SchedAssumption
  <2>3. /\ mpriority' = [mpriority EXCEPT ![m] = f]
         /\ priority' = [priority EXCEPT ![t] = EffectivePriority(owner', mpriority', t)]
    BY <1>7, <2>1 DEF Recalculate
  <2>4. PICK e \in Priority :
           /\ priority' = [priority EXCEPT ![t] = e]
           /\ \A n \in Mutex : owner'[n] = t => e <= mpriority'[n]
    <3>. HIDE DEF t, f
    <3>1. QED
      BY <1>3, <1>4, <2>1, <2>2, <2>3, RecalculateFacts
  <2>5. \A w \in Thread : ~(state[w] = "mutex" /\ pc[w].q = m)
    <3>1. Range(waitq[m]) = {x \in Thread : state[x] = SleepState(m) /\ pc[x].q = m}
      BY <1>4, <1>5 DEF LinksAgree, WaitLinks
    <3>2. Range(<<>>) = {}
      BY SMT DEF Range
    <3>3. QED
      BY <1>5, <1>7, <3>1, <3>2
  <2>6. /\ state' \in [Thread -> State] /\ sleep_result' \in [Thread -> Result]
        /\ sched_queue' \in [Priority -> Seq(Thread)] /\ waitq' \in [Queue -> Seq(Thread)]
    BY <1>4, <2>1 DEF TypeOK
  <2>7. /\ RunLinks(sched_queue', state', priority) /\ WaitLinks(waitq', state', pc)
        /\ DestroyLinks(threads_to_destroy, state')
    BY <1>4, <2>1 DEF LinksAgree
  <2>8. CpusAgree'
    BY <1>4, <2>1 DEF SInv, CpusAgree
  <2>9. \A n \in Mutex : Sorted(waitq'[n], priority)
    BY <1>4, <2>1 DEF QueuesSorted
  <2>10. /\ \A x \in Thread : state'[x] = state[x]
        /\ state'[t] = "running" /\ sched_lock' = NoCpu
        /\ \A w \in Thread : state'[w] = "mutex" /\ pc[w].q = m => f <= priority[w]
    BY <1>1, <1>3, <2>1, <2>5
  <2>. HIDE DEF t, f
  <2>11. Released(t, m, e, f)
    BY <1>1, <1>7, <2>1, <2>4, <2>10, <2>3 DEF Released
  <2>12. ReleasedLists
    BY <2>6, <2>7, <2>8, <2>9 DEF ReleasedLists
  <2>13. QED
    BY <1>2, <1>3, <2>4, <2>2, <2>11, <2>12, ReleaseKeepsIInv
<1>8. CASE owner[m] = t /\ waitq[m] # <<>>
  <2>1. /\ owner' = [owner EXCEPT ![m] = NoThread]
        /\ ResumeSleeper(c, u, "ok", At("unlock", m, FALSE), NoCpu)
        /\ IF Preempts(c, u) THEN UNCHANGED <<mpriority, priority>>
                             ELSE Recalculate(t, m, waitq', owner')
        /\ UNCHANGED <<timer, threads_to_destroy, panic>>
    BY <1>8 DEF Unlock
  <2>2. u \in Thread /\ state[u] = "mutex" /\ pc[u].q = m /\ Asleep(u)
    BY <1>4, <1>5, <1>8, HeadAsleep
  <2>3. ~Outranks(c, u)
    <3>1. mpriority[m] <= priority[u]
      BY <1>2, <2>2, WaitersCounted
    <3>2. t # NoThread
      BY <1>3, SchedAssumption
    <3>3. priority[t] <= mpriority[m]
      BY <1>8, <3>2 DEF IInv, OwnersBound
    <3>4. priority[t] \in Nat /\ priority[u] \in Nat
      BY <1>3, <1>4, <2>2, PriorityNat DEF TypeOK
    <3>5. mpriority[m] \in Nat
      BY SMTT(30), <1>4, SchedAssumption DEF MutexTypeOK
    <3>6. ~(priority[u] < priority[t])
      BY SMT, <3>1, <3>3, <3>4, <3>5
    <3>7. QED
      BY <3>6 DEF Outranks
  <2>4. ~Preempts(c, u)
    BY <2>3 DEF Preempts
  <2>5. At("unlock", m, FALSE) \in PcType
    BY <1>5 DEF At, PcType, Op
  <2>6. EnqueueAndMayYield(c, u, At("unlock", m, FALSE), NoCpu) /\ waitq' = Unlink(u)
    BY <2>1 DEF ResumeSleeper
  <2>7. /\ state' = [state EXCEPT ![u] = "ready"] /\ resched' = resched
        /\ sched_lock' = NoCpu /\ UNCHANGED <<pc, mode, curr>>
    BY <2>3, <2>4, <2>6 DEF EnqueueAndMayYield
  <2>8. /\ state' \in [Thread -> State] /\ sched_queue' \in [Priority -> Seq(Thread)]
        /\ RunLinks(sched_queue', state', priority) /\ CpusAgree'
    <3>1. state[u] \in {"suspended", "sleep", "mutex"} /\ NoCpu \in Cpu \cup {NoCpu}
      BY <2>2
    <3>2. QED
      BY <1>4, <2>2, <2>5, <2>6, <3>1, MayYieldFacts
  <2>9. waitq' \in [Queue -> Seq(Thread)] /\ sleep_result' \in [Thread -> Result]
        /\ WaitLinks(waitq', state', pc')
    <3>1. "ok" \in Result /\ NoCpu \in Cpu \cup {NoCpu}
      BY DEF Result
    <3>2. QED
      BY <1>4, <2>1, <2>2, <2>5, <3>1, ResumeFacts
  <2>10. /\ u # t /\ state'[t] = "running" /\ state'[u] = "ready"
         /\ \A x \in Thread : x # u => state'[x] = state[x]
    BY <1>3, <1>4, <2>2, <2>7 DEF TypeOK
  <2>11. DestroyLinks(threads_to_destroy, state')
    <3>1. DestroyLinks(threads_to_destroy, state)
      BY <1>4 DEF LinksAgree
    <3>2. \A x \in Thread : state'[x] = "destroyed" <=> state[x] = "destroyed"
      BY <2>2, <2>10
    <3>3. QED
      BY <3>1, <3>2, DestroyLinksSame
  <2>12. \A n \in Mutex : Sorted(waitq'[n], priority)
    <3>1. SUFFICES ASSUME NEW n \in Mutex PROVE Sorted(waitq'[n], priority)
      OBVIOUS
    <3>2. n \in Queue /\ waitq'[n] = Remove(waitq[n], u)
      BY <2>6 DEF Unlink, Queue
    <3>3. waitq[n] \in Seq(Thread) /\ IsInjective(waitq[n]) /\ Sorted(waitq[n], priority)
      BY <1>4, <3>2 DEF TypeOK, LinksAgree, WaitLinks, QueuesSorted
    <3>. HIDE DEF u
    <3>4. Sorted(Remove(waitq[n], u), priority)
      BY <3>3, RemoveFacts
    <3>5. QED
      BY <3>2, <3>4
  <2>13. Recalculate(t, m, waitq', owner')
    BY <2>1, <2>4
  <2>14. waitq'[m] \in Seq(Thread)
    BY <1>5, <2>9
  <2> DEFINE wq == waitq'
             f == IF wq[m] = <<>> THEN MaxPriorities ELSE priority[Head(wq[m])]
  <2>15. /\ wq[m] \in Seq(Thread) /\ mpriority' = [mpriority EXCEPT ![m] = f]
         /\ priority' = [priority EXCEPT ![t] = EffectivePriority(owner', mpriority', t)]
    BY <2>13, <2>14 DEF Recalculate
  <2>. HIDE DEF wq
  <2>16. f \in 0 .. MaxPriorities
    <3>1. MaxPriorities \in 0 .. MaxPriorities /\ Priority \subseteq 0 .. MaxPriorities
      BY SMT, SchedAssumption DEF Priority
    <3>2. wq[m] # <<>> => Head(wq[m]) \in Thread
      BY SMT, <2>15
    <3>3. priority \in [Thread -> Priority]
      BY <1>4 DEF TypeOK
    <3>4. QED
      BY <3>1, <3>2, <3>3
  <2>17. PICK e \in Priority :
           /\ priority' = [priority EXCEPT ![t] = e]
           /\ \A n \in Mutex : owner'[n] = t => e <= mpriority'[n]
    <3>. HIDE DEF t, f
    <3>1. QED
      BY <1>3, <1>4, <2>1, <2>15, <2>16, RecalculateFacts
  <2>18. ASSUME NEW w \in Thread, state'[w] = "mutex", pc[w].q = m
         PROVE  f <= priority[w]
    <3>1. Range(waitq'[m]) = {x \in Thread : state'[x] = SleepState(m) /\ pc'[x].q = m}
      BY <1>5, <2>9 DEF WaitLinks
    <3>2. w \in Range(wq[m])
      BY <1>5, <2>7, <2>18, <3>1 DEF wq
    <3>3. Range(<<>>) = {}
      BY SMT DEF Range
    <3>4. wq[m] # <<>>
      BY <3>2, <3>3
    <3>5. Sorted(wq[m], priority) /\ priority \in [Thread -> Nat]
      BY <1>4, <2>12, PriorityNat DEF TypeOK, wq
    <3>6. priority[Head(wq[m])] <= priority[w]
      BY <2>15, <3>2, <3>4, <3>5, SortedHead
    <3>7. QED
      BY <3>4, <3>6
  <2>19. WaitLinks(waitq', state', pc)
    BY <2>7, <2>9
  <2>20. \A x \in Thread : state'[x] = state[x] \/ state'[x] = "ready"
    BY <2>10
  <2>21. \A w \in Thread : state'[w] = "mutex" /\ pc[w].q = m => f <= priority[w]
    BY <2>18
  <2>. HIDE DEF t, u, f
  <2>22. Released(t, m, e, f)
    BY <1>1, <1>8, <2>1, <2>7, <2>10, <2>15, <2>17, <2>20, <2>21 DEF Released
  <2>23. ReleasedLists
    BY <2>8, <2>9, <2>11, <2>12, <2>19 DEF ReleasedLists
  <2>24. QED
    BY <1>2, <1>3, <2>17, <2>22, <2>16, <2>23, ReleaseKeepsIInv
<1>9. QED
  BY <1>6, <1>7, <1>8

\* k_mutex_fini() up to its wakeup loop, and k_mutex_init().
LEMMA FiniCreateKeepIInv ==
  ASSUME IInv, NEW c \in Cpu, NEW m \in Mutex, Fini(c, m) \/ Create(c, m)
  PROVE  IInv'
<1>1. /\ sched_lock = NoCpu /\ mode[c] = "run"
      /\ UNCHANGED <<threadVars, queueVars, mode, curr, irq, owner, visit, held>>
      /\ panic' = panic \/ panic' = "mutex locked"
      /\ \/ mpriority' = mpriority /\ live' = [live EXCEPT ![m] = FALSE]
         \/ /\ waitq[m] = <<>> /\ mpriority' = [mpriority EXCEPT ![m] = MaxPriorities]
            /\ live' = [live EXCEPT ![m] = TRUE]
  BY DEF Fini, Create, Stop, InThread, Unlocked, schedVars, cpuVars
<1>2. \/ drain' = drain /\ sched_lock' \in Cpu \cup {NoCpu}
      \/ drain' = [drain EXCEPT ![c] = m] /\ sched_lock' = c
  <2>1. NoCpu \in Cpu \cup {NoCpu} /\ c \in Cpu \cup {NoCpu}
    OBVIOUS
  <2>2. QED
    BY <1>1, <2>1 DEF Fini, Create, Stop, schedVars, cpuVars
<1>3. NoLockPath /\ NoDrain /\ visit = NoQueue
  BY <1>1, NoLockPathFacts, NoDrainFacts
<1>4. TypeOK /\ MutexTypeOK
  BY IInvSInv
<1>5. /\ UNCHANGED <<state, priority, pc, resched, queueVars, mode, curr, irq>>
      /\ sleep_result' = sleep_result /\ timer' = timer
  BY <1>1 DEF threadVars
<1>6. /\ sleep_result' \in [Thread -> Result] /\ timer' \in [Thread -> BOOLEAN]
      /\ held' \in [Thread -> SUBSET Mutex]
  BY <1>1, <1>4, <1>5 DEF TypeOK, MutexTypeOK
<1>7. panic' \in Panic
  BY <1>1, <1>4 DEF MutexTypeOK, Panic
<1>8. live' \in [Mutex -> BOOLEAN]
  BY <1>1, <1>4 DEF MutexTypeOK
<1>9. MaxPriorities \in 0 .. MaxPriorities
  BY SMT, SchedAssumption
<1>10. /\ mpriority' \in [Mutex -> 0 .. MaxPriorities]
       /\ \A n \in Mutex : \/ mpriority'[n] = mpriority[n]
                           \/ mpriority'[n] = MaxPriorities /\ waitq[n] = <<>>
  BY <1>1, <1>4, <1>9 DEF MutexTypeOK
<1>11. /\ drain' \in [Cpu -> Queue \cup {NoQueue}]
       /\ \A d \in Cpu : drain'[d] # NoQueue => sched_lock' = d /\ mode[d] = "run"
       /\ sched_lock' \in Cpu \cup {NoCpu}
  BY ZenonT(60), <1>1, <1>2, <1>3, <1>4 DEF TypeOK, NoDrain, Queue
<1>12. \A n \in Mutex : owner[n] # NoThread => n \in held'[owner[n]]
  BY <1>1 DEF IInv, OwnersHold
<1>13. UNCHANGED <<owner, visit>>
  BY <1>1
<1>14. QED
  BY <1>3, <1>5, <1>6, <1>7, <1>8, <1>10, <1>11, <1>12, <1>13, AsideKeepsIInv

\* The invariant holds when the kernel has been initialised.
LEMMA InitKInv == MutexInit => KInv
<1>1. SUFFICES ASSUME MutexInit PROVE KInv
  OBVIOUS
<1>2. SInv
  BY <1>1, InitSInv DEF MutexInit
<1>3. MaxPriorities \in 0 .. MaxPriorities
  BY SMT, SchedAssumption
<1>4. MutexTypeOK
  BY <1>1, <1>2, <1>3 DEF SInv, MutexInit, MutexTypeOK, Panic
<1>5. /\ \A t \in Thread : pc[t].op = "run" /\ state[t] = "suspended"
      /\ \A c \in Cpu : ~irq[c] /\ drain[c] = NoQueue
  BY <1>1 DEF MutexInit, Init, Run, At
<1>6. visit = NoQueue /\ \A m \in Mutex : owner[m] = NoThread
  BY <1>1 DEF MutexInit
<1>7. LockPathsLocked /\ UnlockIsAtomic /\ LockMasksIrqs
  BY <1>5, <1>6 DEF LockPathsLocked, LockPath, UnlockIsAtomic, LockMasksIrqs
<1>8. OwnersHold /\ OwnersBound
  BY <1>6 DEF OwnersHold, OwnersBound
<1>9. WaitersBound
  BY <1>5 DEF WaitersBound, LockPath
<1>10. QueuesSorted
  BY SMT, <1>1 DEF MutexInit, Init, QueuesSorted, Sorted, Queue
<1>11. QED
  BY <1>2, <1>4, <1>7, <1>8, <1>9, <1>10 DEF KInv, IInv, SInv

\* Every step keeps the invariant.
LEMMA StepKInv ==
  ASSUME KInv, [MutexNext]_vars
  PROVE  KInv'
<1>1. IInv
  BY DEF KInv
<1>2. ASSUME NEW c \in Cpu, MutexOp(c) PROVE IInv'
  <2>1. \A m \in Disposable : m \in Mutex
    BY DisposableAssumption
  <2>2. CASE \/ \E m \in Mutex, timed \in BOOLEAN : Lock(c, m, timed)
             \/ \E m \in Mutex : TryLock(c, m)
             \/ ContinueMutex(c)
    BY <1>1, <2>2, LockSteps
  <2>3. CASE \E m \in Mutex : Unlock(c, m)
    BY <1>1, <2>3, UnlockKeepsIInv
  <2>4. CASE RaisePriority(c)
    BY <1>1, <2>4, RaiseSteps
  <2>5. CASE Block(c)
    BY <2>5, BlockKeepsIInv
  <2>6. CASE \E m \in Disposable : Fini(c, m) \/ Create(c, m)
    BY <1>1, <2>1, <2>6, FiniCreateKeepIInv
  <2>7. QED
    BY <1>2, <2>2, <2>3, <2>4, <2>5, <2>6 DEF MutexOp
<1>3. CASE MutexNext /\ panic = "none"
  <2>1. IInv'
    <3>1. CASE \E c \in Cpu : MutexOp(c)
      BY <1>2, <3>1
    <3>2. CASE (SchedNext \/ \E c \in Cpu : Exit(c)) /\ UNCHANGED mutexVars
      BY <1>1, <3>2, SchedStepIInv
    <3>3. QED
      BY <1>3, <3>1, <3>2 DEF MutexNext
  <2>2. LockMasksIrqs'
    BY <1>3, LockMasksIrqsStep
  <2>3. QED
    BY <2>1, <2>2 DEF KInv
<1>4. CASE UNCHANGED vars
  <2>1. /\ UNCHANGED <<state, priority, pc, sleep_result, timer, resched>>
        /\ UNCHANGED <<sched_queue, waitq, threads_to_destroy>>
        /\ UNCHANGED <<mode, curr, irq, drain, sched_lock>>
        /\ UNCHANGED <<owner, mpriority, live, visit, held, panic>>
    BY <1>4 DEF vars, schedVars, threadVars, queueVars, cpuVars, mutexVars
  <2>2. MutexTypeOK'
    BY <1>1, <2>1 DEF IInv, MutexTypeOK, TypeOK
  <2>3. CpusAgree' /\ LinksAgree' /\ LockPathsLocked'
    <3>1. CpusAgree' /\ LinksAgree'
      BY <1>1, <2>1 DEF IInv, CpusAgree, LinksAgree
    <3>2. LockPathsLocked'
      BY <1>1, <2>1 DEF IInv, LockPathsLocked, LockPath
    <3>3. QED
      BY <3>1, <3>2
  <2>4. OwnersHold' /\ OwnersBound' /\ WaitersBound' /\ QueuesSorted' /\ UnlockIsAtomic'
    BY <1>1, <2>1 DEF IInv, OwnersHold, OwnersBound, WaitersBound, RaisePending,
                             LockPath, QueuesSorted, UnlockIsAtomic
  <2>5. LockMasksIrqs'
    BY <2>1 DEF KInv, LockMasksIrqs
  <2>6. QED
    BY <2>2, <2>3, <2>4, <2>5 DEF KInv, IInv
<1>5. QED
  BY <1>3, <1>4 DEF MutexNext

\* What the bounds are for: an owner has the priority of each of its waiters.
LEMMA InheritedFromIInv == IInv => PriorityInherited
<1>1. SUFFICES ASSUME IInv, visit = NoQueue, NEW m \in Mutex,
                      NEW i \in 1 .. Len(waitq[m]), owner[m] # NoThread
               PROVE  priority[owner[m]] <= priority[waitq[m][i]]
  BY DEF PriorityInherited
<1> DEFINE w == waitq[m][i]
<1>2. m \in Queue /\ SleepState(m) = "mutex" /\ waitq[m] \in Seq(Thread)
  BY <1>1, IInvSInv DEF TypeOK, Queue, SleepState
<1>3. w \in Range(waitq[m])
  BY <1>2, RangeFacts
<1>4. w \in Thread /\ state[w] = "mutex" /\ pc[w].q = m
  BY <1>1, <1>2, <1>3 DEF IInv, LinksAgree, WaitLinks
<1>5. mpriority[m] <= priority[w]
  BY <1>1, <1>4, WaitersCounted
<1>6. priority[owner[m]] <= mpriority[m]
  BY <1>1 DEF IInv, OwnersBound
<1>7. owner[m] \in Thread /\ priority \in [Thread -> Nat]
  BY <1>1, IInvSInv, PriorityNat DEF MutexTypeOK, TypeOK
<1>8. mpriority[m] \in Nat
  BY SMTT(30), <1>1, IInvSInv, SchedAssumption DEF MutexTypeOK
<1>. HIDE DEF w
<1>9. priority[owner[m]] <= priority[w]
  BY SMTT(30), <1>4, <1>5, <1>6, <1>7, <1>8
<1>10. QED
  BY <1>9 DEF w

\* The inductive invariant holds of mutex.c over the scheduler, for any number
\* of threads, CPUs, mutexes and priorities.
THEOREM MutexInvariant == MutexSpec => []KInv
<1>1. KInv /\ [MutexNext]_vars => KInv'
  BY StepKInv
<1>2. QED
  BY InitKInv, <1>1, PTL DEF MutexSpec

\* The variables of mutexes and scheduler keep their types.
THEOREM MutexTypes == MutexSpec => []MutexTypeOK
<1>1. KInv => MutexTypeOK
  BY DEF KInv, IInv
<1>2. QED
  BY MutexInvariant, <1>1, PTL

\* Priority inheritance: outside the calls that raise it, the owner of a mutex
\* has at least the priority of every thread queued on it, along any chain.
THEOREM OwnersInherit == MutexSpec => []PriorityInherited
<1>1. KInv => PriorityInherited
  BY InheritedFromIInv DEF KInv
<1>2. QED
  BY MutexInvariant, <1>1, PTL

\* k_mutex_unlock() is never preempted by the thread that it wakes.
THEOREM UnlockNeverPreempted == MutexSpec => []UnlockIsAtomic
<1>1. KInv => UnlockIsAtomic
  BY DEF KInv, IInv
<1>2. QED
  BY MutexInvariant, <1>1, PTL

\* The queue of a mutex is always in order of the current priorities, and every
\* thread is linked in the one list its state calls for.
THEOREM MutexQueues == MutexSpec => [](QueuesSorted /\ LinksAgree)
<1>1. KInv => QueuesSorted /\ LinksAgree
  BY DEF KInv, IInv
<1>2. QED
  BY MutexInvariant, <1>1, PTL
==============================================================================
