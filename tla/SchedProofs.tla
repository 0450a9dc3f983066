----------------------------- MODULE SchedProofs -----------------------------
(***************************************************************************)
(* Proofs about the scheduler, for any number of threads, CPUs, queues and  *)
(* priorities: the lists and the CPUs always agree with the thread states   *)
(* (SInv), the result of a sleep is decided once, and on one CPU the thread *)
(* that runs has the highest priority.                                      *)
(***************************************************************************)
EXTENDS Sched, PrioQueueProofs

\* Zenon proves most leaves; those that need arithmetic, or more about functions
\* and records, cite SMT.
USE Zenon

SInv == TypeOK /\ CpusAgree /\ LinksAgree

\* _k_sched_enqueue() of a thread that becomes ready keeps the run queues.
LEMMA EnqueueFacts ==
  ASSUME NEW rq \in [Priority -> Seq(Thread)], NEW st \in [Thread -> State],
         NEW t \in Thread, priority \in [Thread -> Priority],
         RunLinks(rq, st, priority), st[t] # "ready"
  PROVE  /\ Enqueue(rq, t) \in [Priority -> Seq(Thread)]
         /\ RunLinks(Enqueue(rq, t), [st EXCEPT ![t] = "ready"], priority)
<1>1. priority[t] \in Priority /\ rq[priority[t]] \in Seq(Thread)
  OBVIOUS
<1>2. t \notin Range(rq[priority[t]]) /\ IsInjective(rq[priority[t]])
  BY <1>1 DEF RunLinks
<1>3. /\ Append(rq[priority[t]], t) \in Seq(Thread)
      /\ Range(Append(rq[priority[t]], t)) = Range(rq[priority[t]]) \cup {t}
      /\ IsInjective(Append(rq[priority[t]], t))
  BY SMT, <1>1, <1>2, AppendFacts
<1>4. Enqueue(rq, t) \in [Priority -> Seq(Thread)]
  BY <1>1, <1>3 DEF Enqueue
<1>5. ASSUME NEW p \in Priority
      PROVE  /\ IsInjective(Enqueue(rq, t)[p])
             /\ Range(Enqueue(rq, t)[p]) =
                 {x \in Thread : [st EXCEPT ![t] = "ready"][x] = "ready" /\ priority[x] = p}
  <2>1. CASE p = priority[t]
    <3>1. Enqueue(rq, t)[p] = Append(rq[priority[t]], t)
      BY <2>1, <1>1 DEF Enqueue
    <3>2. Range(rq[p]) = {x \in Thread : st[x] = "ready" /\ priority[x] = p}
      BY DEF RunLinks
    <3>3. QED
      BY SMT, <1>3, <2>1, <3>1, <3>2
  <2>2. CASE p # priority[t]
    <3>1. Enqueue(rq, t)[p] = rq[p]
      BY <2>2 DEF Enqueue
    <3>2. /\ Range(rq[p]) = {x \in Thread : st[x] = "ready" /\ priority[x] = p}
          /\ IsInjective(rq[p])
      BY DEF RunLinks
    <3>3. QED
      BY <2>2, <3>1, <3>2
  <2>3. QED
    BY <2>1, <2>2
<1>6. QED
  BY <1>4, <1>5 DEF RunLinks

\* Thread t, which runs, goes to sleep on q.
FallsAsleep(t, q) ==
  /\ state[t] = "running"
  /\ state'[t] = SleepState(q)
  /\ pc'[t].q = q
  /\ \A x \in Thread : x # t => state'[x] = state[x] /\ pc'[x] = pc[x]

\* _k_sched_add(): a thread that goes to sleep is added to its wait queue.
LEMMA AddWaiterLinks ==
  ASSUME waitq \in [Queue -> Seq(Thread)], WaitLinks(waitq, state, pc),
         priority \in [Thread -> Nat], NEW t \in Thread, NEW q \in Queue,
         FallsAsleep(t, q),
         waitq' = [waitq EXCEPT ![q] = Add(waitq[q], priority, t)]
  PROVE  waitq' \in [Queue -> Seq(Thread)] /\ WaitLinks(waitq', state', pc')
<1>. USE DEF FallsAsleep
<1>1. \A r \in Queue : SleepState(r) # "running"
  BY DEF SleepState
<1>2. \A r \in Queue :
        /\ IsInjective(waitq[r])
        /\ Range(waitq[r]) = {x \in Thread : state[x] = SleepState(r) /\ pc[x].q = r}
  BY DEF WaitLinks
<1>3. t \notin Range(waitq[q])
  BY <1>1, <1>2
<1> DEFINE a == Add(waitq[q], priority, t)
<1>4. a \in Seq(Thread) /\ IsInjective(a) /\ Range(a) = Range(waitq[q]) \cup {t}
  BY SMT, <1>2, <1>3, AddFacts
<1>. HIDE DEF a
<1>5. /\ waitq'[q] = a
      /\ \A r \in Queue : r # q => waitq'[r] = waitq[r]
      /\ waitq' \in [Queue -> Seq(Thread)]
  BY <1>4 DEF a
<1>6. ASSUME NEW r \in Queue
      PROVE  /\ IsInjective(waitq'[r])
             /\ Range(waitq'[r]) = {x \in Thread : state'[x] = SleepState(r) /\ pc'[x].q = r}
  <2>1. CASE r = q
    <3>1. {x \in Thread : state'[x] = SleepState(q) /\ pc'[x].q = q} =
          {x \in Thread : state[x] = SleepState(q) /\ pc[x].q = q} \cup {t}
      OBVIOUS
    <3>2. QED
      BY SMT, <1>2, <1>4, <1>5, <2>1, <3>1
  <2>2. CASE r # q
    <3>1. {x \in Thread : state'[x] = SleepState(r) /\ pc'[x].q = r} =
          {x \in Thread : state[x] = SleepState(r) /\ pc[x].q = r}
      BY <1>1, <2>2
    <3>2. QED
      BY <1>2, <1>5, <2>2, <3>1
  <2>3. QED
    BY <2>1, <2>2
<1>7. QED
  BY <1>5, <1>6 DEF WaitLinks

\* Priorities are numbers.
LEMMA PriorityNat ==
  ASSUME priority \in [Thread -> Priority]
  PROVE  priority \in [Thread -> Nat]
BY SMT, SchedAssumption DEF Priority

\* The run queues do not notice a change that makes no thread ready or unready.
LEMMA RunLinksSame ==
  ASSUME NEW rq, NEW st, NEW st2, NEW prio, RunLinks(rq, st, prio),
         \A t \in Thread : st2[t] = "ready" <=> st[t] = "ready"
  PROVE  RunLinks(rq, st2, prio)
BY DEF RunLinks

\* The wait queues do not notice a change of state of threads that do not wait.
LEMMA WaitLinksSame ==
  ASSUME NEW wq, NEW st, NEW st2, NEW k, NEW k2, WaitLinks(wq, st, k),
         \A t \in Thread : \/ st2[t] = st[t] /\ k2[t].q = k[t].q
                           \/ st2[t] \notin {"sleep", "mutex"} /\ st[t] \notin {"sleep", "mutex"}
  PROVE  WaitLinks(wq, st2, k2)
BY DEF WaitLinks, SleepState

\* The list of the reaper does not notice a change of state of other threads.
LEMMA DestroyLinksSame ==
  ASSUME NEW s, NEW st, NEW st2, DestroyLinks(s, st),
         \A t \in Thread : st2[t] = "destroyed" <=> st[t] = "destroyed"
  PROVE  DestroyLinks(s, st2)
BY DEF DestroyLinks

PcType == [op : Op, q : Queue \cup {NoQueue}, timed : BOOLEAN]

\* _k_sched_may_yield() and the enqueue before it.
LEMMA MayYieldFacts ==
  ASSUME SInv, NEW c \in Cpu, NEW u \in Thread, NEW k \in PcType,
         NEW hold \in Cpu \cup {NoCpu},
         state[u] \in {"suspended", "sleep", "mutex"},
         EnqueueAndMayYield(c, u, k, hold)
  PROVE  /\ state' \in [Thread -> State]
         /\ pc' \in [Thread -> PcType]
         /\ resched' \in [Thread -> BOOLEAN]
         /\ sched_queue' \in [Priority -> Seq(Thread)]
         /\ mode' \in [Cpu -> Mode]
         /\ curr' \in [Cpu -> Thread \cup {NoThread}]
         /\ sched_lock' \in Cpu \cup {NoCpu}
         /\ RunLinks(sched_queue', state', priority)
         /\ CpusAgree'
         /\ state'[u] = "ready"
         /\ \A x \in Thread : x # u =>
              state'[x] = state[x] \/ (state[x] = "running" /\ state'[x] = "ready")
         /\ \A x \in Thread : pc'[x] = pc[x] \/ state[x] = "running"
<1>. USE DEF SInv, TypeOK
<1>1. RunLinks(sched_queue, state, priority)
  BY DEF LinksAgree
<1>2. CASE Preempts(c, u)
  <2> DEFINE t == curr[c]
             st == [state EXCEPT ![u] = "ready"]
             rq == Enqueue(sched_queue, u)
  <2>1. /\ t \in Thread
        /\ state[t] = "running"
        /\ t # u
        /\ mode[c] = "run"
    BY SMT, <1>2, SchedAssumption DEF Preempts, Outranks, CpusAgree
  <2>2. /\ state' = [st EXCEPT ![t] = "ready"]
        /\ sched_queue' = Enqueue(rq, t)
        /\ pc' = [pc EXCEPT ![t] = k]
        /\ mode' = [mode EXCEPT ![c] = "loop"]
        /\ curr' = [curr EXCEPT ![c] = NoThread]
        /\ sched_lock' = c
        /\ resched' = resched
    BY <1>2 DEF EnqueueAndMayYield, SwitchOut
  <2>3. st \in [Thread -> State] /\ st[t] = "running"
    BY <2>1 DEF State
  <2>4. rq \in [Priority -> Seq(Thread)] /\ RunLinks(rq, st, priority)
    BY <1>1, EnqueueFacts
  <2>. HIDE DEF rq, st
  <2>5. /\ sched_queue' \in [Priority -> Seq(Thread)]
        /\ RunLinks(sched_queue', state', priority)
    BY <2>1, <2>2, <2>3, <2>4, EnqueueFacts
  <2>6. /\ state' \in [Thread -> State]
        /\ pc' \in [Thread -> PcType]
        /\ mode' \in [Cpu -> Mode]
        /\ curr' \in [Cpu -> Thread \cup {NoThread}]
        /\ sched_lock' \in Cpu \cup {NoCpu}
        /\ resched' \in [Thread -> BOOLEAN]
    BY <2>1, <2>2, <2>3 DEF State, Mode, PcType
  <2>7. /\ state'[u] = "ready"
        /\ state'[t] = "ready"
        /\ \A x \in Thread : x # u /\ x # t => state'[x] = state[x]
        /\ \A x \in Thread : x # t => pc'[x] = pc[x]
    BY <2>1, <2>2 DEF st
  <2>8. CpusAgree'
    <3>1. /\ mode'[c] = "loop" /\ curr'[c] = NoThread
          /\ \A d \in Cpu : d # c => mode'[d] = mode[d] /\ curr'[d] = curr[d]
      BY <2>2
    <3>2. \A d \in Cpu : d # c => curr[d] # t
      BY SMT, <2>1, SchedAssumption DEF CpusAgree
    <3>3. \A d \in Cpu : mode'[d] = "run" <=> curr'[d] # NoThread
      <4>a. TAKE d \in Cpu
      <4>b. CASE d = c
        BY <3>1, <4>b
      <4>c. CASE d # c
        BY SMT, <3>1, <4>c DEF CpusAgree
      <4>d. QED
        BY <4>b, <4>c
    <3>4. \A d, e \in Cpu : curr'[d] = curr'[e] /\ curr'[d] # NoThread => d = e
      <4>a. SUFFICES ASSUME NEW d \in Cpu, NEW e \in Cpu,
                            curr'[d] = curr'[e], curr'[d] # NoThread
                     PROVE  d = e
        OBVIOUS
      <4>b. d # c /\ e # c
        BY <3>1, <4>a
      <4>c. curr[d] = curr[e] /\ curr[d] # NoThread
        BY <3>1, <4>a, <4>b
      <4>d. QED
        BY <4>c DEF CpusAgree
    <3>5. \A x \in Thread : state'[x] = "running" <=> \E d \in Cpu : curr'[d] = x
      <4>1. TAKE x \in Thread
      <4>2. CASE x = u
        <5>1. \A d \in Cpu : curr[d] # u
          BY DEF CpusAgree
        <5>2. \A d \in Cpu : curr'[d] # u
          BY <3>1, <5>1, SchedAssumption
        <5>3. QED
          BY <2>7, <4>2, <5>2
      <4>3. CASE x = t
        <5>1. \A d \in Cpu : curr'[d] # t
          BY ZenonT(60), <3>1, <3>2, <2>1, SchedAssumption
        <5>2. QED
          BY <2>7, <4>3, <5>1
      <4>4. CASE x # u /\ x # t
        <5>1. state'[x] = state[x]
          BY <2>7, <4>4
        <5>2. \A d \in Cpu : curr'[d] = x <=> curr[d] = x
          BY <3>1, <4>4, SchedAssumption
        <5>3. QED
          BY SMT, <5>1, <5>2 DEF CpusAgree
      <4>5. QED
        BY <4>2, <4>3, <4>4
    <3>6. QED
      BY <3>3, <3>4, <3>5 DEF CpusAgree
  <2>9. QED
    BY <2>1, <2>5, <2>6, <2>7, <2>8
<1>3. CASE ~Preempts(c, u)
  <2>1. /\ state' = [state EXCEPT ![u] = "ready"]
        /\ sched_queue' = Enqueue(sched_queue, u)
        /\ resched' = IF Outranks(c, u) THEN [resched EXCEPT ![curr[c]] = TRUE]
                                        ELSE resched
        /\ sched_lock' = hold
        /\ pc' = pc /\ mode' = mode /\ curr' = curr
    BY <1>3 DEF EnqueueAndMayYield
  <2>2. /\ sched_queue' \in [Priority -> Seq(Thread)]
        /\ RunLinks(sched_queue', state', priority)
    BY <1>1, <2>1, EnqueueFacts
  <2>3. /\ state' \in [Thread -> State]
        /\ state'[u] = "ready"
        /\ \A x \in Thread : x # u => state'[x] = state[x]
    BY <2>1 DEF State
  <2>4. CpusAgree'
    <3>1. \A d \in Cpu : curr[d] # u
      BY DEF CpusAgree
    <3>2. \A x \in Thread : state'[x] = "running" <=> \E d \in Cpu : curr[d] = x
      BY SMT, <2>3, <3>1 DEF CpusAgree
    <3>3. QED
      BY SMT, <2>1, <3>2 DEF CpusAgree
  <2>5. resched' \in [Thread -> BOOLEAN]
    BY <2>1
  <2>6. QED
    BY <2>1, <2>2, <2>3, <2>4, <2>5 DEF PcType
<1>4. QED
  BY <1>2, <1>3

\* A thread leaves the CPU in another state.
LEMMA LeaveFacts ==
  ASSUME SInv, NEW c \in Cpu, NEW s \in State, NEW k \in PcType,
         s # "running", mode[c] = "run", Leave(c, s, k)
  PROVE  /\ curr[c] \in Thread
         /\ state[curr[c]] = "running"
         /\ state' = [state EXCEPT ![curr[c]] = s]
         /\ pc' = [pc EXCEPT ![curr[c]] = k]
         /\ state' \in [Thread -> State]
         /\ pc' \in [Thread -> PcType]
         /\ mode' \in [Cpu -> Mode]
         /\ curr' \in [Cpu -> Thread \cup {NoThread}]
         /\ sched_lock' = c
         /\ CpusAgree'
<1>. USE DEF SInv, TypeOK
<1> DEFINE t == curr[c]
<1>1. t \in Thread /\ state[t] = "running"
  BY SMT, SchedAssumption DEF CpusAgree
<1>2. /\ state' = [state EXCEPT ![t] = s]
      /\ pc' = [pc EXCEPT ![t] = k]
      /\ mode' = [mode EXCEPT ![c] = "loop"]
      /\ curr' = [curr EXCEPT ![c] = NoThread]
      /\ sched_lock' = c
  BY DEF Leave, SwitchOut
<1>3. /\ state' \in [Thread -> State]
      /\ pc' \in [Thread -> PcType]
      /\ mode' \in [Cpu -> Mode]
      /\ curr' \in [Cpu -> Thread \cup {NoThread}]
  BY <1>1, <1>2 DEF Mode, PcType
<1>4. /\ mode'[c] = "loop" /\ curr'[c] = NoThread
      /\ \A d \in Cpu : d # c => mode'[d] = mode[d] /\ curr'[d] = curr[d]
      /\ state'[t] = s
      /\ \A x \in Thread : x # t => state'[x] = state[x]
  BY <1>1, <1>2
<1>5. \A d \in Cpu : d # c => curr[d] # t
  BY <1>1, SchedAssumption DEF CpusAgree
<1>6. CpusAgree'
  <2>1. \A d \in Cpu : mode'[d] = "run" <=> curr'[d] # NoThread
    <3>a. TAKE d \in Cpu
    <3>b. CASE d = c
      BY <1>4, <3>b
    <3>c. CASE d # c
      BY SMT, <1>4, <3>c DEF CpusAgree
    <3>d. QED
      BY <3>b, <3>c
  <2>2. \A d, e \in Cpu : curr'[d] = curr'[e] /\ curr'[d] # NoThread => d = e
    <3>a. SUFFICES ASSUME NEW d \in Cpu, NEW e \in Cpu,
                          curr'[d] = curr'[e], curr'[d] # NoThread
                   PROVE  d = e
      OBVIOUS
    <3>b. d # c /\ e # c
      BY <1>4, <3>a
    <3>c. curr[d] = curr[e] /\ curr[d] # NoThread
      BY <1>4, <3>a, <3>b
    <3>d. QED
      BY <3>c DEF CpusAgree
  <2>3. \A x \in Thread : state'[x] = "running" <=> \E d \in Cpu : curr'[d] = x
    <3>1. TAKE x \in Thread
    <3>2. CASE x = t
      <4>1. state'[x] # "running"
        BY <1>4, <3>2
      <4>2. t # NoThread
        BY <1>1, SchedAssumption
      <4>3. \A d \in Cpu : curr'[d] # t
        BY <1>4, <1>5, <4>2
      <4>4. QED
        BY <3>2, <4>1, <4>3
    <3>3. CASE x # t
      <4>1. \A d \in Cpu : curr'[d] = x <=> curr[d] = x
        BY SMT, <1>4, <3>3, SchedAssumption
      <4>2. QED
        BY SMT, <1>4, <3>3, <4>1 DEF CpusAgree
    <3>4. QED
      BY <3>2, <3>3
  <2>4. QED
    BY <2>1, <2>2, <2>3 DEF CpusAgree
<1>7. QED
  BY <1>1, <1>2, <1>3, <1>6

\* _k_sched_resume(): the thread leaves its wait queue for a run queue.
LEMMA ResumeFacts ==
  ASSUME SInv, NEW c \in Cpu, NEW u \in Thread, NEW r \in Result, NEW k \in PcType,
         NEW hold \in Cpu \cup {NoCpu}, Asleep(u), ResumeSleeper(c, u, r, k, hold)
  PROVE  /\ waitq' \in [Queue -> Seq(Thread)]
         /\ sleep_result' \in [Thread -> Result]
         /\ WaitLinks(waitq', state', pc')
<1>. USE DEF SInv
<1>1. EnqueueAndMayYield(c, u, k, hold) /\ state[u] \in {"sleep", "mutex"}
  BY DEF ResumeSleeper, Asleep
<1>2. /\ state'[u] = "ready"
      /\ \A x \in Thread : x # u =>
           state'[x] = state[x] \/ (state[x] = "running" /\ state'[x] = "ready")
      /\ \A x \in Thread : pc'[x] = pc[x] \/ state[x] = "running"
  BY <1>1, MayYieldFacts
<1>3. /\ waitq \in [Queue -> Seq(Thread)]
      /\ sleep_result \in [Thread -> Result]
      /\ WaitLinks(waitq, state, pc)
  BY DEF TypeOK, LinksAgree
<1>4. /\ waitq' = [q \in Queue |-> Remove(waitq[q], u)]
      /\ sleep_result' = [sleep_result EXCEPT ![u] = r]
  BY DEF ResumeSleeper, Unlink
<1>5. \A q \in Queue : /\ Remove(waitq[q], u) \in Seq(Thread)
                       /\ IsInjective(Remove(waitq[q], u))
                       /\ Range(Remove(waitq[q], u)) = Range(waitq[q]) \ {u}
  BY <1>3, RemoveFacts DEF WaitLinks
<1>6. ASSUME NEW q \in Queue
      PROVE  Range(waitq'[q]) = {t \in Thread : state'[t] = SleepState(q) /\ pc'[t].q = q}
  <2>1. Range(waitq'[q]) = {t \in Thread : state[t] = SleepState(q) /\ pc[t].q = q} \ {u}
    BY <1>3, <1>4, <1>5 DEF WaitLinks
  <2>2. SleepState(q) \notin {"ready", "running"}
    BY DEF SleepState
  <2>3. ASSUME NEW x \in Thread
        PROVE  state'[x] = SleepState(q) /\ pc'[x].q = q
                 <=> state[x] = SleepState(q) /\ pc[x].q = q /\ x # u
    BY <1>2, <2>2
  <2>4. QED
    BY <2>1, <2>3
<1>7. QED
  BY <1>3, <1>4, <1>5, <1>6 DEF WaitLinks

\* The same facts, gathered for an action that resumes a sleeping thread and
\* otherwise only changes drain and timer.
LEMMA ResumeKeepsSInv ==
  ASSUME SInv, NEW c \in Cpu, NEW u \in Thread, NEW r \in Result, NEW k \in PcType,
         NEW hold \in Cpu \cup {NoCpu}, Asleep(u), ResumeSleeper(c, u, r, k, hold),
         timer' \in [Thread -> BOOLEAN], drain' \in [Cpu -> Queue \cup {NoQueue}],
         UNCHANGED <<priority, threads_to_destroy, irq>>
  PROVE  SInv'
<1>1. EnqueueAndMayYield(c, u, k, hold) /\ state[u] \in {"sleep", "mutex"}
  BY DEF ResumeSleeper, Asleep
<1>2. /\ state' \in [Thread -> State]
      /\ pc' \in [Thread -> PcType]
      /\ resched' \in [Thread -> BOOLEAN]
      /\ sched_queue' \in [Priority -> Seq(Thread)]
      /\ mode' \in [Cpu -> Mode]
      /\ curr' \in [Cpu -> Thread \cup {NoThread}]
      /\ sched_lock' \in Cpu \cup {NoCpu}
      /\ RunLinks(sched_queue', state', priority)
      /\ CpusAgree'
      /\ state'[u] = "ready"
      /\ \A x \in Thread : x # u =>
           state'[x] = state[x] \/ (state[x] = "running" /\ state'[x] = "ready")
  BY <1>1, MayYieldFacts
<1>3. /\ waitq' \in [Queue -> Seq(Thread)]
      /\ sleep_result' \in [Thread -> Result]
      /\ WaitLinks(waitq', state', pc')
  BY ResumeFacts
<1>4. DestroyLinks(threads_to_destroy', state')
  <2>1. \A x \in Thread : state'[x] = "destroyed" <=> state[x] = "destroyed"
    BY <1>1, <1>2
  <2>2. DestroyLinks(threads_to_destroy, state)
    BY DEF SInv, LinksAgree
  <2>3. DestroyLinks(threads_to_destroy, state')
    BY <2>1, <2>2, DestroyLinksSame
  <2>4. QED
    BY <2>3
<1>5. TypeOK'
  BY <1>2, <1>3 DEF SInv, TypeOK, PcType
<1>6. LinksAgree'
  BY <1>2, <1>3, <1>4 DEF LinksAgree
<1>7. QED
  BY <1>2, <1>5, <1>6 DEF SInv

\* A suspended thread becomes ready.
LEMMA StartKeepsSInv ==
  ASSUME SInv, NEW c \in Cpu, NEW u \in Thread, state[u] = "suspended",
         EnqueueAndMayYield(c, u, Run, NoCpu),
         UNCHANGED <<priority, sleep_result, timer, waitq, threads_to_destroy, irq,
                     drain>>
  PROVE  SInv'
<1>1. Run \in PcType
  BY DEF Run, At, PcType, Op
<1>2. /\ state' \in [Thread -> State]
      /\ pc' \in [Thread -> PcType]
      /\ resched' \in [Thread -> BOOLEAN]
      /\ sched_queue' \in [Priority -> Seq(Thread)]
      /\ mode' \in [Cpu -> Mode]
      /\ curr' \in [Cpu -> Thread \cup {NoThread}]
      /\ sched_lock' \in Cpu \cup {NoCpu}
      /\ RunLinks(sched_queue', state', priority)
      /\ CpusAgree'
      /\ state'[u] = "ready"
      /\ \A x \in Thread : x # u =>
           state'[x] = state[x] \/ (state[x] = "running" /\ state'[x] = "ready")
      /\ \A x \in Thread : pc'[x] = pc[x] \/ state[x] = "running"
  BY <1>1, MayYieldFacts
<1>3. WaitLinks(waitq, state', pc')
  <2>1. WaitLinks(waitq, state, pc)
    BY DEF SInv, LinksAgree
  <2>2. \A t \in Thread :
          \/ state'[t] = state[t] /\ pc'[t].q = pc[t].q
          \/ state'[t] \notin {"sleep", "mutex"} /\ state[t] \notin {"sleep", "mutex"}
    BY <1>2
  <2>3. QED
    BY <2>1, <2>2, WaitLinksSame
<1>4. DestroyLinks(threads_to_destroy, state')
  <2>1. DestroyLinks(threads_to_destroy, state)
    BY DEF SInv, LinksAgree
  <2>2. \A x \in Thread : state'[x] = "destroyed" <=> state[x] = "destroyed"
    BY <1>2
  <2>3. QED
    BY <2>1, <2>2, DestroyLinksSame
<1>5. TypeOK'
  BY <1>2 DEF SInv, TypeOK, PcType
<1>6. LinksAgree'
  BY <1>2, <1>3, <1>4 DEF LinksAgree
<1>7. QED
  BY <1>2, <1>5, <1>6 DEF SInv

\* A step that changes no list and no thread's state.
LEMMA QuietKeepsSInv ==
  ASSUME SInv, TypeOK', UNCHANGED <<state, priority, curr, queueVars>>,
         \A t \in Thread : pc'[t].q = pc[t].q \/ state[t] \notin {"sleep", "mutex"},
         \A c \in Cpu : mode'[c] = "run" <=> mode[c] = "run"
  PROVE  SInv'
<1>1. CpusAgree'
  BY DEF SInv, CpusAgree
<1>2. WaitLinks(waitq, state, pc')
  <2>1. WaitLinks(waitq, state, pc)
    BY DEF SInv, LinksAgree
  <2>2. QED
    BY SMT, <2>1, WaitLinksSame
<1>3. LinksAgree'
  BY <1>2 DEF SInv, LinksAgree, queueVars
<1>4. QED
  BY <1>1, <1>3 DEF SInv

\* The thread that runs on a CPU.
LEMMA CurrentRuns ==
  ASSUME SInv, NEW c \in Cpu, mode[c] = "run"
  PROVE  curr[c] \in Thread /\ state[curr[c]] = "running"
BY SMT, SchedAssumption DEF SInv, TypeOK, CpusAgree

\* The scheduler loop, the continuations and the interrupts, as far as they
\* leave the lists alone.
LEMMA QuietSteps ==
  ASSUME SInv, NEW c \in Cpu,
         \/ SchedStart(c) \/ Reaped(c) \/ Idle(c) \/ IdleWake(c)
         \/ ContinueRun(c) \/ ContinueSleep(c) \/ ContinueWakeupAll(c)
         \/ WakeupAllDone(c) \/ IrqBegin(c) \/ IrqTick(c)
         \/ \E q \in WaitQueue : WakeupAll(c, q)
  PROVE  SInv'
<1>. USE DEF SInv, threadVars, queueVars, cpuVars
<1>0. Run \in PcType /\ pc \in [Thread -> PcType]
  BY DEF Run, At, PcType, Op, TypeOK
<1>1. CASE SchedStart(c) \/ Reaped(c) \/ Idle(c) \/ IdleWake(c)
  <2>1. TypeOK'
    BY <1>1 DEF SchedStart, Reaped, Idle, IdleWake, TypeOK, Mode
  <2>2. \A d \in Cpu : mode'[d] = "run" <=> mode[d] = "run"
    BY <1>1 DEF SchedStart, Reaped, Idle, IdleWake, TypeOK
  <2>3. UNCHANGED <<state, priority, curr, queueVars, pc>>
    BY <1>1 DEF SchedStart, Reaped, Idle, IdleWake
  <2>4. QED
    BY <2>1, <2>2, <2>3, QuietKeepsSInv
<1>2. CASE ContinueRun(c) \/ WakeupAllDone(c) \/ IrqBegin(c)
  <2>1. TypeOK'
    BY <1>2 DEF ContinueRun, WakeupAllDone, IrqBegin, TypeOK
  <2>2. UNCHANGED <<state, priority, curr, queueVars, pc, mode>>
    BY <1>2 DEF ContinueRun, WakeupAllDone, IrqBegin
  <2>3. QED
    BY <2>1, <2>2, QuietKeepsSInv
<1>3. CASE IrqTick(c)
  <2>1. curr[c] \in Thread
    BY <1>3 DEF IrqTick, TypeOK
  <2>2. TypeOK'
    BY <1>3, <2>1 DEF IrqTick, TypeOK
  <2>3. UNCHANGED <<state, priority, curr, queueVars, pc, mode>>
    BY <1>3 DEF IrqTick
  <2>4. QED
    BY <2>2, <2>3, QuietKeepsSInv
<1>4. CASE \E q \in WaitQueue : WakeupAll(c, q)
  <2>1. TypeOK'
    BY SMT, <1>4 DEF WakeupAll, TypeOK, Queue
  <2>2. UNCHANGED <<state, priority, curr, queueVars, pc, mode>>
    BY <1>4 DEF WakeupAll
  <2>3. QED
    BY <2>1, <2>2, QuietKeepsSInv
<1>5. CASE ContinueSleep(c) \/ ContinueWakeupAll(c)
  <2>1. curr[c] \in Thread /\ state[curr[c]] = "running"
    BY <1>5, CurrentRuns DEF ContinueSleep, ContinueWakeupAll, Holding
  <2>2. pc' = [pc EXCEPT ![curr[c]] = Run]
    BY <1>5 DEF ContinueSleep, ContinueWakeupAll
  <2>3. pc' \in [Thread -> PcType]
    BY <1>0, <2>1, <2>2
  <2>4. pc[curr[c]].q \in Queue \cup {NoQueue}
    BY <1>0, <2>1 DEF PcType
  <2>5. TypeOK'
    BY <1>5, <2>1, <2>3, <2>4
       DEF ContinueSleep, ContinueWakeupAll, FinishSleep, TypeOK, PcType, Result
  <2>6. UNCHANGED <<state, priority, curr, queueVars, mode>>
    BY <1>5 DEF ContinueSleep, ContinueWakeupAll
  <2>7. \A t \in Thread : pc'[t].q = pc[t].q \/ state[t] \notin {"sleep", "mutex"}
    BY <1>0, <2>1, <2>2
  <2>8. QED
    BY <2>5, <2>6, <2>7, QuietKeepsSInv
<1>6. QED
  BY <1>1, <1>2, <1>3, <1>4, <1>5

\* k_sched_dequeue() and k_sched_switch().
LEMMA DispatchKeepsSInv ==
  ASSUME SInv, NEW c \in Cpu, Dispatch(c)
  PROVE  SInv'
<1>. USE DEF SInv
<1>1. PICK p \in Priority :
        /\ Ready(p)
        /\ LET t == Head(sched_queue[p]) IN
           /\ sched_queue' = [sched_queue EXCEPT ![p] = Tail(@)]
           /\ state' = [state EXCEPT ![t] = "running"]
           /\ curr' = [curr EXCEPT ![c] = t]
  BY DEF Dispatch
<1> DEFINE t == Head(sched_queue[p])
           s == sched_queue[p]
<1>2. /\ s \in Seq(Thread) /\ s # <<>> /\ IsInjective(s)
      /\ Range(s) = {x \in Thread : state[x] = "ready" /\ priority[x] = p}
  BY <1>1 DEF TypeOK, LinksAgree, RunLinks, Ready
<1>3. /\ t \in Range(s)
      /\ Tail(s) \in Seq(Thread) /\ IsInjective(Tail(s))
      /\ Range(Tail(s)) = Range(s) \ {t}
  BY <1>2, HeadTailFacts
<1>4. t \in Thread /\ state[t] = "ready" /\ priority[t] = p
  BY <1>2, <1>3
<1>5. /\ sched_queue' = [sched_queue EXCEPT ![p] = Tail(s)]
      /\ state' = [state EXCEPT ![t] = "running"]
      /\ curr' = [curr EXCEPT ![c] = t]
      /\ mode' = [mode EXCEPT ![c] = "run"]
      /\ mode[c] = "loop"
      /\ UNCHANGED <<priority, pc, sleep_result, timer, resched, waitq,
                     threads_to_destroy, irq, drain, sched_lock>>
  BY <1>1 DEF Dispatch
<1>. HIDE DEF t, s
<1>6. TypeOK'
  BY <1>3, <1>4, <1>5 DEF TypeOK, State, Mode
<1>7. /\ state'[t] = "running"
      /\ \A x \in Thread : x # t => state'[x] = state[x]
      /\ curr'[c] = t /\ mode'[c] = "run"
      /\ \A d \in Cpu : d # c => curr'[d] = curr[d] /\ mode'[d] = mode[d]
      /\ curr[c] = NoThread
      /\ \A d \in Cpu : curr[d] # t
  BY <1>4, <1>5 DEF TypeOK, CpusAgree
<1>8. CpusAgree'
  <2>1. \A d \in Cpu : mode'[d] = "run" <=> curr'[d] # NoThread
    <3>1. TAKE d \in Cpu
    <3>2. CASE d = c
      BY <1>4, <1>7, <3>2, SchedAssumption
    <3>3. CASE d # c
      BY SMT, <1>7, <3>3 DEF CpusAgree
    <3>4. QED
      BY <3>2, <3>3
  <2>2. \A x \in Thread : state'[x] = "running" <=> \E d \in Cpu : curr'[d] = x
    <3>1. TAKE x \in Thread
    <3>2. CASE x = t
      BY <1>7, <3>2
    <3>3. CASE x # t
      <4>1. \A d \in Cpu : curr'[d] = x <=> curr[d] = x
        BY <1>7, <3>3, SchedAssumption
      <4>2. QED
        BY SMT, <1>7, <3>3, <4>1 DEF CpusAgree
    <3>4. QED
      BY <3>2, <3>3
  <2>3. \A d, e \in Cpu : curr'[d] = curr'[e] /\ curr'[d] # NoThread => d = e
    <3>1. SUFFICES ASSUME NEW d \in Cpu, NEW e \in Cpu,
                          curr'[d] = curr'[e], curr'[d] # NoThread
                   PROVE  d = e
      OBVIOUS
    <3>2. CASE d # c /\ e # c
      BY SMTT(30), <1>7, <3>1, <3>2 DEF CpusAgree
    <3>3. CASE d = c \/ e = c
      BY <1>7, <3>1, <3>3
    <3>4. QED
      BY <3>2, <3>3
  <2>4. QED
    BY <2>1, <2>2, <2>3 DEF CpusAgree
<1>9. RunLinks(sched_queue', state', priority')
  <2>1. SUFFICES ASSUME NEW r \in Priority
                 PROVE  /\ IsInjective(sched_queue'[r])
                        /\ Range(sched_queue'[r]) =
                            {x \in Thread : state'[x] = "ready" /\ priority[x] = r}
    BY <1>5 DEF RunLinks
  <2>2. CASE r = p
    <3>1. sched_queue'[r] = Tail(s)
      BY <1>5, <2>2 DEF TypeOK
    <3>2. QED
      BY SMT, <1>2, <1>3, <1>7, <2>2, <3>1
  <2>3. CASE r # p
    <3>1. sched_queue'[r] = sched_queue[r]
      BY <1>5, <2>3 DEF TypeOK
    <3>2. /\ IsInjective(sched_queue[r])
          /\ Range(sched_queue[r]) = {x \in Thread : state[x] = "ready" /\ priority[x] = r}
      BY DEF LinksAgree, RunLinks
    <3>3. QED
      BY SMT, <1>4, <1>7, <2>3, <3>1, <3>2
  <2>4. QED
    BY <2>2, <2>3
<1>10. WaitLinks(waitq', state', pc')
  <2>1. WaitLinks(waitq, state, pc)
    BY DEF LinksAgree
  <2>2. \A x \in Thread :
          \/ state'[x] = state[x] /\ pc'[x].q = pc[x].q
          \/ state'[x] \notin {"sleep", "mutex"} /\ state[x] \notin {"sleep", "mutex"}
    BY <1>4, <1>5, <1>7
  <2>3. WaitLinks(waitq, state', pc')
    BY <2>1, <2>2, WaitLinksSame
  <2>4. QED
    BY <1>5, <2>3
<1>11. DestroyLinks(threads_to_destroy', state')
  <2>1. DestroyLinks(threads_to_destroy, state)
    BY DEF LinksAgree
  <2>2. \A x \in Thread : state'[x] = "destroyed" <=> state[x] = "destroyed"
    BY <1>4, <1>7
  <2>3. DestroyLinks(threads_to_destroy, state')
    BY <2>1, <2>2, DestroyLinksSame
  <2>4. QED
    BY <1>5, <2>3
<1>12. QED
  BY <1>6, <1>8, <1>9, <1>10, <1>11 DEF LinksAgree

\* k_sched_idle() frees a destroyed thread.
LEMMA ReapKeepsSInv ==
  ASSUME SInv, NEW c \in Cpu, Reap(c)
  PROVE  SInv'
<1>. USE DEF SInv
<1> DEFINE t == Head(threads_to_destroy)
<1>1. /\ threads_to_destroy \in Seq(Thread) /\ threads_to_destroy # <<>>
      /\ IsInjective(threads_to_destroy)
      /\ Range(threads_to_destroy) = {x \in Thread : state[x] = "destroyed"}
  BY DEF Reap, TypeOK, LinksAgree, DestroyLinks
<1>2. /\ t \in Range(threads_to_destroy)
      /\ Tail(threads_to_destroy) \in Seq(Thread)
      /\ IsInjective(Tail(threads_to_destroy))
      /\ Range(Tail(threads_to_destroy)) = Range(threads_to_destroy) \ {t}
  BY <1>1, HeadTailFacts
<1>3. t \in Thread /\ state[t] = "destroyed"
  BY <1>1, <1>2
<1>4. /\ state' = [state EXCEPT ![t] = "none"]
      /\ threads_to_destroy' = Tail(threads_to_destroy)
      /\ mode' = [mode EXCEPT ![c] = "free"]
      /\ mode[c] # "run"
      /\ sched_lock' = NoCpu
      /\ UNCHANGED <<priority, pc, sleep_result, timer, resched, sched_queue, waitq,
                     curr, irq, drain>>
  BY DEF Reap
<1>. HIDE DEF t
<1>5. TypeOK'
  BY <1>2, <1>3, <1>4 DEF TypeOK, State, Mode
<1>6. state'[t] = "none" /\ \A x \in Thread : x # t => state'[x] = state[x]
  BY <1>3, <1>4 DEF TypeOK
<1>7. \A x \in Thread : state'[x] = state[x]
                     \/ (state'[x] = "none" /\ state[x] = "destroyed")
  BY <1>3, <1>6
<1>8. CpusAgree'
  <2>1. \A d \in Cpu : mode'[d] = "run" <=> mode[d] = "run"
    BY <1>4 DEF TypeOK
  <2>2. \A x \in Thread : state'[x] = "running" <=> state[x] = "running"
    BY <1>7
  <2>3. QED
    BY SMT, <1>4, <2>1, <2>2 DEF CpusAgree
<1>9. RunLinks(sched_queue, state', priority)
  BY <1>7, RunLinksSame DEF LinksAgree
<1>10. WaitLinks(waitq, state', pc)
  <2>1. WaitLinks(waitq, state, pc)
    BY DEF LinksAgree
  <2>2. \A x \in Thread :
          \/ state'[x] = state[x] /\ pc[x].q = pc[x].q
          \/ state'[x] \notin {"sleep", "mutex"} /\ state[x] \notin {"sleep", "mutex"}
    BY <1>7
  <2>3. QED
    BY <2>1, <2>2, WaitLinksSame
<1>11. DestroyLinks(threads_to_destroy', state')
  BY <1>1, <1>2, <1>3, <1>4, <1>6 DEF DestroyLinks
<1>12. QED
  BY <1>4, <1>5, <1>8, <1>9, <1>10, <1>11 DEF LinksAgree

\* k_thread_create().
LEMMA CreateKeepsSInv ==
  ASSUME SInv, NEW c \in Cpu, NEW u \in Thread, ThreadCreate(c, u)
  PROVE  SInv'
<1>. USE DEF SInv
<1>1. Run \in PcType
  BY DEF Run, At, PcType, Op
<1>2. pc \in [Thread -> PcType]
  BY DEF TypeOK, PcType
<1>3. pc' \in [Thread -> PcType]
  BY <1>1, <1>2 DEF ThreadCreate
<1>4. priority' \in [Thread -> Priority]
  BY SchedAssumption DEF ThreadCreate, TypeOK
<1>5. state' \in [Thread -> State]
  BY DEF ThreadCreate, TypeOK, State
<1>6. TypeOK'
  BY <1>3, <1>4, <1>5 DEF ThreadCreate, TypeOK, PcType, queueVars, cpuVars
<1>7. /\ state[u] = "none" /\ state'[u] = "suspended"
      /\ \A x \in Thread : x # u => /\ state'[x] = state[x] /\ pc'[x] = pc[x]
                                    /\ priority'[x] = priority[x]
  BY <1>2 DEF ThreadCreate, TypeOK
<1>8. UNCHANGED <<queueVars, cpuVars>>
  BY DEF ThreadCreate
<1>9. CpusAgree'
  BY SMTT(30), <1>7, <1>8 DEF CpusAgree, cpuVars
<1>10. RunLinks(sched_queue, state', priority')
  <2>1. RunLinks(sched_queue, state, priority)
    BY DEF LinksAgree
  <2>2. QED
    BY <2>1, <1>7 DEF RunLinks
<1>11. WaitLinks(waitq, state', pc')
  <2>1. WaitLinks(waitq, state, pc)
    BY DEF LinksAgree
  <2>2. \A x \in Thread :
          \/ state'[x] = state[x] /\ pc'[x].q = pc[x].q
          \/ state'[x] \notin {"sleep", "mutex"} /\ state[x] \notin {"sleep", "mutex"}
    BY <1>7
  <2>3. QED
    BY <2>1, <2>2, WaitLinksSame
<1>12. DestroyLinks(threads_to_destroy, state')
  <2>1. DestroyLinks(threads_to_destroy, state)
    BY DEF LinksAgree
  <2>2. \A x \in Thread : state'[x] = "destroyed" <=> state[x] = "destroyed"
    BY <1>7
  <2>3. QED
    BY <2>1, <2>2, DestroyLinksSame
<1>13. QED
  BY <1>6, <1>8, <1>9, <1>10, <1>11, <1>12 DEF LinksAgree, queueVars

\* What a thread that leaves its CPU in state s does not disturb: the lists it
\* does not join.
LEMMA LeaveLinks ==
  ASSUME SInv, NEW c \in Cpu, NEW s \in State, NEW k \in PcType,
         s # "running", mode[c] = "run", Leave(c, s, k)
  PROVE  /\ s # "ready" => RunLinks(sched_queue, state', priority)
         /\ s \notin {"sleep", "mutex"} => WaitLinks(waitq, state', pc')
         /\ s # "destroyed" => DestroyLinks(threads_to_destroy, state')
<1>1. /\ curr[c] \in Thread
      /\ state[curr[c]] = "running"
      /\ state' = [state EXCEPT ![curr[c]] = s]
      /\ pc' = [pc EXCEPT ![curr[c]] = k]
  BY LeaveFacts
<1>2. /\ state'[curr[c]] = s
      /\ \A x \in Thread : x # curr[c] => state'[x] = state[x] /\ pc'[x] = pc[x]
  BY <1>1 DEF SInv, TypeOK
<1>3. /\ RunLinks(sched_queue, state, priority)
      /\ WaitLinks(waitq, state, pc)
      /\ DestroyLinks(threads_to_destroy, state)
  BY DEF SInv, LinksAgree
<1>4. ASSUME s # "ready" PROVE RunLinks(sched_queue, state', priority)
  <2>1. \A x \in Thread : state'[x] = "ready" <=> state[x] = "ready"
    BY <1>1, <1>2, <1>4
  <2>2. QED
    BY <1>3, <2>1, RunLinksSame
<1>5. ASSUME s \notin {"sleep", "mutex"} PROVE WaitLinks(waitq, state', pc')
  <2>1. \A x \in Thread :
          \/ state'[x] = state[x] /\ pc'[x].q = pc[x].q
          \/ state'[x] \notin {"sleep", "mutex"} /\ state[x] \notin {"sleep", "mutex"}
    BY <1>1, <1>2, <1>5
  <2>2. QED
    BY <1>3, <2>1, WaitLinksSame
<1>6. ASSUME s # "destroyed" PROVE DestroyLinks(threads_to_destroy, state')
  <2>1. \A x \in Thread : state'[x] = "destroyed" <=> state[x] = "destroyed"
    BY <1>1, <1>2, <1>6
  <2>2. QED
    BY <1>3, <2>1, DestroyLinksSame
<1>7. QED
  BY <1>4, <1>5, <1>6

\* A thread yields: k_thread_yield() and the rescheduling at the end of an IRQ.
LEMMA YieldKeepsSInv ==
  ASSUME SInv, NEW c \in Cpu, mode[c] = "run", Leave(c, "ready", Run),
         sched_queue' = Enqueue(sched_queue, curr[c]),
         resched' \in [Thread -> BOOLEAN], irq' \in [Cpu -> BOOLEAN],
         UNCHANGED <<priority, sleep_result, timer, waitq, threads_to_destroy, drain>>
  PROVE  SInv'
<1>. USE DEF SInv
<1>1. Run \in PcType /\ "ready" \in State
  BY DEF Run, At, PcType, Op, State
<1>2. /\ curr[c] \in Thread /\ state[curr[c]] = "running"
      /\ state' = [state EXCEPT ![curr[c]] = "ready"]
      /\ state' \in [Thread -> State]
      /\ pc' \in [Thread -> PcType]
      /\ mode' \in [Cpu -> Mode]
      /\ curr' \in [Cpu -> Thread \cup {NoThread}]
      /\ sched_lock' = c
      /\ CpusAgree'
  BY <1>1, LeaveFacts
<1>3. /\ sched_queue' \in [Priority -> Seq(Thread)]
      /\ RunLinks(sched_queue', state', priority)
  <2>1. /\ sched_queue \in [Priority -> Seq(Thread)] /\ state \in [Thread -> State]
        /\ priority \in [Thread -> Priority] /\ RunLinks(sched_queue, state, priority)
    BY DEF TypeOK, LinksAgree
  <2>2. QED
    BY <1>2, <2>1, EnqueueFacts
<1>4. WaitLinks(waitq, state', pc') /\ DestroyLinks(threads_to_destroy, state')
  BY <1>1, LeaveLinks
<1>5. TypeOK'
  BY <1>2, <1>3 DEF TypeOK, PcType
<1>6. QED
  BY <1>2, <1>3, <1>4, <1>5 DEF LinksAgree

\* k_thread_suspend().
LEMMA SuspendKeepsSInv ==
  ASSUME SInv, NEW c \in Cpu, ThreadSuspend(c)
  PROVE  SInv'
<1>. USE DEF SInv
<1>1. /\ Run \in PcType /\ "suspended" \in State
      /\ mode[c] = "run" /\ Leave(c, "suspended", Run)
      /\ UNCHANGED <<priority, sleep_result, timer, resched, sched_queue, waitq,
                     threads_to_destroy, irq, drain>>
  BY DEF Run, At, PcType, Op, State, ThreadSuspend, InThread, queueVars
<1>2. /\ state' \in [Thread -> State]
      /\ pc' \in [Thread -> PcType]
      /\ mode' \in [Cpu -> Mode]
      /\ curr' \in [Cpu -> Thread \cup {NoThread}]
      /\ sched_lock' = c
      /\ CpusAgree'
  BY <1>1, LeaveFacts
<1>3. /\ RunLinks(sched_queue, state', priority)
      /\ WaitLinks(waitq, state', pc') /\ DestroyLinks(threads_to_destroy, state')
  BY <1>1, LeaveLinks
<1>4. TypeOK'
  BY <1>1, <1>2 DEF TypeOK, PcType
<1>5. QED
  BY <1>1, <1>2, <1>3, <1>4 DEF LinksAgree

\* k_thread_exit().
LEMMA ExitKeepsSInv ==
  ASSUME SInv, NEW c \in Cpu, ThreadExit(c)
  PROVE  SInv'
<1>. USE DEF SInv
<1>1. /\ Run \in PcType /\ "destroyed" \in State
      /\ mode[c] = "run" /\ Leave(c, "destroyed", Run)
      /\ threads_to_destroy' = Append(threads_to_destroy, curr[c])
      /\ UNCHANGED <<priority, sleep_result, timer, resched, sched_queue, waitq,
                     irq, drain>>
  BY DEF Run, At, PcType, Op, State, ThreadExit, InThread
<1>2. /\ curr[c] \in Thread /\ state[curr[c]] = "running"
      /\ state' = [state EXCEPT ![curr[c]] = "destroyed"]
      /\ state' \in [Thread -> State]
      /\ pc' \in [Thread -> PcType]
      /\ mode' \in [Cpu -> Mode]
      /\ curr' \in [Cpu -> Thread \cup {NoThread}]
      /\ sched_lock' = c
      /\ CpusAgree'
  BY <1>1, LeaveFacts
<1>3. RunLinks(sched_queue, state', priority) /\ WaitLinks(waitq, state', pc')
  BY <1>1, LeaveLinks
<1>4. /\ threads_to_destroy \in Seq(Thread) /\ IsInjective(threads_to_destroy)
      /\ Range(threads_to_destroy) = {x \in Thread : state[x] = "destroyed"}
  BY DEF TypeOK, LinksAgree, DestroyLinks
<1>5. curr[c] \notin Range(threads_to_destroy)
  BY <1>2, <1>4
<1>6. /\ threads_to_destroy' \in Seq(Thread) /\ IsInjective(threads_to_destroy')
      /\ Range(threads_to_destroy') = Range(threads_to_destroy) \cup {curr[c]}
  BY SMTT(30), <1>1, <1>2, <1>4, <1>5, AppendFacts
<1>7. DestroyLinks(threads_to_destroy', state')
  BY SMT, <1>2, <1>4, <1>6 DEF DestroyLinks, TypeOK
<1>8. TypeOK'
  BY <1>1, <1>2, <1>6 DEF TypeOK, PcType
<1>9. QED
  BY <1>1, <1>2, <1>3, <1>7, <1>8 DEF LinksAgree

\* _k_sched_sleep() on any queue, up to the switch.
LEMMA BlockKeepsSInv ==
  ASSUME SInv, NEW c \in Cpu, NEW q \in Queue, NEW k \in PcType, k.q = q,
         mode[c] = "run", Leave(c, SleepState(q), k),
         waitq' = [waitq EXCEPT ![q] = Add(@, priority, curr[c])],
         timer' \in [Thread -> BOOLEAN],
         UNCHANGED <<priority, sleep_result, resched, sched_queue,
                     threads_to_destroy, irq, drain>>
  PROVE  SInv'
<1>. USE DEF SInv
<1> DEFINE s == SleepState(q)
           t == curr[c]
<1>1. s \in State /\ s \in {"sleep", "mutex"}
  BY DEF SleepState, State
<1>2. /\ t \in Thread /\ state[t] = "running"
      /\ state' = [state EXCEPT ![t] = s]
      /\ pc' = [pc EXCEPT ![t] = k]
      /\ state' \in [Thread -> State]
      /\ pc' \in [Thread -> PcType]
      /\ mode' \in [Cpu -> Mode]
      /\ curr' \in [Cpu -> Thread \cup {NoThread}]
      /\ sched_lock' = c
      /\ CpusAgree'
  BY <1>1, LeaveFacts
<1>3. RunLinks(sched_queue, state', priority) /\ DestroyLinks(threads_to_destroy, state')
  BY <1>1, LeaveLinks
<1>4. /\ waitq \in [Queue -> Seq(Thread)]
      /\ WaitLinks(waitq, state, pc)
      /\ priority \in [Thread -> Priority]
  BY DEF TypeOK, LinksAgree
<1>5. priority \in [Thread -> Nat]
  BY <1>4, PriorityNat
<1>6. /\ state'[t] = s /\ pc'[t].q = q
      /\ \A x \in Thread : x # t => state'[x] = state[x] /\ pc'[x] = pc[x]
  BY <1>2 DEF TypeOK
<1>. HIDE DEF t
<1>7. waitq' = [waitq EXCEPT ![q] = Add(waitq[q], priority, t)]
  BY DEF t
<1>8. t \in Thread /\ FallsAsleep(t, q)
  BY <1>2, <1>6 DEF t, FallsAsleep
<1>. HIDE DEF s
<1>11. waitq' \in [Queue -> Seq(Thread)] /\ WaitLinks(waitq', state', pc')
  BY <1>4, <1>5, <1>7, <1>8, AddWaiterLinks
<1>12. TypeOK'
  BY <1>2, <1>11 DEF TypeOK, PcType
<1>13. QED
  BY <1>2, <1>3, <1>11, <1>12 DEF LinksAgree

\* The head of a queue sleeps on it.
LEMMA HeadAsleep ==
  ASSUME SInv, NEW q \in Queue, waitq[q] # <<>>
  PROVE  /\ Head(waitq[q]) \in Thread
         /\ state[Head(waitq[q])] = SleepState(q)
         /\ pc[Head(waitq[q])].q = q
         /\ Asleep(Head(waitq[q]))
<1>1. waitq[q] \in Seq(Thread)
  BY DEF SInv, TypeOK
<1>2. Head(waitq[q]) \in Range(waitq[q])
  BY <1>1, HeadTailFacts
<1>3. QED
  BY <1>2 DEF SInv, LinksAgree, WaitLinks, SleepState, Asleep

\* The wakeups, interruptions and timeouts of sleeping threads.
LEMMA WakeupSteps ==
  ASSUME SInv, NEW c \in Cpu,
         \/ \E u \in Thread : ThreadInterrupt(c, u) \/ IrqTimeout(c, u)
         \/ \E q \in WaitQueue : WakeupOne(c, q)
         \/ WakeupAllNext(c)
  PROVE  SInv'
<1>0. Run \in PcType /\ NoCpu \in Cpu \cup {NoCpu} /\ c \in Cpu \cup {NoCpu}
  BY DEF Run, At, PcType, Op
<1>1. ASSUME NEW u \in Thread, ThreadInterrupt(c, u) PROVE SInv'
  <2>1. /\ Asleep(u) /\ ResumeSleeper(c, u, "intr", Run, NoCpu)
        /\ UNCHANGED <<priority, timer, threads_to_destroy, irq, drain>>
        /\ "intr" \in Result
    BY <1>1 DEF ThreadInterrupt, Result
  <2>2. timer' \in [Thread -> BOOLEAN] /\ drain' \in [Cpu -> Queue \cup {NoQueue}]
    BY <2>1 DEF SInv, TypeOK
  <2>3. QED
    BY <1>0, <2>1, <2>2, ResumeKeepsSInv
<1>2. ASSUME NEW u \in Thread, IrqTimeout(c, u) PROVE SInv'
  <2>1. /\ timer' = [timer EXCEPT ![u] = FALSE]
        /\ UNCHANGED <<priority, threads_to_destroy, irq, drain>>
        /\ "timedout" \in Result
    BY <1>2 DEF IrqTimeout, Result
  <2>2. timer' \in [Thread -> BOOLEAN] /\ drain' \in [Cpu -> Queue \cup {NoQueue}]
    BY <2>1 DEF SInv, TypeOK
  <2>3. CASE Asleep(u)
    <3>1. ResumeSleeper(c, u, "timedout", Run, NoCpu)
      BY <1>2, <2>3 DEF IrqTimeout
    <3>2. QED
      BY <1>0, <2>1, <2>2, <2>3, <3>1, ResumeKeepsSInv
  <2>4. CASE ~Asleep(u)
    <3>1. UNCHANGED <<state, pc, sleep_result, resched, sched_queue, waitq, mode,
                      curr, sched_lock>>
      BY <1>2, <2>4 DEF IrqTimeout
    <3>2. TypeOK'
      BY <2>1, <2>2, <3>1 DEF SInv, TypeOK
    <3>3. UNCHANGED <<state, priority, curr, queueVars>>
      BY <2>1, <3>1 DEF queueVars
    <3>4. QED
      BY <3>1, <3>2, <3>3, QuietKeepsSInv
  <2>5. QED
    BY <2>3, <2>4
<1>3. ASSUME NEW q \in WaitQueue, WakeupOne(c, q) PROVE SInv'
  <2>1. /\ waitq[q] # <<>> /\ q \in Queue
        /\ ResumeSleeper(c, Head(waitq[q]), "ok", Run, NoCpu)
        /\ UNCHANGED <<priority, timer, threads_to_destroy, irq, drain>>
        /\ "ok" \in Result
    BY <1>3 DEF WakeupOne, Result, Queue
  <2>2. timer' \in [Thread -> BOOLEAN] /\ drain' \in [Cpu -> Queue \cup {NoQueue}]
    BY <2>1 DEF SInv, TypeOK
  <2>3. Head(waitq[q]) \in Thread /\ Asleep(Head(waitq[q]))
    BY <2>1, HeadAsleep
  <2>4. QED
    BY <1>0, <2>1, <2>2, <2>3, ResumeKeepsSInv
<1>4. ASSUME WakeupAllNext(c) PROVE SInv'
  <2> DEFINE q == drain[c]
             u == Head(waitq[q])
             r == IF q \in Mutex THEN "inval" ELSE "ok"
  <2>1. /\ q # NoQueue /\ waitq[q] # <<>>
        /\ ResumeSleeper(c, u, r, At("wakeall", q, FALSE), c)
        /\ drain' = IF Preempts(c, u) THEN [drain EXCEPT ![c] = NoQueue] ELSE drain
        /\ UNCHANGED <<priority, timer, threads_to_destroy, irq>>
    BY <1>4 DEF WakeupAllNext
  <2>2. timer' \in [Thread -> BOOLEAN] /\ drain' \in [Cpu -> Queue \cup {NoQueue}]
    BY <2>1 DEF SInv, TypeOK
  <2>3. q \in Queue /\ r \in Result
    BY <2>1 DEF SInv, TypeOK, Result
  <2>4. At("wakeall", q, FALSE) \in PcType
    BY <2>3 DEF At, PcType, Op
  <2>5. u \in Thread /\ Asleep(u)
    BY <2>1, <2>3, HeadAsleep
  <2>. HIDE DEF u, r, q
  <2>6. QED
    BY <1>0, <2>1, <2>2, <2>3, <2>4, <2>5, ResumeKeepsSInv
<1>5. QED
  BY <1>1, <1>2, <1>3, <1>4

\* The operations that start a thread or make the current one leave the CPU.
LEMMA SwitchSteps ==
  ASSUME SInv, NEW c \in Cpu,
         \/ \E u \in Thread : BootResume(u) \/ ThreadResume(c, u)
         \/ ThreadYield(c) \/ IrqEnd(c)
         \/ \E q \in WaitQueue, timed \in BOOLEAN : Sleep(c, q, timed)
  PROVE  SInv'
<1>1. ASSUME NEW u \in Thread, BootResume(u) PROVE SInv'
  BY <1>1, StartKeepsSInv, SchedAssumption DEF BootResume
<1>2. ASSUME NEW u \in Thread, ThreadResume(c, u) PROVE SInv'
  BY <1>2, StartKeepsSInv DEF ThreadResume
<1>3. CASE ThreadYield(c)
  <2>1. /\ mode[c] = "run" /\ Leave(c, "ready", Run)
        /\ sched_queue' = Enqueue(sched_queue, curr[c])
        /\ UNCHANGED <<priority, sleep_result, timer, resched, waitq,
                       threads_to_destroy, irq, drain>>
    BY <1>3 DEF ThreadYield, InThread
  <2>2. resched' \in [Thread -> BOOLEAN] /\ irq' \in [Cpu -> BOOLEAN]
    BY <2>1 DEF SInv, TypeOK
  <2>3. QED
    BY <2>1, <2>2, YieldKeepsSInv
<1>4. CASE IrqEnd(c)
  <2>1. /\ irq' = [irq EXCEPT ![c] = FALSE]
        /\ UNCHANGED <<priority, sleep_result, timer, waitq, threads_to_destroy, drain>>
    BY <1>4 DEF IrqEnd
  <2>2. irq' \in [Cpu -> BOOLEAN]
    BY <2>1 DEF SInv, TypeOK
  <2>3. CASE curr[c] # NoThread /\ resched[curr[c]]
    <3>1. /\ resched' = [resched EXCEPT ![curr[c]] = FALSE]
          /\ sched_queue' = Enqueue(sched_queue, curr[c])
          /\ Leave(c, "ready", Run)
      BY <1>4, <2>3 DEF IrqEnd
    <3>2. mode[c] = "run"
      BY <2>3 DEF SInv, CpusAgree
    <3>3. resched' \in [Thread -> BOOLEAN]
      BY <3>1 DEF SInv, TypeOK
    <3>4. QED
      BY <2>1, <2>2, <3>1, <3>2, <3>3, YieldKeepsSInv
  <2>4. CASE ~(curr[c] # NoThread /\ resched[curr[c]])
    <3>1. UNCHANGED <<resched, sched_queue, state, pc, mode, curr, sched_lock>>
      BY <1>4, <2>4 DEF IrqEnd
    <3>2. TypeOK'
      BY <2>1, <2>2, <3>1 DEF SInv, TypeOK
    <3>3. UNCHANGED <<state, priority, curr, queueVars>>
      BY <2>1, <3>1 DEF queueVars
    <3>4. QED
      BY <3>1, <3>2, <3>3, QuietKeepsSInv
  <2>5. QED
    BY <2>3, <2>4
<1>5. ASSUME NEW q \in WaitQueue, NEW timed \in BOOLEAN, Sleep(c, q, timed)
      PROVE  SInv'
  <2>1. /\ mode[c] = "run"
        /\ waitq' = [waitq EXCEPT ![q] = Add(@, priority, curr[c])]
        /\ timer' = [timer EXCEPT ![curr[c]] = timed]
        /\ Leave(c, "sleep", At("sleep", q, timed))
        /\ UNCHANGED <<priority, sleep_result, resched, sched_queue,
                       threads_to_destroy, irq, drain>>
    BY <1>5 DEF Sleep, InThread
  <2>2. /\ q \in Queue /\ SleepState(q) = "sleep"
        /\ At("sleep", q, timed) \in PcType /\ At("sleep", q, timed).q = q
    BY SchedAssumption DEF Queue, SleepState, At, PcType, Op
  <2>3. timer' \in [Thread -> BOOLEAN]
    BY <2>1 DEF SInv, TypeOK
  <2>4. Leave(c, SleepState(q), At("sleep", q, timed))
    BY <2>1, <2>2 DEF Leave
  <2> DEFINE k == At("sleep", q, timed)
  <2>. HIDE DEF k
  <2>5. k \in PcType /\ k.q = q /\ Leave(c, SleepState(q), k)
    BY <2>2, <2>4 DEF k
  <2>6. QED
    BY <2>1, <2>2, <2>3, <2>5, BlockKeepsSInv
<1>6. QED
  BY <1>1, <1>2, <1>3, <1>4, <1>5

\* Every step of the scheduler, and a stuttering step, keeps SInv.
LEMMA SchedStep ==
  ASSUME SInv, SchedNext \/ (\E c \in Cpu : ThreadExit(c)) \/ UNCHANGED schedVars
  PROVE  SInv'
<1>1. CASE \E t \in Thread : BootResume(t)
  BY <1>1, SwitchSteps, SchedAssumption
<1>2. ASSUME NEW c \in Cpu, SchedLoop(c) PROVE SInv'
  BY <1>2, QuietSteps, DispatchKeepsSInv, ReapKeepsSInv, WakeupSteps DEF SchedLoop
<1>3. ASSUME NEW c \in Cpu, ThreadOp(c) PROVE SInv'
  BY <1>3, QuietSteps, WakeupSteps, SwitchSteps, SuspendKeepsSInv, CreateKeepsSInv
     DEF ThreadOp
<1>4. ASSUME NEW c \in Cpu, Interrupt(c) PROVE SInv'
  BY <1>4, QuietSteps, WakeupSteps, SwitchSteps DEF Interrupt
<1>5. ASSUME NEW c \in Cpu, ThreadExit(c) PROVE SInv'
  BY <1>5, ExitKeepsSInv
<1>6. CASE UNCHANGED schedVars
  BY <1>6 DEF schedVars, threadVars, queueVars, cpuVars, SInv, TypeOK, CpusAgree,
              LinksAgree
<1>7. QED
  BY <1>1, <1>2, <1>3, <1>4, <1>5, <1>6 DEF SchedNext

\* main() leaves the scheduler in a state that satisfies SInv.
LEMMA InitSInv == Init => SInv
<1>1. SUFFICES ASSUME Init PROVE SInv
  OBVIOUS
<1>2. Run \in PcType
  BY DEF Run, At, PcType, Op
<1>3. pc \in [Thread -> PcType]
  BY <1>1, <1>2 DEF Init
<1>4. <<>> \in Seq(Thread) /\ Range(<<>>) = {} /\ IsInjective(<<>>)
  BY SMT DEF Range, IsInjective
<1>5. TypeOK
  BY SMTT(30), <1>1, <1>3, SchedAssumption DEF Init, TypeOK, PcType, State, Result, Mode
<1>6. CpusAgree
  BY <1>1, SchedAssumption DEF Init, CpusAgree
<1>7. LinksAgree
  BY <1>1, <1>4 DEF Init, LinksAgree, RunLinks, WaitLinks, DestroyLinks, SleepState
<1>8. QED
  BY <1>5, <1>6, <1>7 DEF SInv

\* The scheduler's state is well typed in every reachable state.
THEOREM SchedTypeOK == Spec => []TypeOK
<1>1. SInv /\ [Next]_schedVars => SInv'
  BY SchedStep DEF Next
<1>2. SInv => TypeOK
  BY DEF SInv
<1>3. QED
  BY <1>1, <1>2, InitSInv, PTL DEF Spec

\* CPUs and threads agree, whatever the number of CPUs and threads: a thread is
\* running exactly if it is the current thread of one CPU, and of one only.
THEOREM SchedCpusAgree == Spec => []CpusAgree
<1>1. SInv /\ [Next]_schedVars => SInv'
  BY SchedStep DEF Next
<1>2. SInv => CpusAgree
  BY DEF SInv
<1>3. QED
  BY <1>1, <1>2, InitSInv, PTL DEF Spec

\* Every thread's link is on exactly the list its state calls for, so that no
\* operation ever adds a linked thread to a list or loses one.
THEOREM SchedLinksAgree == Spec => []LinksAgree
<1>1. SInv /\ [Next]_schedVars => SInv'
  BY SchedStep DEF Next
<1>2. SInv => LinksAgree
  BY DEF SInv
<1>3. QED
  BY <1>1, <1>2, InitSInv, PTL DEF Spec
-----------------------------------------------------------------------------
(* Results of sleeps, and priorities.                                      *)

\* What ResultIsStable says of a step.
ResultsKept ==
  \A t \in Thread :
    pc[t].op \in {"sleep", "lock"} /\ pc'[t] = pc[t] /\ ~Asleep(t)
      => sleep_result'[t] = sleep_result[t]

LEMMA ResumeKeepsResults ==
  ASSUME SInv, NEW u \in Thread, Asleep(u), NEW r,
         sleep_result' = [sleep_result EXCEPT ![u] = r]
  PROVE  ResultsKept
BY DEF SInv, TypeOK, ResultsKept

LEMMA ResultStep ==
  ASSUME SInv, SchedNext \/ (\E c \in Cpu : ThreadExit(c)) \/ UNCHANGED schedVars
  PROVE  ResultsKept
<1>1. ASSUME NEW c \in Cpu, NEW q \in Queue, waitq[q] # <<>>, NEW r,
             sleep_result' = [sleep_result EXCEPT ![Head(waitq[q])] = r]
      PROVE  ResultsKept
  BY <1>1, HeadAsleep, ResumeKeepsResults
<1>2. ASSUME NEW c \in Cpu, ContinueSleep(c) PROVE ResultsKept
  <2>1. /\ pc' = [pc EXCEPT ![curr[c]] = Run] /\ pc[curr[c]].op = "sleep"
        /\ sleep_result' = [sleep_result EXCEPT ![curr[c]] = "ok"]
    BY <1>2 DEF ContinueSleep, Holding, FinishSleep
  <2>2. Run.op = "run"
    BY DEF Run, At
  <2>3. QED
    BY <2>1, <2>2 DEF SInv, TypeOK, ResultsKept
<1>3. ASSUME NEW c \in Cpu, WakeupAllNext(c) PROVE ResultsKept
  <2>1. PICK r \in {"inval", "ok"} : /\ drain[c] # NoQueue /\ waitq[drain[c]] # <<>>
              /\ sleep_result' = [sleep_result EXCEPT ![Head(waitq[drain[c]])] = r]
    BY <1>3 DEF WakeupAllNext, ResumeSleeper
  <2>2. drain[c] \in Queue
    BY <2>1 DEF SInv, TypeOK
  <2>3. QED
    BY <1>1, <2>1, <2>2
<1>4. ASSUME NEW c \in Cpu, NEW q \in WaitQueue, WakeupOne(c, q) PROVE ResultsKept
  BY <1>1, <1>4 DEF WakeupOne, ResumeSleeper, Queue
<1>5. ASSUME NEW c \in Cpu, NEW u \in Thread, ThreadInterrupt(c, u) \/ IrqTimeout(c, u)
      PROVE  ResultsKept
  <2>1. CASE UNCHANGED sleep_result
    BY <2>1 DEF ResultsKept
  <2>2. CASE ~UNCHANGED sleep_result
    <3>1. Asleep(u) /\ \E r \in Result : sleep_result' = [sleep_result EXCEPT ![u] = r]
      BY <1>5, <2>2 DEF ThreadInterrupt, IrqTimeout, ResumeSleeper, Result
    <3>2. QED
      BY <3>1, ResumeKeepsResults
  <2>3. QED
    BY <2>1, <2>2
<1>6. CASE UNCHANGED sleep_result
  BY <1>6 DEF ResultsKept
<1>7. ASSUME NEW c \in Cpu, SchedLoop(c) PROVE ResultsKept
  <2>1. ContinueSleep(c) \/ WakeupAllNext(c) \/ UNCHANGED sleep_result
    BY <1>7 DEF SchedLoop, SchedStart, Dispatch, Reap, Reaped, Idle, IdleWake,
                ContinueRun, ContinueWakeupAll, WakeupAllDone, threadVars
  <2>2. QED
    BY <1>2, <1>3, <1>6, <2>1
<1>8. ASSUME NEW c \in Cpu, ThreadOp(c) PROVE ResultsKept
  <2>1. \/ \E u \in Thread : ThreadInterrupt(c, u)
        \/ \E q \in WaitQueue : WakeupOne(c, q)
        \/ UNCHANGED sleep_result
    BY <1>8 DEF ThreadOp, ThreadYield, ThreadSuspend, ThreadCreate, ThreadResume, Sleep,
                WakeupAll, threadVars
  <2>2. QED
    BY <1>4, <1>5, <1>6, <2>1
<1>9. ASSUME NEW c \in Cpu, Interrupt(c) PROVE ResultsKept
  <2>1. (\E u \in Thread : IrqTimeout(c, u)) \/ UNCHANGED sleep_result
    BY <1>9 DEF Interrupt, IrqBegin, IrqTick, IrqEnd, threadVars
  <2>2. QED
    BY <1>5, <1>6, <2>1
<1>10. CASE (\E t \in Thread : BootResume(t)) \/ (\E c \in Cpu : ThreadExit(c))
  BY <1>6, <1>10 DEF BootResume, ThreadExit
<1>11. CASE UNCHANGED schedVars
  BY <1>6, <1>11 DEF schedVars, threadVars
<1>12. QED
  BY <1>7, <1>8, <1>9, <1>10, <1>11 DEF SchedNext

\* The result of a sleep or of a wait for a mutex is decided once: after the thread
\* has been made ready, no later wakeup, timeout or interrupt changes it before the
\* thread itself has returned.
THEOREM SchedResultIsStable == Spec => ResultIsStable
<1>1. SInv /\ [Next]_schedVars => SInv'
  BY SchedStep DEF Next
<1>2. SInv /\ [Next]_schedVars => [ResultsKept]_schedVars
  BY ResultStep DEF Next
<1>3. QED
  BY <1>1, <1>2, InitSInv, PTL DEF Spec, ResultIsStable, ResultsKept

\* With one CPU: the thread that runs has the highest priority, or an IRQ handler
\* has asked for it to be rescheduled and has not returned yet.
HighestOrAsked ==
  \A c \in Cpu : Cpu = {c} /\ mode[c] = "run"
    => \A u \in Thread : state[u] = "ready" =>
         priority[curr[c]] <= priority[u] \/ (irq[c] /\ resched[curr[c]])

\* Nothing that HighestOrAsked is about changes, for the worse.
LEMMA QuietPriorities ==
  ASSUME SInv, HighestOrAsked, UNCHANGED <<mode, curr, irq, resched, priority>>,
         \A t \in Thread : state'[t] = "ready" => state[t] = "ready"
  PROVE  HighestOrAsked'
BY DEF HighestOrAsked

\* A CPU that leaves its thread.
LEMMA NotRunning ==
  ASSUME SInv, NEW c \in Cpu, NEW m, mode' = [mode EXCEPT ![c] = m], m # "run"
  PROVE  HighestOrAsked'
BY DEF SInv, TypeOK, HighestOrAsked

LEMMA ResumeOrAsk ==
  ASSUME SInv, HighestOrAsked, NEW c \in Cpu, NEW u \in Thread, NEW k, NEW hold,
         EnqueueAndMayYield(c, u, k, hold), UNCHANGED <<priority, irq>>
  PROVE  HighestOrAsked'
<1>1. CASE Preempts(c, u)
  BY <1>1, NotRunning DEF EnqueueAndMayYield, SwitchOut
<1>2. CASE ~Preempts(c, u)
  <2>1. /\ state' = [state EXCEPT ![u] = "ready"] /\ UNCHANGED <<mode, curr>>
        /\ resched' = IF Outranks(c, u) THEN [resched EXCEPT ![curr[c]] = TRUE] ELSE resched
    BY <1>2 DEF EnqueueAndMayYield
  <2>2. SUFFICES ASSUME Cpu = {c}, mode[c] = "run", NEW x \in Thread, state'[x] = "ready"
                 PROVE  priority[curr[c]] <= priority[x] \/ (irq[c] /\ resched'[curr[c]])
    BY <2>1 DEF HighestOrAsked
  <2>3. curr[c] \in Thread /\ priority[curr[c]] \in Nat /\ priority[u] \in Nat
    BY SMT, <2>2, PriorityNat DEF SInv, TypeOK, CpusAgree
  <2>4. resched[curr[c]] => resched'[curr[c]]
    BY <2>1, <2>3 DEF SInv, TypeOK
  <2>5. CASE x # u
    BY <2>1, <2>2, <2>4, <2>5 DEF SInv, TypeOK, HighestOrAsked
  <2>6. CASE x = u /\ Outranks(c, u)
    BY <1>2, <2>1, <2>3, <2>6 DEF Preempts, SInv, TypeOK
  <2>7. CASE x = u /\ ~Outranks(c, u)
    BY SMTT(30), <2>2, <2>3, <2>7 DEF Outranks, SInv, CpusAgree
  <2>8. QED
    BY <2>5, <2>6, <2>7
<1>3. QED
  BY <1>1, <1>2

\* k_sched_dequeue() takes a thread of the highest priority.
LEMMA DispatchHighest ==
  ASSUME SInv, NEW c \in Cpu, Dispatch(c)
  PROVE  HighestOrAsked'
<1>1. PICK p \in Priority :
        /\ Ready(p) /\ \A hp \in 0 .. p - 1 : ~Ready(hp)
        /\ state' = [state EXCEPT ![Head(sched_queue[p])] = "running"]
        /\ curr' = [curr EXCEPT ![c] = Head(sched_queue[p])]
  BY DEF Dispatch
<1> DEFINE t == Head(sched_queue[p])
<1>2. t \in Range(sched_queue[p])
  BY <1>1, HeadTailFacts DEF Ready, SInv, TypeOK
<1>3. t \in Thread /\ priority[t] = p
  BY <1>2 DEF SInv, LinksAgree, RunLinks
<1>4. ASSUME NEW x \in Thread, state[x] = "ready" PROVE p <= priority[x]
  <2>1. priority[x] \in Priority
    BY DEF SInv, TypeOK
  <2>2. x \in Range(sched_queue[priority[x]])
    BY <1>4, <2>1 DEF SInv, LinksAgree, RunLinks
  <2>3. Ready(priority[x])
    BY SMT, <2>1, <2>2, RangeFacts DEF Ready, SInv, TypeOK
  <2>4. QED
    BY SMT, <1>1, <2>1, <2>3, SchedAssumption DEF Priority
<1>5. UNCHANGED priority /\ mode' = [mode EXCEPT ![c] = "run"]
  BY DEF Dispatch
<1>. HIDE DEF t
<1>6. state' = [state EXCEPT ![t] = "running"] /\ curr' = [curr EXCEPT ![c] = t]
  BY <1>1 DEF t
<1>7. QED
  BY <1>3, <1>4, <1>5, <1>6 DEF SInv, TypeOK, HighestOrAsked

LEMMA CreateKeepsPriorities ==
  ASSUME SInv, HighestOrAsked, NEW c \in Cpu, NEW u \in Thread, ThreadCreate(c, u)
  PROVE  HighestOrAsked'
<1>1. /\ state[u] = "none" /\ state' = [state EXCEPT ![u] = "suspended"]
      /\ priority' = [priority EXCEPT ![u] = SavedPriority[u]]
      /\ resched' = [resched EXCEPT ![u] = FALSE]
      /\ UNCHANGED <<mode, curr, irq>>
  BY DEF ThreadCreate, cpuVars
<1>2. ASSUME NEW d \in Cpu, mode[d] = "run" PROVE curr[d] \in Thread /\ curr[d] # u
  <2>1. curr[d] \in Thread
    BY SMT, <1>2 DEF SInv, TypeOK, CpusAgree
  <2>2. state[curr[d]] = "running"
    BY <2>1 DEF SInv, CpusAgree
  <2>3. QED
    BY <1>1, <2>1, <2>2
<1>3. \A x \in Thread : x # u => /\ state'[x] = state[x] /\ priority'[x] = priority[x]
                                 /\ resched'[x] = resched[x]
  BY <1>1 DEF SInv, TypeOK
<1>4. state'[u] # "ready"
  BY <1>1 DEF SInv, TypeOK
<1>5. QED
  BY SMT, <1>1, <1>2, <1>3, <1>4 DEF HighestOrAsked

\* Interrupts that resume nobody.
LEMMA IrqKeepsPriorities ==
  ASSUME SInv, HighestOrAsked, NEW c \in Cpu, IrqBegin(c) \/ IrqTick(c) \/ IrqEnd(c)
  PROVE  HighestOrAsked'
<1>1. CASE IrqBegin(c)
  BY <1>1 DEF IrqBegin, threadVars, SInv, TypeOK, HighestOrAsked
<1>2. CASE IrqTick(c)
  <2>1. /\ resched' = [resched EXCEPT ![curr[c]] = TRUE]
        /\ UNCHANGED <<state, priority, mode, curr, irq>>
    BY <1>2 DEF IrqTick, cpuVars
  <2>2. \A t \in Thread : resched[t] => resched'[t]
    BY <2>1 DEF SInv, TypeOK
  <2>3. \A d \in Cpu : mode[d] = "run" => curr[d] \in Thread
    BY SMT DEF SInv, TypeOK, CpusAgree
  <2>4. QED
    BY <2>1, <2>2, <2>3 DEF HighestOrAsked
<1>3. CASE IrqEnd(c)
  <2>1. CASE curr[c] # NoThread /\ resched[curr[c]]
    BY <1>3, <2>1, NotRunning DEF IrqEnd, Leave, SwitchOut
  <2>2. CASE ~(curr[c] # NoThread /\ resched[curr[c]])
    <3>1. UNCHANGED <<resched, state, priority, mode, curr>>
      BY <1>3, <2>2 DEF IrqEnd
    <3>2. mode[c] = "run" => ~resched[curr[c]]
      BY <2>2 DEF SInv, CpusAgree
    <3>3. QED
      BY <3>1, <3>2 DEF HighestOrAsked
  <2>3. QED
    BY <2>1, <2>2
<1>4. QED
  BY <1>1, <1>2, <1>3

LEMMA PrioritiesStep ==
  ASSUME SInv, HighestOrAsked, Next \/ UNCHANGED schedVars
  PROVE  HighestOrAsked'
<1>1. ASSUME NEW c \in Cpu, SchedLoop(c) PROVE HighestOrAsked'
  <2>1. CASE SchedStart(c) \/ Reap(c) \/ Reaped(c) \/ Idle(c) \/ IdleWake(c)
    BY <2>1, NotRunning DEF SchedStart, Reap, Reaped, Idle, IdleWake
  <2>2. CASE Dispatch(c)
    BY <2>2, DispatchHighest
  <2>3. CASE ContinueRun(c) \/ ContinueSleep(c) \/ ContinueWakeupAll(c) \/ WakeupAllDone(c)
    <3>1. UNCHANGED <<state, mode, curr, irq, resched, priority>>
      BY <2>3 DEF ContinueRun, ContinueSleep, ContinueWakeupAll, WakeupAllDone, threadVars
    <3>2. QED
      BY <3>1, QuietPriorities
  <2>4. CASE WakeupAllNext(c)
    <3>1. /\ EnqueueAndMayYield(c, Head(waitq[drain[c]]), At("wakeall", drain[c], FALSE), c)
          /\ drain[c] # NoQueue /\ waitq[drain[c]] # <<>> /\ UNCHANGED <<priority, irq>>
      BY <2>4 DEF WakeupAllNext, ResumeSleeper
    <3>2. Head(waitq[drain[c]]) \in Thread
      BY <3>1, HeadAsleep DEF SInv, TypeOK
    <3>3. QED
      BY <3>1, <3>2, ResumeOrAsk
  <2>5. QED
    BY <1>1, <2>1, <2>2, <2>3, <2>4 DEF SchedLoop
<1>2. ASSUME NEW c \in Cpu, ThreadOp(c) \/ ThreadExit(c) PROVE HighestOrAsked'
  <2>1. ASSUME NEW q \in WaitQueue, WakeupOne(c, q) PROVE HighestOrAsked'
    <3>1. /\ EnqueueAndMayYield(c, Head(waitq[q]), Run, NoCpu)
          /\ waitq[q] # <<>> /\ UNCHANGED <<priority, irq>>
      BY <2>1 DEF WakeupOne, ResumeSleeper
    <3>2. Head(waitq[q]) \in Thread
      BY <3>1, HeadAsleep DEF Queue
    <3>3. QED
      BY <3>1, <3>2, ResumeOrAsk
  <2>2. ASSUME NEW u \in Thread, ThreadResume(c, u) \/ ThreadInterrupt(c, u)
        PROVE  HighestOrAsked'
    BY <2>2, ResumeOrAsk DEF ThreadResume, ThreadInterrupt, ResumeSleeper
  <2>3. CASE ThreadYield(c) \/ ThreadSuspend(c) \/ ThreadExit(c)
    BY <2>3, NotRunning DEF ThreadYield, ThreadSuspend, ThreadExit, Leave, SwitchOut
  <2>4. ASSUME NEW q \in WaitQueue, NEW timed \in BOOLEAN, Sleep(c, q, timed)
        PROVE  HighestOrAsked'
    BY <2>4, NotRunning DEF Sleep, Leave, SwitchOut
  <2>5. ASSUME NEW q \in WaitQueue, WakeupAll(c, q) PROVE HighestOrAsked'
    BY <2>5, QuietPriorities DEF WakeupAll, threadVars
  <2>6. QED
    BY <1>2, <2>1, <2>2, <2>3, <2>4, <2>5, CreateKeepsPriorities DEF ThreadOp
<1>3. ASSUME NEW c \in Cpu, Interrupt(c) PROVE HighestOrAsked'
  <2>1. ASSUME NEW u \in Thread, IrqTimeout(c, u) PROVE HighestOrAsked'
    <3>1. CASE Asleep(u)
      BY <2>1, <3>1, ResumeOrAsk DEF IrqTimeout, ResumeSleeper
    <3>2. CASE ~Asleep(u)
      BY <2>1, <3>2, QuietPriorities DEF IrqTimeout
    <3>3. QED
      BY <3>1, <3>2
  <2>2. QED
    BY <1>3, <2>1, IrqKeepsPriorities DEF Interrupt
<1>4. ASSUME NEW u \in Thread, BootResume(u) PROVE HighestOrAsked'
  BY <1>4, ResumeOrAsk, SchedAssumption DEF BootResume
<1>5. CASE UNCHANGED schedVars
  BY <1>5, QuietPriorities DEF schedVars, threadVars, cpuVars
<1>6. QED
  BY <1>1, <1>2, <1>3, <1>4, <1>5 DEF Next, SchedNext

\* On one CPU, no ready thread has a higher priority than the thread that runs, as
\* soon as interrupts that have asked for a switch have returned.
THEOREM SchedHighestPriorityRuns == Spec => []HighestPriorityRuns
<1>1. Init => HighestOrAsked
  BY DEF Init, HighestOrAsked
<1>2. SInv /\ HighestOrAsked /\ [Next]_schedVars => SInv' /\ HighestOrAsked'
  BY SchedStep, PrioritiesStep DEF Next
<1>3. SInv /\ HighestOrAsked => HighestPriorityRuns
  BY DEF HighestOrAsked, HighestPriorityRuns, InThread
<1>4. QED
  BY <1>1, <1>2, <1>3, InitSInv, PTL DEF Spec
=============================================================================
