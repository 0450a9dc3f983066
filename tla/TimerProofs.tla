---------------------------- MODULE TimerProofs ----------------------------
(***************************************************************************)
(* Proofs about Timer, for any number of timers and any length of a tick.   *)
(***************************************************************************)
EXTENDS Timer, PrioQueueProofs, TLAPS

\* Zenon proves most leaves; those that need arithmetic, or more about functions
\* and records, cite SMT.
USE Zenon

\* process_set_itimer() gets no value that is shorter than a tick.
WholeTicks == \A us \in Times : us = 0 \/ us >= UsPerTick

\* The time of the entry before place i.
DueBefore(i) == IF i = 1 THEN 0 ELSE due[queue[i - 1]]

\* Where CPU 0 and process_set_itimer() are.
StepsAgree ==
  /\ (tick \in {"idle", "expire"}) => fired = NoTimer /\ current = NoTimer
  /\ (tick \in {"callback", "return"}) => fired # NoTimer /\ current \in {NoTimer, fired}
  /\ tick = "rearm" => fired # NoTimer /\ current = fired /\ inserting = fired
  /\ tick = "expire" => inserting = NoTimer
  /\ (setting.step = "none") <=> (plock = NoTimer)
  /\ setting.step \in {"init", "enqueue"} => setting.value # 0
  /\ (setting.step = "enqueue") <=> (inserting # NoTimer /\ tick # "rearm")
  /\ setting.step = "enqueue" => inserting = plock

\* A timer that is about to be armed is not armed.
ArmedOnce ==
  /\ setting.step = "init" => due[plock] = Never /\ current # plock
  /\ tick \in {"callback", "return"} /\ current # NoTimer => due[current] = Never

\* The queue is in the order of the times, ...
InOrder ==
  \A i, j \in 1 .. Len(queue) : i <= j => due[queue[i]] <= due[queue[j]]

\* ... nothing is due between ticks, ...
NoneDue == tick = "idle" => \A t \in Timer : due[t] # 0

\* ... and the search has taken off what the entries it has passed count.
SearchExact ==
  inserting # NoTimer =>
    /\ cursor \in 1 .. Len(queue) + 1
    /\ due[inserting] = remain[inserting] + DueBefore(cursor)
    /\ due[inserting] # 0

TimerInv ==
  /\ TypeOK /\ NeverPanics
  /\ ArmedAreQueued /\ DeltasExact
  /\ StepsAgree /\ ArmedOnce /\ InOrder /\ NoneDue /\ SearchExact
-----------------------------------------------------------------------------
\* What the invariant says about the entries of the queue, in numbers.
LEMMA QueueFacts ==
  ASSUME TimerInv
  PROVE  /\ Len(queue) \in Nat
         /\ \A i \in 1 .. Len(queue) :
              queue[i] \in Timer /\ due[queue[i]] \in Nat /\ remain[queue[i]] \in Nat
         /\ \A t : Queued(t) <=> \E i \in 1 .. Len(queue) : t = queue[i]
         /\ \A t \in Timer : due[t] \in Nat <=> due[t] # Never
<1>1. queue \in Seq(Timer) /\ Len(queue) \in Nat
  BY SMT DEF TimerInv, TypeOK
<1>2. \A t : Queued(t) <=> \E i \in 1 .. Len(queue) : t = queue[i]
  BY <1>1, RangeFacts DEF Queued
<1>3. \A t \in Timer : due[t] \in Nat <=> due[t] # Never
  BY TimerAssumption DEF TimerInv, TypeOK
<1>4. \A i \in 1 .. Len(queue) :
        queue[i] \in Timer /\ due[queue[i]] \in Nat /\ remain[queue[i]] \in Nat
  <2>1. TAKE i \in 1 .. Len(queue)
  <2>2. queue[i] \in Timer
    BY SMT, <1>1
  <2>3. Queued(queue[i])
    BY <1>2
  <2>4. QED
    BY <1>3, <2>2, <2>3 DEF TimerInv, TypeOK, ArmedAreQueued
<1>5. QED
  BY <1>1, <1>2, <1>3, <1>4

\* Outside process_set_itimer() the record of its arguments is well-typed.
LEMMA NotSettingFacts ==
  NotSetting \in [step : {"none", "stop", "init", "enqueue"},
                  value : Times \union {0}, interval : Times \union {0}]
BY DEF NotSetting

\* The boot state: nothing armed, no tick running.
LEMMA InitFacts == Init => TimerInv
<1>1. SUFFICES ASSUME Init PROVE TimerInv
  OBVIOUS
<1>2. TypeOK
  <2>1. /\ setting \in [step : {"none", "stop", "init", "enqueue"},
                        value : Times \union {0}, interval : Times \union {0}]
        /\ queue \in Seq(Timer)
    BY SMT, <1>1, NotSettingFacts DEF Init
  <2>2. /\ remain \in [Timer -> Nat] /\ period \in [Timer -> Nat]
        /\ due \in [Timer -> Nat \union {Never}]
        /\ tick \in Ticking /\ cursor \in Nat \ {0}
    BY SMT, <1>1 DEF Init, Ticking
  <2>3. panic \in BOOLEAN
    BY <1>1 DEF Init
  <2>4. QED
    BY <1>1, <2>1, <2>2, <2>3 DEF Init, TypeOK
<1>3. queue = <<>> /\ Range(queue) = {}
  BY SMT, <1>1 DEF Init, Range
<1>4. QED
  BY SMT, <1>1, <1>2, <1>3, TimerAssumption
    DEF Init, TimerInv, NeverPanics, ArmedAreQueued, DeltasExact, StepsAgree, ArmedOnce,
        InOrder, NoneDue, SearchExact, Queued, NotSetting

\* Taking __process_lock touches no timer.
LEMMA SetBeginFacts ==
  ASSUME TimerInv, NEW t \in Timer, NEW value \in Times, NEW interval \in Times,
         SetBegin(t, value, interval)
  PROVE  TimerInv'
<1>1. TypeOK'
  BY DEF TimerInv, TypeOK, SetBegin
<1>2. StepsAgree'
  BY TimerAssumption DEF TimerInv, StepsAgree, TypeOK, SetBegin
<1>3. QED
  BY <1>1, <1>2
    DEF TimerInv, NeverPanics, ArmedAreQueued, DeltasExact, ArmedOnce,
        InOrder, NoneDue, SearchExact, Queued, DueBefore, SetBegin

\* process_itimer() touches no timer.
LEMMA CallbackFacts ==
  ASSUME TimerInv, Callback
  PROVE  TimerInv'
<1>1. TypeOK'
  BY DEF TimerInv, TypeOK, Callback, Ticking
<1>2. QED
  BY <1>1
    DEF TimerInv, NeverPanics, ArmedAreQueued, DeltasExact, StepsAgree, ArmedOnce,
        InOrder, NoneDue, SearchExact, Queued, DueBefore, Callback

\* A tick takes one off the head and off every deadline.
LEMMA TickBeginFacts ==
  ASSUME TimerInv, TickBegin
  PROVE  TimerInv'
<1>1. CASE queue = <<>>
  <2>1. UNCHANGED vars
    BY <1>1 DEF TickBegin, vars
  <2>2. QED
    BY SMT, <2>1
      DEF TimerInv, TypeOK, NeverPanics, ArmedAreQueued, DeltasExact, StepsAgree, ArmedOnce,
          InOrder, NoneDue, SearchExact, Queued, DueBefore, vars
<1>2. CASE queue # <<>>
  <2> DEFINE h == queue[1]
  <2>1. /\ Len(queue) \in Nat \ {0}
        /\ Head(queue) = h
        /\ \A i \in 1 .. Len(queue) :
             queue[i] \in Timer /\ due[queue[i]] \in Nat /\ remain[queue[i]] \in Nat
        /\ \A t \in Timer : due[t] \in Nat <=> due[t] # Never
    BY SMTT(30), <1>2, QueueFacts DEF TimerInv, TypeOK
  <2>2. /\ tick = "idle" /\ inserting = NoTimer /\ fired = NoTimer /\ current = NoTimer
        /\ \A t \in Timer : due[t] # 0
    BY DEF TickBegin, Unlocked, TimerInv, StepsAgree, NoneDue
  <2>3. h \in Timer /\ due[h] = remain[h] /\ remain[h] # 0
    <3>1. 1 \in 1 .. Len(queue)
      BY SMT, <2>1
    <3>2. h \in Timer /\ due[h] \in Nat /\ remain[h] \in Nat /\ due[h] # 0
      BY <2>1, <2>2, <3>1
    <3>3. due[h] = remain[h] + 0
      BY <3>1 DEF TimerInv, DeltasExact
    <3>4. QED
      BY SMT, <3>2, <3>3
  <2>4. /\ remain' = [remain EXCEPT ![h] = @ - 1]
        /\ tick' = "expire" /\ panic' = FALSE
        /\ UNCHANGED <<queue, period, current, fired, inserting, cursor, plock, setting>>
        /\ due' = [t \in Timer |-> IF due[t] \in Nat /\ due[t] > 0 THEN due[t] - 1 ELSE due[t]]
    BY <1>2, <2>1, <2>3 DEF TickBegin, TimerInv, TypeOK
  <2>5. /\ \A i \in 1 .. Len(queue) : due'[queue[i]] = due[queue[i]] - 1
        /\ \A t \in Timer : due'[t] = Never <=> due[t] = Never
    <3>1. \A t \in Timer : due[t] = Never => due'[t] = Never
      BY <2>4, TimerAssumption
    <3>2. \A t \in Timer : due[t] # Never => due'[t] = due[t] - 1 /\ due'[t] \in Nat
      BY SMT, <2>1, <2>2, <2>4
    <3>3. QED
      BY <2>1, <3>1, <3>2, TimerAssumption
  <2>6. TypeOK'
    <3>1. remain' \in [Timer -> Nat]
      BY SMT, <2>3, <2>4 DEF TimerInv, TypeOK
    <3>2. due' \in [Timer -> Nat \union {Never}]
      BY SMT, <2>4 DEF TimerInv, TypeOK
    <3>3. QED
      BY <2>4, <3>1, <3>2 DEF TimerInv, TypeOK, Ticking
  <2>7. ArmedAreQueued'
    BY <2>4, <2>5 DEF TimerInv, ArmedAreQueued, Queued
  <2>8. DeltasExact'
    <3>1. SUFFICES ASSUME NEW i \in 1 .. Len(queue)
                   PROVE  due'[queue[i]] = remain'[queue[i]]
                            + (IF i = 1 THEN 0 ELSE due'[queue[i - 1]])
      BY SMT, <2>4 DEF DeltasExact
    <3>2. due[queue[i]] = remain[queue[i]] + (IF i = 1 THEN 0 ELSE due[queue[i - 1]])
      BY DEF TimerInv, DeltasExact
    <3>3. CASE i = 1
      BY SMT, <2>1, <2>3, <2>4, <2>5, <3>2, <3>3 DEF TimerInv, TypeOK
    <3>4. CASE i # 1
      <4>1. i - 1 \in 1 .. Len(queue) /\ queue[i] # h
        BY SMT, <2>1, <3>4 DEF TimerInv, ArmedAreQueued
      <4>2. remain'[queue[i]] = remain[queue[i]]
        BY <2>1, <2>4, <4>1 DEF TimerInv, TypeOK
      <4>3. /\ due[queue[i - 1]] \in Nat /\ due'[queue[i - 1]] = due[queue[i - 1]] - 1
            /\ due[queue[i]] \in Nat /\ due'[queue[i]] = due[queue[i]] - 1
            /\ remain[queue[i]] \in Nat
        BY <2>1, <2>5, <4>1
      <4>4. QED
        BY SMT, <3>2, <3>4, <4>2, <4>3
    <3>5. QED
      BY <3>3, <3>4
  <2>9. InOrder'
    BY SMT, <2>1, <2>4, <2>5 DEF TimerInv, InOrder
  <2>10. StepsAgree' /\ SearchExact' /\ NoneDue' /\ NeverPanics'
    BY <2>2, <2>4 DEF TimerInv, StepsAgree, SearchExact, NoneDue, NeverPanics
  <2>11. ArmedOnce'
    <3>1. setting.step = "init" => plock \in Timer
      BY DEF TimerInv, TypeOK, StepsAgree
    <3>2. QED
      BY <2>2, <2>4, <2>5, <3>1 DEF TimerInv, ArmedOnce
  <2>12. QED
    BY <2>6, <2>7, <2>8, <2>9, <2>10, <2>11 DEF TimerInv
<1>3. QED
  BY <1>1, <1>2

\* The head goes when it counts 0; its successor counts from the same tick.
LEMMA TickExpireFacts ==
  ASSUME TimerInv, TickExpire
  PROVE  TimerInv'
<1> DEFINE h == queue[1]
<1>1. /\ tick = "expire" /\ inserting = NoTimer /\ fired = NoTimer /\ current = NoTimer
      /\ UNCHANGED <<remain, period, inserting, cursor, plock, setting, panic>>
  BY DEF TickExpire, TimerInv, StepsAgree
<1>2. /\ Len(queue) \in Nat
      /\ \A i \in 1 .. Len(queue) :
           queue[i] \in Timer /\ due[queue[i]] \in Nat /\ remain[queue[i]] \in Nat
      /\ \A t : Queued(t) <=> \E i \in 1 .. Len(queue) : t = queue[i]
  BY QueueFacts
<1>3. queue # <<>> => /\ 1 \in 1 .. Len(queue) /\ Head(queue) = h /\ h \in Timer
                      /\ due[h] = remain[h]
  <2>1. HAVE queue # <<>>
  <2>2. 1 \in 1 .. Len(queue) /\ Head(queue) = h
    BY SMT, <1>2, <2>1 DEF TimerInv, TypeOK
  <2>3. due[h] = remain[h] + 0 /\ remain[h] \in Nat
    BY <1>2, <2>2 DEF TimerInv, DeltasExact
  <2>4. QED
    BY SMT, <1>2, <2>2, <2>3
<1>4. CASE ~(queue # <<>> /\ remain[Head(queue)] = 0)
  <2>1. tick' = "idle" /\ UNCHANGED <<queue, current, fired, due>>
    BY <1>4 DEF TickExpire
  <2>2. TypeOK'
    BY <1>1, <2>1 DEF TimerInv, TypeOK, Ticking
  <2>3. NoneDue'
    <3>1. SUFFICES ASSUME NEW t \in Timer, due[t] = 0 PROVE FALSE
      BY <2>1 DEF NoneDue
    <3>2. Queued(t)
      BY SMT, <1>1, <3>1, TimerAssumption DEF TimerInv, ArmedAreQueued
    <3>3. PICK i \in 1 .. Len(queue) : t = queue[i]
      BY <1>2, <3>2
    <3>4. queue # <<>>
      BY SMT, <1>2, <3>3 DEF TimerInv, TypeOK
    <3>5. due[h] <= due[queue[i]] /\ due[h] \in Nat
      BY SMT, <1>2, <1>3, <3>4 DEF TimerInv, InOrder
    <3>6. QED
      BY SMT, <1>2, <1>3, <1>4, <3>1, <3>3, <3>4, <3>5
  <2>4. QED
    BY <1>1, <2>1, <2>2, <2>3
      DEF TimerInv, NeverPanics, ArmedAreQueued, DeltasExact, StepsAgree, ArmedOnce,
          InOrder, SearchExact, Queued
<1>5. CASE queue # <<>> /\ remain[Head(queue)] = 0
  <2> DEFINE q == Tail(queue)
  <2>1. /\ queue' = q /\ current' = h /\ fired' = h /\ tick' = "callback"
        /\ due' = [due EXCEPT ![h] = Never]
    BY <1>3, <1>5 DEF TickExpire
  <2>2. /\ q \in Seq(Timer) /\ Len(q) = Len(queue) - 1
        /\ \A i \in 1 .. Len(q) : q[i] = queue[i + 1] /\ i + 1 \in 1 .. Len(queue)
    BY SMT, <1>2, <1>5 DEF TimerInv, TypeOK
  <2>3. \A i \in 1 .. Len(q) : q[i] # h /\ due'[q[i]] = due[q[i]]
    <3>1. TAKE i \in 1 .. Len(q)
    <3>2. q[i] # h
      BY SMT, <1>2, <1>3, <1>5, <2>2 DEF TimerInv, ArmedAreQueued
    <3>3. QED
      BY <1>2, <2>1, <2>2, <3>2 DEF TimerInv, TypeOK
  <2>4. h \in Timer /\ due[h] = 0 /\ h # NoTimer /\ due'[h] = Never
    BY <1>3, <1>5, <2>1, TimerAssumption DEF TimerInv, TypeOK
  <2>5. \A t : (t \in Range(q)) <=> (Queued(t) /\ t # h)
    <3>1. \A t : t \in Range(q) <=> \E i \in 1 .. Len(q) : t = q[i]
      BY <2>2, RangeFacts
    <3>2. ASSUME NEW t, Queued(t), t # h PROVE \E i \in 1 .. Len(q) : t = q[i]
      <4>1. PICK j \in 1 .. Len(queue) : t = queue[j]
        BY <1>2, <3>2
      <4>2. j - 1 \in 1 .. Len(q) /\ q[j - 1] = t
        <5>1. j # 1
          BY <3>2, <4>1
        <5>2. j - 1 \in 1 .. Len(q)
          BY SMT, <1>2, <2>2, <5>1
        <5>3. QED
          BY SMT, <1>2, <2>2, <4>1, <5>2
      <4>3. QED
        BY <4>2
    <3>3. ASSUME NEW t, NEW i \in 1 .. Len(q), t = q[i] PROVE Queued(t) /\ t # h
      BY <1>2, <2>2, <2>3, <3>3
    <3>4. QED
      BY <3>1, <3>2, <3>3
  <2>6. TypeOK'
    <3>1. due' \in [Timer -> Nat \union {Never}]
      BY <2>1 DEF TimerInv, TypeOK
    <3>2. QED
      BY <1>1, <2>1, <2>2, <2>4, <3>1 DEF TimerInv, TypeOK, Ticking
  <2>7. ArmedAreQueued'
    <3>1. ASSUME NEW i \in 1 .. Len(q), NEW j \in 1 .. Len(q), q[i] = q[j] PROVE i = j
      BY SMT, <1>2, <2>2, <3>1 DEF TimerInv, ArmedAreQueued
    <3>2. ASSUME NEW t \in Timer PROVE due'[t] # Never <=> t \in Range(q)
      <4>1. CASE t = h
        BY <2>4, <2>5, <4>1
      <4>2. CASE t # h
        BY <1>1, <2>1, <2>5, <4>2, TimerAssumption DEF TimerInv, TypeOK, ArmedAreQueued
      <4>3. QED
        BY <4>1, <4>2
    <3>3. QED
      BY <1>1, <2>1, <3>1, <3>2, TimerAssumption DEF ArmedAreQueued, Queued
  <2>8. DeltasExact'
    <3>1. SUFFICES ASSUME NEW i \in 1 .. Len(q)
                   PROVE  due'[q[i]] = remain[q[i]] + (IF i = 1 THEN 0 ELSE due'[q[i - 1]])
      BY SMT, <1>1, <2>1 DEF DeltasExact
    <3>2. /\ due[queue[i + 1]] = remain[queue[i + 1]] + due[queue[i]]
          /\ remain[queue[i + 1]] \in Nat /\ i \in 1 .. Len(queue)
      <4>1. i + 1 \in 1 .. Len(queue) /\ i + 1 # 1 /\ (i + 1) - 1 = i /\ i \in 1 .. Len(queue)
        BY SMT, <1>2, <2>2
      <4>2. QED
        BY <1>2, <4>1 DEF TimerInv, DeltasExact
    <3>3. CASE i = 1
      BY <1>2, <2>2, <2>3, <2>4, <3>2, <3>3
    <3>4. CASE i # 1
      <4>1. i - 1 \in 1 .. Len(q) /\ (i - 1) + 1 = i
        BY SMT, <1>2, <2>2, <3>4
      <4>2. due'[q[i - 1]] = due[queue[i]] /\ due'[q[i]] = due[queue[i + 1]]
        BY <2>2, <2>3, <4>1
      <4>3. QED
        BY <2>2, <3>2, <3>4, <4>2
    <3>5. QED
      BY <3>3, <3>4
  <2>9. InOrder'
    <3>1. SUFFICES ASSUME NEW i \in 1 .. Len(q), NEW j \in 1 .. Len(q), i <= j
                   PROVE  due'[q[i]] <= due'[q[j]]
      BY <2>1 DEF InOrder
    <3>2. due[queue[i + 1]] <= due[queue[j + 1]]
      BY SMTT(30), <1>2, <2>2, <3>1 DEF TimerInv, InOrder
    <3>3. QED
      BY <2>2, <2>3, <3>2
  <2>10. StepsAgree' /\ SearchExact' /\ NoneDue' /\ NeverPanics'
    BY <1>1, <2>1, <2>4 DEF TimerInv, StepsAgree, SearchExact, NoneDue, NeverPanics
  <2>11. ArmedOnce'
    <3>1. setting.step = "init" => due[plock] = Never /\ plock \in Timer
      BY DEF TimerInv, TypeOK, StepsAgree, ArmedOnce
    <3>2. QED
      BY SMT, <1>1, <2>1, <2>4, <3>1, TimerAssumption DEF ArmedOnce, TimerInv, TypeOK
  <2>12. QED
    BY <2>6, <2>7, <2>8, <2>9, <2>10, <2>11 DEF TimerInv
<1>6. QED
  BY <1>4, <1>5

\* _k_timeout_enqueue() of a timer that is not armed starts at the head.
LEMMA StartFacts ==
  ASSUME TimerInv, inserting = NoTimer,
         NEW t \in Timer, due[t] = Never, NEW delay \in Nat \ {0},
         remain' = [remain EXCEPT ![t] = delay], due' = [due EXCEPT ![t] = delay],
         inserting' = t, cursor' = 1, queue' = queue
  PROVE  /\ remain' \in [Timer -> Nat] /\ due' \in [Timer -> Nat \union {Never}]
         /\ \A s \in Timer \ {t} : due'[s] = due[s] /\ remain'[s] = remain[s]
         /\ due'[t] = delay
         /\ ArmedAreQueued' /\ DeltasExact' /\ InOrder' /\ SearchExact'
<1>1. /\ remain' \in [Timer -> Nat] /\ due' \in [Timer -> Nat \union {Never}]
      /\ \A s \in Timer \ {t} : due'[s] = due[s] /\ remain'[s] = remain[s]
      /\ due'[t] = delay /\ remain'[t] = delay /\ delay # Never
  BY TimerAssumption DEF TimerInv, TypeOK
<1>2. /\ Len(queue) \in Nat
      /\ \A i \in 1 .. Len(queue) :
           queue[i] \in Timer /\ due[queue[i]] \in Nat /\ remain[queue[i]] \in Nat
  BY QueueFacts
<1>3. \A i \in 1 .. Len(queue) :
        queue[i] # t /\ due'[queue[i]] = due[queue[i]] /\ remain'[queue[i]] = remain[queue[i]]
  BY <1>1, <1>2, TimerAssumption
<1>4. ArmedAreQueued'
  <2>1. ~Queued(t) /\ t # NoTimer
    BY TimerAssumption DEF TimerInv, ArmedAreQueued
  <2>2. QED
    BY <1>1, <2>1, TimerAssumption DEF TimerInv, ArmedAreQueued, Queued
<1>5. DeltasExact'
  <2>1. SUFFICES ASSUME NEW i \in 1 .. Len(queue)
                 PROVE  due'[queue[i]] = remain'[queue[i]]
                          + (IF i = 1 THEN 0 ELSE due'[queue[i - 1]])
    BY SMT DEF DeltasExact
  <2>2. i # 1 => i - 1 \in 1 .. Len(queue)
    BY SMT, <1>2
  <2>3. QED
    BY <1>3, <2>2 DEF TimerInv, DeltasExact
<1>6. InOrder'
  BY SMT, <1>3 DEF TimerInv, InOrder
<1>7. SearchExact'
  BY SMT, <1>1, <1>2 DEF SearchExact, DueBefore
<1>8. QED
  BY <1>1, <1>4, <1>5, <1>6, <1>7

\* timeval2ticks() of a whole tick or more is not 0.
LEMMA TicksFacts ==
  ASSUME NEW us \in Nat
  PROVE  timeval2ticks(us) \in Nat /\ (us >= UsPerTick => timeval2ticks(us) # 0)
<1> DEFINE d == us \div UsPerTick
<1>1. UsPerTick \in Nat \ {0}
  BY TimerAssumption
<1>2. d \in Nat /\ us < UsPerTick * d + UsPerTick
  BY SMT, <1>1
<1>3. QED
  BY SMT, <1>1, <1>2 DEF timeval2ticks

\* _k_timer_timeout() after the callback arms the timer again only if it is
\* still k_timer_current, and then nobody else has armed it.
LEMMA CallbackReturnFacts ==
  ASSUME TimerInv, CallbackReturn
  PROVE  TimerInv'
<1>1. /\ tick = "return" /\ inserting = NoTimer /\ fired \in Timer
      /\ current \in {NoTimer, fired} /\ fired # NoTimer
      /\ UNCHANGED <<queue, period, plock, setting>> /\ panic = FALSE
  BY DEF CallbackReturn, Unlocked, TimerInv, StepsAgree, TypeOK
<1>2. CASE current # NoTimer /\ period[fired] # 0
  <2>1. /\ inserting' = fired /\ cursor' = 1 /\ panic' = FALSE /\ tick' = "rearm"
        /\ remain' = [remain EXCEPT ![fired] = period[fired]]
        /\ due' = [due EXCEPT ![fired] = period[fired]]
        /\ current = fired /\ UNCHANGED <<current, fired>>
    BY <1>1, <1>2 DEF CallbackReturn
  <2>2. due[fired] = Never /\ period[fired] \in Nat \ {0}
    BY <1>1, <1>2, <2>1 DEF TimerInv, TypeOK, ArmedOnce
  <2>3. /\ remain' \in [Timer -> Nat] /\ due' \in [Timer -> Nat \union {Never}]
        /\ \A s \in Timer \ {fired} : due'[s] = due[s] /\ remain'[s] = remain[s]
        /\ ArmedAreQueued' /\ DeltasExact' /\ InOrder' /\ SearchExact'
    BY <1>1, <2>1, <2>2, StartFacts
  <2>4. TypeOK'
    <3>1. cursor' \in Nat \ {0} /\ tick' \in Ticking
      BY SMT, <2>1 DEF Ticking
    <3>2. panic' \in BOOLEAN
      BY <2>1
    <3>3. QED
      BY <1>1, <2>1, <2>3, <3>1, <3>2 DEF TimerInv, TypeOK
  <2>5. StepsAgree' /\ NoneDue' /\ NeverPanics'
    BY <1>1, <2>1 DEF TimerInv, StepsAgree, NoneDue, NeverPanics
  <2>6. ArmedOnce'
    <3>1. setting.step = "init" => due[plock] = Never /\ current # plock /\ plock \in Timer
      BY DEF TimerInv, TypeOK, StepsAgree, ArmedOnce
    <3>2. QED
      BY <1>1, <2>1, <2>3, <3>1 DEF ArmedOnce
  <2>7. QED
    BY <2>3, <2>4, <2>5, <2>6 DEF TimerInv
<1>3. CASE ~(current # NoTimer /\ period[fired] # 0)
  <2>1. /\ current' = NoTimer /\ fired' = NoTimer /\ tick' = "expire" /\ panic' = FALSE
        /\ UNCHANGED <<inserting, cursor, remain, due>>
    BY <1>1, <1>3 DEF CallbackReturn
  <2>2. TypeOK'
    BY <1>1, <2>1 DEF TimerInv, TypeOK, Ticking
  <2>3. plock # NoTimer => ArmedOnce'
    BY <1>1, <2>1 DEF TimerInv, ArmedOnce
  <2>4. plock = NoTimer => ArmedOnce'
    BY <1>1, <2>1 DEF TimerInv, ArmedOnce, StepsAgree
  <2>5. QED
    BY <1>1, <2>1, <2>2, <2>3, <2>4
      DEF TimerInv, NeverPanics, ArmedAreQueued, DeltasExact, StepsAgree,
          InOrder, NoneDue, SearchExact, Queued, DueBefore
<1>4. QED
  BY <1>2, <1>3

\* k_timer_init(), with a value of at least a tick.
LEMMA SetInitFacts ==
  ASSUME TimerInv, WholeTicks, SetInit
  PROVE  TimerInv'
<1> DEFINE delay == timeval2ticks(setting.value)
<1>1. /\ setting.step = "init" /\ plock \in Timer /\ plock # NoTimer
      /\ inserting = NoTimer /\ tick \in {"idle", "callback", "return"}
      /\ UNCHANGED <<queue, current, tick, fired, plock>> /\ panic = FALSE
      /\ setting.value \in Times /\ setting.value # 0 /\ due[plock] = Never
      /\ current # plock
  BY DEF SetInit, Unlocked, TimerInv, TypeOK, StepsAgree, ArmedOnce
<1>2. delay \in Nat \ {0}
  BY <1>1, TicksFacts, TimerAssumption DEF WholeTicks
<1>3. /\ remain' = [remain EXCEPT ![plock] = delay] /\ due' = [due EXCEPT ![plock] = delay]
      /\ inserting' = plock /\ cursor' = 1 /\ panic' = FALSE
      /\ setting' = [setting EXCEPT !.step = "enqueue"]
      /\ period' = [period EXCEPT ![plock] = timeval2ticks(setting.interval)]
  BY <1>1, <1>2 DEF SetInit, StartEnqueue
<1>4. /\ remain' \in [Timer -> Nat] /\ due' \in [Timer -> Nat \union {Never}]
      /\ \A s \in Timer \ {plock} : due'[s] = due[s] /\ remain'[s] = remain[s]
      /\ due'[plock] = delay
      /\ ArmedAreQueued' /\ DeltasExact' /\ InOrder' /\ SearchExact'
  <2> HIDE DEF delay
  <2> QED BY <1>1, <1>2, <1>3, StartFacts
<1>5. TypeOK'
  <2>1. timeval2ticks(setting.interval) \in Nat
    BY TicksFacts, TimerAssumption DEF TimerInv, TypeOK
  <2>2. period' \in [Timer -> Nat]
    BY <1>3, <2>1 DEF TimerInv, TypeOK
  <2>3. setting' \in [step : {"none", "stop", "init", "enqueue"},
                      value : Times \union {0}, interval : Times \union {0}]
    BY <1>3 DEF TimerInv, TypeOK
  <2>4. cursor' \in Nat \ {0}
    BY SMT, <1>3
  <2>5. panic' \in BOOLEAN
    BY <1>3
  <2>6. QED
    BY <1>1, <1>3, <1>4, <2>2, <2>3, <2>4, <2>5 DEF TimerInv, TypeOK
<1>6. setting'.step = "enqueue" /\ setting'.value = setting.value
  BY <1>3 DEF TimerInv, TypeOK
<1>7. StepsAgree' /\ NeverPanics'
  BY <1>1, <1>3, <1>6 DEF TimerInv, StepsAgree, NeverPanics
<1>8. NoneDue'
  BY <1>1, <1>2, <1>4 DEF TimerInv, NoneDue
<1>9. ArmedOnce'
  BY <1>1, <1>4, <1>6 DEF TimerInv, TypeOK, ArmedOnce
<1>10. QED
  BY <1>4, <1>5, <1>7, <1>8, <1>9 DEF TimerInv

\* The search passes an entry and takes off what it counts.
LEMMA AdvanceFacts ==
  ASSUME TimerInv, Advance
  PROVE  TimerInv'
<1> DEFINE c == queue[cursor]
<1>1. /\ Len(queue) \in Nat
      /\ \A i \in 1 .. Len(queue) :
           queue[i] \in Timer /\ due[queue[i]] \in Nat /\ remain[queue[i]] \in Nat
      /\ \A t : Queued(t) <=> \E i \in 1 .. Len(queue) : t = queue[i]
  BY QueueFacts
<1>2. /\ inserting # NoTimer /\ inserting \in Timer /\ cursor \in 1 .. Len(queue)
      /\ ~Queued(inserting)
      /\ due[inserting] = remain[inserting] + DueBefore(cursor) /\ due[inserting] # 0
      /\ cursor' = cursor + 1
      /\ UNCHANGED <<queue, period, current, tick, fired, inserting, plock, setting, panic, due>>
  BY SMT, <1>1 DEF Advance, TimerInv, TypeOK, SearchExact, ArmedAreQueued
<1>3. /\ c \in Timer /\ remain[c] \in Nat /\ remain[inserting] \in Nat
      /\ remain[c] <= remain[inserting]
  BY SMT, <1>1, <1>2 DEF Advance, Before, TimerInv, TypeOK
<1>4. remain' = [remain EXCEPT ![inserting] = @ - remain[c]]
  BY DEF Advance
<1>5. /\ remain' \in [Timer -> Nat]
      /\ remain'[inserting] = remain[inserting] - remain[c]
      /\ \A i \in 1 .. Len(queue) : remain'[queue[i]] = remain[queue[i]]
  <2>1. remain[inserting] - remain[c] \in Nat
    BY SMT, <1>3
  <2>2. \A i \in 1 .. Len(queue) : queue[i] # inserting
    BY <1>1, <1>2
  <2>3. QED
    BY <1>1, <1>2, <1>4, <2>1, <2>2 DEF TimerInv, TypeOK
<1>6. TypeOK'
  <2>1. cursor' \in Nat \ {0}
    BY SMT, <1>1, <1>2
  <2>2. QED
    BY <1>2, <1>5, <2>1 DEF TimerInv, TypeOK
<1>7. DeltasExact'
  BY <1>2, <1>5 DEF TimerInv, DeltasExact
<1>8. SearchExact'
  <2>1. due[c] = remain[c] + DueBefore(cursor)
    BY <1>2 DEF TimerInv, DeltasExact, DueBefore
  <2>2. DueBefore(cursor) \in Nat
    <3>1. cursor # 1 => cursor - 1 \in 1 .. Len(queue)
      BY SMT, <1>1, <1>2
    <3>2. QED
      BY <1>1, <3>1 DEF DueBefore
  <2>3. due[inserting] = remain'[inserting] + due[c]
    <3> HIDE DEF c
    <3> QED BY SMT, <1>2, <1>3, <1>5, <2>1, <2>2
  <2>4. DueBefore(cursor)' = due[c]
    <3>1. cursor + 1 # 1 /\ (cursor + 1) - 1 = cursor
      BY SMT, <1>1, <1>2
    <3>2. QED
      BY <1>2, <3>1 DEF DueBefore
  <2>5. cursor + 1 \in 1 .. Len(queue) + 1
    BY SMT, <1>1, <1>2
  <2>6. QED
    BY <1>2, <2>3, <2>4, <2>5 DEF SearchExact
<1>9. QED
  BY <1>2, <1>6, <1>7, <1>8
    DEF TimerInv, NeverPanics, ArmedAreQueued, StepsAgree, ArmedOnce, InOrder, NoneDue, Queued

\* The new entry goes where the search has stopped, and the entry behind it
\* gives up what the new one counts.
LEMMA LinkFacts ==
  ASSUME TimerInv, ~panic, Link
  PROVE  TimerInv'
<1> DEFINE k == cursor
           n == inserting
           q == InsertAt(queue, k, n)
           b == DueBefore(k)
<1>1. /\ Len(queue) \in Nat
      /\ \A i \in 1 .. Len(queue) :
           queue[i] \in Timer /\ due[queue[i]] \in Nat /\ remain[queue[i]] \in Nat
      /\ \A t : Queued(t) <=> \E i \in 1 .. Len(queue) : t = queue[i]
      /\ \A t \in Timer : due[t] \in Nat <=> due[t] # Never
  BY QueueFacts
<1>2. /\ n \in Timer /\ n # NoTimer /\ k \in 1 .. Len(queue) + 1 /\ ~Queued(n)
      /\ due[n] = remain[n] + b /\ due[n] \in Nat /\ due[n] # 0 /\ remain[n] \in Nat
  BY <1>1 DEF Link, TimerInv, TypeOK, SearchExact, ArmedAreQueued
<1>3. b \in Nat
  <2>1. k # 1 => k - 1 \in 1 .. Len(queue)
    BY SMT, <1>1, <1>2
  <2>2. QED
    BY <1>1, <2>1 DEF DueBefore
<1>4. /\ q \in Seq(Timer) /\ Len(q) = Len(queue) + 1
      /\ \A i \in 1 .. Len(queue) + 1 :
           q[i] = IF i < k THEN queue[i] ELSE IF i = k THEN n ELSE queue[i - 1]
  <2>1. queue \in Seq(Timer)
    BY DEF TimerInv, TypeOK
  <2>2. QED
    BY SMT, <1>2, <2>1, InsertAtFacts
<1>5. /\ queue' = q /\ inserting' = NoTimer /\ cursor' = 1 /\ UNCHANGED <<period, due>>
      /\ panic' = FALSE
  BY <1>2 DEF Link, TimerInv, NeverPanics
<1>6. /\ remain' \in [Timer -> Nat]
      /\ remain'[n] = remain[n]
      /\ \A i \in 1 .. Len(queue) :
           remain'[queue[i]] = IF i = k THEN remain[queue[i]] - remain[n] ELSE remain[queue[i]]
      /\ k <= Len(queue) => remain[n] < remain[queue[k]]
  <2>1. CASE k <= Len(queue)
    <3>1. k \in 1 .. Len(queue) /\ queue[k] \in Timer /\ queue[k] # n
      BY SMT, <1>1, <1>2, <2>1
    <3>2. remain[n] < remain[queue[k]] /\ remain[queue[k]] - remain[n] \in Nat
      BY SMT, <1>1, <1>2, <2>1, <3>1 DEF Link, Before
    <3>3. remain' = [remain EXCEPT ![queue[k]] = @ - remain[n]]
      BY <2>1 DEF Link
    <3>4. \A i \in 1 .. Len(queue) : queue[i] = queue[k] => i = k
      BY <3>1 DEF TimerInv, ArmedAreQueued
    <3>5. QED
      BY <1>1, <1>2, <3>1, <3>2, <3>3, <3>4 DEF TimerInv, TypeOK
  <2>2. CASE ~(k <= Len(queue))
    BY SMT, <1>1, <1>2, <2>2 DEF Link, TimerInv, TypeOK
  <2>3. QED
    BY <2>1, <2>2
<1> HIDE DEF q
<1>7. \A i \in 1 .. Len(queue) :
        /\ i < k => due[queue[i]] <= due[n]
        /\ k <= i => due[n] <= due[queue[i]]
  <2>1. TAKE i \in 1 .. Len(queue)
  <2>2. CASE i < k
    <3>1. k - 1 \in 1 .. Len(queue) /\ i <= k - 1 /\ k # 1
      BY SMT, <1>1, <1>2, <2>2
    <3>2. due[queue[i]] <= due[queue[k - 1]] /\ b = due[queue[k - 1]]
      BY <3>1 DEF TimerInv, InOrder, DueBefore
    <3>3. QED
      <4> HIDE DEF b
      <4> QED BY SMTT(30), <1>1, <1>2, <1>3, <2>2, <3>2
  <2>3. CASE k <= i
    <3>1. k \in 1 .. Len(queue)
      BY SMT, <1>1, <1>2, <2>3
    <3>2. due[queue[k]] <= due[queue[i]] /\ due[queue[k]] = remain[queue[k]] + b
      BY <2>3, <3>1 DEF TimerInv, InOrder, DeltasExact, DueBefore
    <3>3. /\ due[queue[k]] \in Nat /\ due[queue[i]] \in Nat /\ remain[queue[k]] \in Nat
          /\ remain[n] < remain[queue[k]]
      BY SMT, <1>1, <1>6, <3>1
    <3>4. QED
      <4> HIDE DEF b
      <4> QED BY SMTT(30), <1>1, <1>2, <1>3, <2>3, <3>1, <3>2, <3>3
  <2>4. QED
    BY <1>1, <1>2, <2>2, <2>3
<1>8. DeltasExact'
  <2>1. SUFFICES ASSUME NEW i \in 1 .. Len(queue) + 1
                 PROVE  due[q[i]] = remain'[q[i]] + (IF i = 1 THEN 0 ELSE due[q[i - 1]])
    BY <1>4, <1>5 DEF DeltasExact
  <2>2. \A j \in 1 .. Len(queue) : due[queue[j]] = remain[queue[j]] + DueBefore(j)
    BY DEF TimerInv, DeltasExact, DueBefore
  <2>3. CASE i <= k
    <3>1. (IF i = 1 THEN 0 ELSE due[q[i - 1]]) = DueBefore(i)
      <4>1. i # 1 => i - 1 \in 1 .. Len(queue) + 1 /\ i - 1 < k
        BY SMT, <1>1, <1>2, <2>3
      <4>2. QED
        BY <1>4, <4>1 DEF DueBefore
    <3>2. CASE i = k
      BY SMT, <1>2, <1>4, <1>6, <3>1, <3>2
    <3>3. CASE i # k
      <4>1. i \in 1 .. Len(queue) /\ i < k
        BY SMT, <1>1, <1>2, <2>3, <3>3
      <4>2. q[i] = queue[i] /\ remain'[queue[i]] = remain[queue[i]]
        BY <1>4, <1>6, <3>3, <4>1
      <4>3. QED
        BY <2>2, <3>1, <4>1, <4>2
    <3>4. QED
      BY <3>2, <3>3
  <2>4. CASE i > k
    <3>1. /\ i - 1 \in 1 .. Len(queue) /\ i # 1 /\ ~(i < k) /\ i # k
          /\ i - 1 \in 1 .. Len(queue) + 1
      BY SMT, <1>1, <1>2, <2>4
    <3>2. q[i] = queue[i - 1] /\ due[queue[i - 1]] = remain[queue[i - 1]] + DueBefore(i - 1)
      BY <1>4, <2>2, <3>1
    <3>3. CASE i - 1 = k
      <4>1. q[i - 1] = n
        BY SMT, <1>4, <3>1, <3>3
      <4>2. /\ remain'[queue[i - 1]] = remain[queue[i - 1]] - remain[n]
            /\ remain[queue[i - 1]] \in Nat /\ DueBefore(i - 1) = b
        BY <1>1, <1>6, <3>1, <3>3
      <4>3. QED
        <5> HIDE DEF b
        <5> QED BY SMTT(30), <1>2, <1>3, <3>1, <3>2, <4>1, <4>2
    <3>4. CASE i - 1 # k
      <4>1. ~(i - 1 < k) /\ i - 1 # 1
        BY SMT, <1>1, <1>2, <2>4, <3>1, <3>4
      <4>2. q[i - 1] = queue[(i - 1) - 1] /\ remain'[queue[i - 1]] = remain[queue[i - 1]]
        BY <1>4, <1>6, <3>1, <3>4, <4>1
      <4>3. DueBefore(i - 1) = due[q[i - 1]]
        BY <4>1, <4>2 DEF DueBefore
      <4>4. QED
        BY <3>1, <3>2, <4>2, <4>3
    <3>5. QED
      BY <3>3, <3>4
  <2>5. QED
    BY SMT, <1>1, <1>2, <2>3, <2>4
<1>9. InOrder'
  <2>1. SUFFICES ASSUME NEW i \in 1 .. Len(queue) + 1, NEW j \in 1 .. Len(queue) + 1, i <= j
                 PROVE  due[q[i]] <= due[q[j]]
    BY <1>4, <1>5 DEF InOrder
  <2>2. \A x, y \in 1 .. Len(queue) : x <= y => due[queue[x]] <= due[queue[y]]
    BY DEF TimerInv, InOrder
  <2>3. CASE i < k /\ j < k
    <3>1. i \in 1 .. Len(queue) /\ j \in 1 .. Len(queue)
      BY SMT, <1>1, <1>2, <2>3
    <3>2. QED
      BY <1>4, <2>1, <2>2, <2>3, <3>1
  <2>4. CASE i < k /\ j = k
    <3>1. i \in 1 .. Len(queue)
      BY SMT, <1>1, <1>2, <2>4
    <3>2. q[i] = queue[i] /\ q[j] = n
      BY SMT, <1>4, <2>4
    <3>3. QED
      BY <1>7, <2>4, <3>1, <3>2
  <2>5. CASE i < k /\ j > k
    <3>1. i \in 1 .. Len(queue) /\ j - 1 \in 1 .. Len(queue) /\ i <= j - 1 /\ ~(j < k) /\ j # k
      BY SMT, <1>1, <1>2, <2>5
    <3>2. q[i] = queue[i] /\ q[j] = queue[j - 1]
      BY <1>4, <2>5, <3>1
    <3>3. QED
      BY <2>2, <3>1, <3>2
  <2>6. CASE i = k /\ j = k
    BY SMT, <1>2, <1>4, <2>6
  <2>7. CASE i = k /\ j > k
    <3>1. j - 1 \in 1 .. Len(queue) /\ k <= j - 1 /\ ~(j < k) /\ j # k
      BY SMT, <1>1, <1>2, <2>7
    <3>2. q[i] = n /\ q[j] = queue[j - 1]
      BY SMT, <1>4, <2>7, <3>1
    <3>3. QED
      BY <1>7, <3>1, <3>2
  <2>8. CASE i > k /\ j > k
    <3>1. /\ i - 1 \in 1 .. Len(queue) /\ j - 1 \in 1 .. Len(queue) /\ i - 1 <= j - 1
          /\ ~(i < k) /\ i # k /\ ~(j < k) /\ j # k
      BY SMT, <1>1, <1>2, <2>1, <2>8
    <3>2. q[i] = queue[i - 1] /\ q[j] = queue[j - 1]
      BY <1>4, <3>1
    <3>3. QED
      BY <2>2, <3>1, <3>2
  <2>9. QED
    BY SMT, <1>1, <1>2, <2>1, <2>3, <2>4, <2>5, <2>6, <2>7, <2>8
<1>10. ArmedAreQueued'
  <2>1. \A t : t \in Range(q) <=> (Queued(t) \/ t = n)
    <3>1. \A t : t \in Range(q) <=> \E i \in 1 .. Len(queue) + 1 : t = q[i]
      BY SMT, <1>4, RangeFacts
    <3>2. ASSUME NEW t, NEW i \in 1 .. Len(queue) + 1, t = q[i] PROVE Queued(t) \/ t = n
      <4>1. CASE i < k
        <5>1. i \in 1 .. Len(queue)
          BY SMT, <1>1, <1>2, <4>1
        <5>2. QED
          BY <1>1, <1>4, <3>2, <4>1, <5>1
      <4>2. CASE i = k
        BY SMT, <1>4, <3>2, <4>2
      <4>3. CASE i > k
        <5>1. i - 1 \in 1 .. Len(queue) /\ ~(i < k) /\ i # k
          BY SMT, <1>1, <1>2, <4>3
        <5>2. QED
          BY <1>1, <1>4, <3>2, <5>1
      <4>4. QED
        BY SMT, <1>1, <1>2, <4>1, <4>2, <4>3
    <3>3. n = q[k] /\ k \in 1 .. Len(queue) + 1
      BY SMT, <1>2, <1>4
    <3>4. ASSUME NEW j \in 1 .. Len(queue) PROVE \E i \in 1 .. Len(queue) + 1 : queue[j] = q[i]
      <4>1. CASE j < k
        <5>1. j \in 1 .. Len(queue) + 1
          BY SMT, <1>1
        <5>2. QED
          BY <1>4, <4>1, <5>1
      <4>2. CASE k <= j
        <5>1. j + 1 \in 1 .. Len(queue) + 1 /\ ~(j + 1 < k) /\ j + 1 # k /\ (j + 1) - 1 = j
          BY SMT, <1>1, <1>2, <4>2
        <5>2. q[j + 1] = queue[j]
          BY SMT, <1>4, <5>1
        <5>3. QED
          BY <5>1, <5>2
      <4>3. QED
        BY SMT, <1>1, <1>2, <4>1, <4>2
    <3>5. QED
      BY <1>1, <3>1, <3>2, <3>3, <3>4
  <2>2. ASSUME NEW i \in 1 .. Len(queue) + 1, NEW j \in 1 .. Len(queue) + 1, q[i] = q[j], i < j
        PROVE  FALSE
    <3>1. \A x, y \in 1 .. Len(queue) : queue[x] = queue[y] => x = y
      BY DEF TimerInv, ArmedAreQueued
    <3>2. \A x \in 1 .. Len(queue) : queue[x] # n
      BY <1>1, <1>2
    <3>3. CASE i < k /\ j < k
      <4>1. i \in 1 .. Len(queue) /\ j \in 1 .. Len(queue)
        BY SMT, <1>1, <1>2, <3>3
      <4>2. QED
        BY SMT, <1>4, <2>2, <3>1, <3>3, <4>1
    <3>4. CASE i < k /\ j = k
      <4>1. i \in 1 .. Len(queue)
        BY SMT, <1>1, <1>2, <3>4
      <4>2. QED
        BY SMT, <1>4, <2>2, <3>2, <3>4, <4>1
    <3>5. CASE i < k /\ j > k
      <4>1. i \in 1 .. Len(queue) /\ j - 1 \in 1 .. Len(queue) /\ i # j - 1 /\ ~(j < k) /\ j # k
        BY SMT, <1>1, <1>2, <3>5
      <4>2. q[i] = queue[i] /\ q[j] = queue[j - 1]
        BY <1>4, <3>5, <4>1
      <4>3. QED
        BY <2>2, <3>1, <4>1, <4>2
    <3>6. CASE i = k
      <4>1. j - 1 \in 1 .. Len(queue) /\ ~(j < k) /\ j # k
        BY SMT, <1>1, <1>2, <2>2, <3>6
      <4>2. q[i] = n /\ q[j] = queue[j - 1]
        BY SMT, <1>4, <3>6, <4>1
      <4>3. QED
        BY <2>2, <3>2, <4>1, <4>2
    <3>7. CASE i > k
      <4>1. /\ i - 1 \in 1 .. Len(queue) /\ j - 1 \in 1 .. Len(queue) /\ i - 1 # j - 1
            /\ ~(i < k) /\ i # k /\ ~(j < k) /\ j # k
        BY SMT, <1>1, <1>2, <2>2, <3>7
      <4>2. q[i] = queue[i - 1] /\ q[j] = queue[j - 1]
        BY <1>4, <4>1
      <4>3. QED
        BY <2>2, <3>1, <4>1, <4>2
    <3>8. QED
      BY SMT, <1>1, <1>2, <2>2, <3>3, <3>4, <3>5, <3>6, <3>7
  <2>3. \A i, j \in 1 .. Len(q) : q[i] = q[j] => i = j
    <3>1. SUFFICES ASSUME NEW i \in 1 .. Len(q), NEW j \in 1 .. Len(q), q[i] = q[j]
                   PROVE  i = j
      OBVIOUS
    <3>2. ~(i < j) /\ ~(j < i)
      BY <1>4, <2>2, <3>1
    <3>3. QED
      BY SMT, <1>1, <1>4, <3>2
  <2>4. \A t \in Timer : due[t] # Never <=> t \in Range(q)
    BY <1>2, <2>1 DEF TimerInv, ArmedAreQueued
  <2>5. QED
    BY <1>5, <2>3, <2>4, TimerAssumption DEF ArmedAreQueued, Queued
<1>11. NoneDue' /\ SearchExact' /\ NeverPanics'
  <2>1. tick' = "idle" => tick = "idle"
    BY DEF Link
  <2>2. QED
    BY <1>5, <2>1 DEF TimerInv, NoneDue, SearchExact, NeverPanics
<1>12. TypeOK' /\ StepsAgree' /\ ArmedOnce'
  <2>1. cursor' \in Nat \ {0}
    BY SMT, <1>5
  <2>2. panic' \in BOOLEAN
    BY <1>5
  <2>3. CASE tick = "rearm"
    <3>1. /\ tick' = "expire" /\ fired' = NoTimer /\ current' = NoTimer
          /\ UNCHANGED <<plock, setting>>
      BY <2>3 DEF Link
    <3>2. TypeOK'
      BY <1>4, <1>5, <1>6, <2>1, <2>2, <3>1 DEF TimerInv, TypeOK, Ticking
    <3>3. StepsAgree'
      BY <1>5, <2>3, <3>1 DEF TimerInv, StepsAgree
    <3>4. ArmedOnce'
      BY <1>5, <2>3, <3>1 DEF TimerInv, ArmedOnce, StepsAgree
    <3>5. QED
      BY <3>2, <3>3, <3>4
  <2>4. CASE tick # "rearm"
    <3>1. plock' = NoTimer /\ setting' = NotSetting /\ UNCHANGED <<tick, fired, current>>
      BY <2>4 DEF Link
    <3>2. TypeOK'
      BY <1>4, <1>5, <1>6, <2>1, <2>2, <3>1, NotSettingFacts DEF TimerInv, TypeOK
    <3>3. setting'.step = "none"
      BY <3>1 DEF NotSetting
    <3>4. StepsAgree'
      BY <1>5, <2>4, <3>1, <3>3 DEF TimerInv, StepsAgree
    <3>5. ArmedOnce'
      BY <1>5, <3>1, <3>3 DEF TimerInv, ArmedOnce
    <3>6. QED
      BY <3>2, <3>4, <3>5
  <2>5. QED
    BY <2>3, <2>4
<1>13. QED
  BY <1>8, <1>9, <1>10, <1>11, <1>12 DEF TimerInv

\* The place of an entry is the one that Remove takes out.
LEMMA RemoveIsRemoveAt ==
  ASSUME NEW s \in Seq(Timer), NEW k \in 1 .. Len(s),
         \A i, j \in 1 .. Len(s) : s[i] = s[j] => i = j
  PROVE  Remove(s, s[k]) = RemoveAt(s, k)
<1>1. DOMAIN s = 1 .. Len(s) /\ s[k] \in Range(s)
  BY SMT, RangeFacts
<1>2. (CHOOSE j \in DOMAIN s : s[j] = s[k]) = k
  BY <1>1
<1>3. QED
  BY <1>1, <1>2 DEF Remove

\* k_timer_stop() of a queued timer: its successor inherits the ticks.
LEMMA DequeueFacts ==
  ASSUME TimerInv, NEW t \in Timer, Queued(t), Dequeue(t),
         due' = [due EXCEPT ![t] = Never]
  PROVE  /\ queue' \in Seq(Timer) /\ remain' \in [Timer -> Nat]
         /\ \A i, j \in 1 .. Len(queue') : queue'[i] = queue'[j] => i = j
         /\ \A x : Queued(x)' <=> Queued(x) /\ x # t
         /\ DeltasExact' /\ InOrder'
<1>1. /\ Len(queue) \in Nat
      /\ \A i \in 1 .. Len(queue) :
           queue[i] \in Timer /\ due[queue[i]] \in Nat /\ remain[queue[i]] \in Nat
      /\ \A x : Queued(x) <=> \E i \in 1 .. Len(queue) : x = queue[i]
  BY QueueFacts
<1>2. /\ queue \in Seq(Timer) /\ remain \in [Timer -> Nat] /\ due \in [Timer -> Nat \union {Never}]
      /\ \A i, j \in 1 .. Len(queue) : queue[i] = queue[j] => i = j
      /\ \A i, j \in 1 .. Len(queue) : i <= j => due[queue[i]] <= due[queue[j]]
      /\ \A i \in 1 .. Len(queue) : due[queue[i]] = remain[queue[i]] + DueBefore(i)
  BY DEF TimerInv, TypeOK, ArmedAreQueued, InOrder, DeltasExact, DueBefore
<1>3. PICK k \in 1 .. Len(queue) : queue[k] = t
  BY <1>1
<1> DEFINE q == RemoveAt(queue, k)
           m(i) == IF i < k THEN i ELSE i + 1
<1>4. queue' = q
  BY <1>2, <1>3, RemoveIsRemoveAt DEF Dequeue
<1>5. /\ q \in Seq(Timer) /\ Len(q) = Len(queue) - 1
      /\ \A i \in 1 .. Len(queue) - 1 : q[i] = IF i < k THEN queue[i] ELSE queue[i + 1]
  <2>1. queue \in Seq(Timer)
    BY <1>2
  <2>2. QED
    BY <2>1, RemoveAtFacts
<1> HIDE DEF q
<1>6. \A i \in 1 .. Len(q) : m(i) \in 1 .. Len(queue) /\ m(i) # k /\ q[i] = queue[m(i)]
  <2>1. TAKE i \in 1 .. Len(q)
  <2>2. m(i) \in 1 .. Len(queue) /\ m(i) # k
    BY SMT, <1>1, <1>5
  <2>3. q[i] = queue[m(i)]
    BY <1>1, <1>5
  <2>4. QED
    BY <2>2, <2>3
<1>7. \A i, j \in 1 .. Len(q) : (m(i) = m(j) => i = j) /\ (i <= j => m(i) <= m(j))
  BY SMT, <1>1, <1>5
<1>8. \A i \in 1 .. Len(queue) : i # k => due'[queue[i]] = due[queue[i]]
  BY <1>1, <1>2, <1>3
<1>9. /\ remain' \in [Timer -> Nat]
      /\ \A i \in 1 .. Len(queue) : remain'[queue[i]] =
           IF i = k + 1 THEN remain[queue[i]] + remain[t] ELSE remain[queue[i]]
  <2>1. remain' = [s \in Timer |->
          IF \E i \in 1 .. Len(queue) - 1 : queue[i] = t /\ queue[i + 1] = s
          THEN remain[s] + remain[t] ELSE remain[s]]
    BY DEF Dequeue
  <2>2. remain' \in [Timer -> Nat]
    BY SMT, <1>2, <2>1
  <2>3. ASSUME NEW i \in 1 .. Len(queue)
        PROVE  (\E j \in 1 .. Len(queue) - 1 : queue[j] = t /\ queue[j + 1] = queue[i])
                 <=> i = k + 1
    <3>1. ASSUME NEW j \in 1 .. Len(queue) - 1, queue[j] = t, queue[j + 1] = queue[i]
          PROVE  i = k + 1
      <4>1. j \in 1 .. Len(queue) /\ j + 1 \in 1 .. Len(queue)
        BY SMT, <1>1
      <4>2. j = k /\ j + 1 = i
        BY <1>2, <1>3, <3>1, <4>1
      <4>3. QED
        BY <4>2
    <3>2. ASSUME i = k + 1
          PROVE  k \in 1 .. Len(queue) - 1 /\ queue[k] = t /\ queue[k + 1] = queue[i]
      BY SMT, <1>1, <1>3, <3>2
    <3>3. QED
      BY <3>1, <3>2
  <2>4. QED
    BY <1>1, <2>1, <2>2, <2>3
<1>10. \A i, j \in 1 .. Len(q) : q[i] = q[j] => i = j
  <2>1. SUFFICES ASSUME NEW i \in 1 .. Len(q), NEW j \in 1 .. Len(q), q[i] = q[j]
                 PROVE  i = j
    OBVIOUS
  <2>2. m(i) \in 1 .. Len(queue) /\ m(j) \in 1 .. Len(queue) /\ queue[m(i)] = queue[m(j)]
    BY <1>6, <2>1
  <2>3. m(i) = m(j)
    <3> HIDE DEF m
    <3> QED BY <1>2, <2>2
  <2>4. QED
    BY <1>7, <2>3
<1>11. \A x : Queued(x)' <=> Queued(x) /\ x # t
  <2>1. IsInjective(queue)
    BY SMT, <1>2 DEF IsInjective
  <2>2. Range(Remove(queue, t)) = Range(queue) \ {t}
    BY <1>2, <2>1, RemoveFacts
  <2>3. QED
    BY <2>2 DEF Dequeue, Queued
<1>12. InOrder'
  <2>1. SUFFICES ASSUME NEW i \in 1 .. Len(q), NEW j \in 1 .. Len(q), i <= j
                 PROVE  due'[q[i]] <= due'[q[j]]
    BY <1>4 DEF InOrder
  <2>2. due'[q[i]] = due[queue[m(i)]] /\ due'[q[j]] = due[queue[m(j)]]
    BY <1>6, <1>8
  <2>3. m(i) \in 1 .. Len(queue) /\ m(j) \in 1 .. Len(queue) /\ m(i) <= m(j)
    BY <1>6, <1>7, <2>1
  <2> HIDE DEF m
  <2>4. QED
    BY <1>2, <2>2, <2>3
<1>13. DeltasExact'
  <2>1. SUFFICES ASSUME NEW i \in 1 .. Len(q)
                 PROVE  due'[q[i]] = remain'[q[i]] + (IF i = 1 THEN 0 ELSE due'[q[i - 1]])
    BY SMT, <1>4 DEF DeltasExact
  <2>2. /\ m(i) \in 1 .. Len(queue) /\ due'[q[i]] = due[queue[m(i)]]
        /\ q[i] = queue[m(i)] /\ due[queue[m(i)]] = remain[queue[m(i)]] + DueBefore(m(i))
    BY <1>2, <1>6, <1>8
  <2>3. i # 1 => i - 1 \in 1 .. Len(q)
    BY SMT, <1>1, <1>5
  <2>4. i # 1 => due'[q[i - 1]] = due[queue[m(i - 1)]]
    BY <1>6, <1>8, <2>3
  <2>5. CASE i < k
    <3>1. m(i) = i /\ m(i - 1) = i - 1 /\ i # k + 1
      BY SMT, <1>1, <1>5, <2>5
    <3>2. remain'[q[i]] = remain[queue[i]]
      BY SMT, <1>9, <2>2, <3>1
    <3>3. QED
      BY <2>2, <2>4, <3>1, <3>2 DEF DueBefore
  <2>6. CASE i = k
    <3>1. m(i) = k + 1 /\ (i # 1 => m(i - 1) = k - 1) /\ k + 1 # 1 /\ (k + 1) - 1 = k
      BY SMT, <1>1, <1>5, <2>6
    <3>2. remain'[q[i]] = remain[queue[k + 1]] + remain[t]
      BY <1>9, <2>2, <3>1
    <3>3. due'[q[i]] = remain[queue[k + 1]] + due[t] /\ due[t] = remain[t] + DueBefore(k)
      BY <1>2, <1>3, <2>2, <3>1 DEF DueBefore
    <3>4. (IF i = 1 THEN 0 ELSE due'[q[i - 1]]) = DueBefore(k)
      BY <2>4, <2>6, <3>1 DEF DueBefore
    <3>5. remain[queue[k + 1]] \in Nat /\ remain[t] \in Nat /\ DueBefore(k) \in Nat
      <4>1. k + 1 \in 1 .. Len(queue) /\ (k # 1 => k - 1 \in 1 .. Len(queue))
        BY SMT, <1>1, <2>2, <3>1
      <4>2. QED
        BY <1>1, <1>2, <4>1 DEF DueBefore
    <3>6. \A a, b, c \in Nat : a + (b + c) = (a + b) + c
      BY SMT
    <3>7. remain[queue[k + 1]] + (remain[t] + DueBefore(k))
            = (remain[queue[k + 1]] + remain[t]) + DueBefore(k)
      BY <3>5, <3>6
    <3>8. QED
      BY <3>2, <3>3, <3>4, <3>7
  <2>7. CASE i > k
    <3>1. m(i) = i + 1 /\ m(i - 1) = i /\ i + 1 # k + 1 /\ i + 1 # 1 /\ (i + 1) - 1 = i /\ i # 1
      BY SMT, <1>1, <1>5, <2>7
    <3>2. remain'[q[i]] = remain[queue[i + 1]]
      BY <1>9, <2>2, <3>1
    <3>3. QED
      BY <2>2, <2>4, <3>1, <3>2 DEF DueBefore
  <2>8. QED
    BY SMT, <1>1, <1>5, <2>5, <2>6, <2>7
<1>14. QED
  BY <1>4, <1>5, <1>9, <1>10, <1>11, <1>12, <1>13

\* A stopped timer is off the queue, whether it was waiting or its callback was
\* running.
LEMMA SetStopFacts ==
  ASSUME TimerInv, SetStop
  PROVE  TimerInv'
<1>1. /\ plock \in Timer /\ plock # NoTimer /\ setting.step = "stop" /\ ~panic
      /\ inserting = NoTimer /\ tick \in {"idle", "callback", "return"}
      /\ due' = [due EXCEPT ![plock] = Never]
      /\ UNCHANGED <<period, tick, fired, inserting, cursor, panic>>
  BY DEF SetStop, Stop, Unlocked, TimerInv, TypeOK
<1>2. /\ queue' \in Seq(Timer) /\ remain' \in [Timer -> Nat]
      /\ \A i, j \in 1 .. Len(queue') : queue'[i] = queue'[j] => i = j
      /\ \A x : Queued(x)' <=> Queued(x) /\ x # plock
      /\ DeltasExact' /\ InOrder'
      /\ current' \in {NoTimer, current} /\ current' # plock
  <2>1. CASE Queued(plock)
    <3>1. Dequeue(plock) /\ current' = current
      BY <2>1 DEF SetStop, Stop
    <3>2. due[plock] # Never
      BY <1>1, <2>1 DEF TimerInv, ArmedAreQueued
    <3>3. current # plock
      BY <1>1, <3>2 DEF TimerInv, ArmedOnce, StepsAgree
    <3>4. QED
      BY <1>1, <2>1, <3>1, <3>3, DequeueFacts
  <2>2. CASE ~Queued(plock)
    <3>1. /\ queue' = queue /\ remain' = remain
          /\ current' = IF current = plock THEN NoTimer ELSE current
      BY <2>2 DEF SetStop, Stop
    <3>2. \A i \in 1 .. Len(queue) : queue[i] \in Timer /\ queue[i] # plock
      BY <2>2, QueueFacts
    <3>3. \A i \in 1 .. Len(queue) : due'[queue[i]] = due[queue[i]]
      BY <1>1, <3>2 DEF TimerInv, TypeOK
    <3>4. \A i \in 1 .. Len(queue) : i # 1 => i - 1 \in 1 .. Len(queue)
      BY SMT, QueueFacts
    <3>5. DeltasExact'
      BY <3>1, <3>3, <3>4 DEF TimerInv, DeltasExact
    <3>6. InOrder'
      BY <3>1, <3>3 DEF TimerInv, InOrder
    <3>7. queue \in Seq(Timer) /\ remain \in [Timer -> Nat]
      BY DEF TimerInv, TypeOK
    <3>8. \A x : Queued(x)' <=> Queued(x) /\ x # plock
      BY <2>2, <3>1 DEF Queued
    <3>9. QED
      BY <1>1, <3>1, <3>5, <3>6, <3>7, <3>8 DEF TimerInv, ArmedAreQueued
  <2>3. QED
    BY <2>1, <2>2
<1>3. /\ due' \in [Timer -> Nat \union {Never}] /\ due'[plock] = Never
      /\ \A t \in Timer : t # plock => due'[t] = due[t]
  BY <1>1 DEF TimerInv, TypeOK
<1>4. ArmedAreQueued'
  <2>1. \A t \in Timer : due'[t] # Never <=> Queued(t)'
    BY <1>1, <1>2, <1>3, TimerAssumption DEF TimerInv, ArmedAreQueued
  <2>2. inserting' = NoTimer
    BY <1>1
  <2>3. QED
    BY <1>2, <2>1, <2>2, TimerAssumption DEF ArmedAreQueued
<1>5. NoneDue' /\ SearchExact' /\ NeverPanics'
  <2>1. \A t \in Timer : due'[t] = 0 => due[t] = 0
    BY SMT, <1>3, TimerAssumption
  <2>2. QED
    BY <1>1, <2>1 DEF TimerInv, NoneDue, SearchExact, NeverPanics
<1>6. /\ setting' \in [step : {"none", "stop", "init", "enqueue"},
                       value : Times \union {0}, interval : Times \union {0}]
      /\ plock' \in Timer \union {NoTimer}
      /\ setting'.step \in {"none", "init"}
      /\ (setting'.step = "none") <=> (plock' = NoTimer)
      /\ setting'.step = "init" => setting'.value # 0 /\ plock' = plock
  <2>1. setting \in [step : {"none", "stop", "init", "enqueue"},
                     value : Times \union {0}, interval : Times \union {0}]
    BY DEF TimerInv, TypeOK
  <2>2. CASE setting.value = 0
    <3>1. plock' = NoTimer /\ setting' = NotSetting
      BY <2>2 DEF SetStop
    <3>2. setting'.step = "none"
      BY <3>1 DEF NotSetting
    <3>3. QED
      BY <3>1, <3>2, NotSettingFacts
  <2>3. CASE setting.value # 0
    <3>1. plock' = plock /\ setting' = [setting EXCEPT !.step = "init"]
      BY <2>3 DEF SetStop
    <3>2. setting'.step = "init" /\ setting'.value = setting.value
      BY <2>1, <3>1
    <3>3. setting' \in [step : {"none", "stop", "init", "enqueue"},
                        value : Times \union {0}, interval : Times \union {0}]
      BY <2>1, <3>1
    <3>4. QED
      BY <1>1, <2>3, <3>1, <3>2, <3>3
  <2>4. QED
    BY <2>2, <2>3
<1>7. StepsAgree'
  <2>1. current' = NoTimer \/ current' = current
    BY <1>2
  <2>2. /\ (tick \in {"idle", "expire"}) => fired = NoTimer /\ current = NoTimer
        /\ (tick \in {"callback", "return"}) => fired # NoTimer /\ current \in {NoTimer, fired}
    BY DEF TimerInv, StepsAgree
  <2>3. QED
    BY <1>1, <1>6, <2>1, <2>2 DEF StepsAgree
<1>8. ArmedOnce'
  <2>1. tick' \in {"callback", "return"} /\ current' # NoTimer => due'[current'] = Never
    BY <1>1, <1>2, <1>3 DEF TimerInv, TypeOK, ArmedOnce
  <2>2. QED
    BY <1>2, <1>3, <1>6, <2>1 DEF ArmedOnce
<1>9. TypeOK'
  <2>1. cursor' \in Nat \ {0}
    BY <1>1 DEF TimerInv, TypeOK
  <2>2. panic' \in BOOLEAN
    BY <1>1 DEF TimerInv, TypeOK
  <2>3. current' \in Timer \union {NoTimer}
    BY <1>2 DEF TimerInv, TypeOK
  <2>4. QED
    BY <1>1, <1>2, <1>3, <1>6, <2>1, <2>2, <2>3 DEF TimerInv, TypeOK
<1>10. QED
  BY <1>2, <1>4, <1>5, <1>7, <1>8, <1>9 DEF TimerInv
-----------------------------------------------------------------------------
\* Every step of CPU 0 and of process_set_itimer() keeps the invariant, if no
\* value is shorter than a tick.
LEMMA NextFacts ==
  ASSUME WholeTicks, TimerInv, [Next]_vars
  PROVE  TimerInv'
<1>1. CASE UNCHANGED vars
  BY ZenonT(30), <1>1 DEF vars, TimerInv, TypeOK, NeverPanics, ArmedAreQueued, Queued, DeltasExact,
              StepsAgree, ArmedOnce, InOrder, NoneDue, SearchExact, DueBefore
<1>2. CASE TickStep
  BY <1>2, TickBeginFacts, TickExpireFacts, CallbackFacts, CallbackReturnFacts DEF TickStep
<1>3. CASE Enqueue
  BY <1>3, AdvanceFacts, LinkFacts DEF Enqueue
<1>4. CASE Itimer
  BY <1>4, SetBeginFacts, SetStopFacts, SetInitFacts DEF Itimer
<1>5. QED
  BY <1>1, <1>2, <1>3, <1>4 DEF Next

\* The queue of timeouts is right for every number of timers, every length of a
\* tick and every set of values of at least a tick: types, a timer is queued
\* exactly while it is armed, each entry counts the ticks from its
\* predecessor, and no assert or panic of timer.c and timeout.c fails.
THEOREM TimersCorrect ==
  ASSUME WholeTicks
  PROVE  Spec => [](TypeOK /\ ArmedAreQueued /\ DeltasExact /\ NeverPanics)
<1>1. Init => TimerInv
  BY InitFacts
<1>2. TimerInv /\ [Next]_vars => TimerInv'
  BY NextFacts
<1>3. TimerInv => TypeOK /\ ArmedAreQueued /\ DeltasExact /\ NeverPanics
  BY DEF TimerInv
<1>4. QED
  BY <1>1, <1>2, <1>3, PTL DEF Spec

\* Every step of the tick and of process_set_itimer() is one of the abstract
\* steps or changes neither the times nor the callback.
LEMMA StepsKeepDeadlines ==
  ASSUME WholeTicks, TimerInv, [Next]_vars
  PROVE  [D!Next]_<<due, fired>>
<1>1. /\ due \in [Timer -> Nat \union {Never}] /\ plock \in Timer \union {NoTimer}
      /\ fired \in Timer \union {NoTimer} /\ period \in [Timer -> Nat]
  BY DEF TimerInv, TypeOK
<1>2. CASE UNCHANGED vars \/ Callback \/ Advance
  BY <1>2 DEF vars, Callback, Advance
<1>3. CASE TickBegin
  <2>1. CASE queue = <<>>
    BY <1>3, <2>1 DEF TickBegin
  <2>2. CASE queue # <<>>
    <3>1. /\ tick = "idle" /\ fired' = fired
          /\ due' = [t \in Timer |-> IF due[t] \in Nat /\ due[t] > 0
                                     THEN due[t] - 1 ELSE due[t]]
      BY <1>3, <2>2 DEF TickBegin
    <3>2. fired = NoTimer /\ \A t \in Timer : due[t] # 0
      BY <3>1 DEF TimerInv, StepsAgree, NoneDue
    <3>3. ASSUME NEW t \in Timer
          PROVE  (IF due[t] \in Nat /\ due[t] > 0 THEN due[t] - 1 ELSE due[t])
                   = IF due[t] = Never THEN Never ELSE due[t] - 1
      <4>1. CASE due[t] = Never
        BY <4>1, TimerAssumption
      <4>2. CASE due[t] # Never
        <5>1. due[t] \in Nat /\ due[t] > 0
          BY SMT, <1>1, <3>2, <4>2
        <5>2. QED
          BY <4>2, <5>1
      <4>3. QED
        BY <4>1, <4>2
    <3>4. due' = [t \in Timer |-> IF due[t] = Never THEN Never ELSE due[t] - 1]
      BY <3>1, <3>3
    <3>5. D!Tick
      BY <3>1, <3>2, <3>4 DEF D!Tick
    <3>6. QED
      BY <3>5 DEF D!Next
  <2>3. QED
    BY <2>1, <2>2
<1>4. CASE TickExpire
  <2>1. CASE queue # <<>> /\ remain[Head(queue)] = 0
    <3>1. fired' = Head(queue) /\ due' = [due EXCEPT ![Head(queue)] = Never]
      BY <1>4, <2>1 DEF TickExpire
    <3>2. Head(queue) = queue[1] /\ 1 \in 1 .. Len(queue)
      BY SMT, <2>1 DEF TimerInv, TypeOK
    <3>3. queue[1] \in Timer /\ due[queue[1]] = 0
      <4>1. queue[1] \in Timer
        BY <3>2, QueueFacts
      <4>2. due[queue[1]] = remain[queue[1]] + 0
        BY <3>2 DEF TimerInv, DeltasExact
      <4>3. QED
        BY SMT, <2>1, <3>2, <4>1, <4>2
    <3>4. fired = NoTimer
      BY <1>4 DEF TickExpire, TimerInv, StepsAgree
    <3>5. D!Expire(queue[1])
      BY <3>1, <3>2, <3>3, <3>4 DEF D!Expire
    <3>6. QED
      BY <3>3, <3>5 DEF D!Next
  <2>2. CASE ~(queue # <<>> /\ remain[Head(queue)] = 0)
    BY <1>4, <2>2 DEF TickExpire
  <2>3. QED
    BY <2>1, <2>2
<1>5. CASE CallbackReturn
  <2>1. fired \in Timer
    BY <1>1, <1>5 DEF CallbackReturn, TimerInv, StepsAgree
  <2>2. CASE current # NoTimer /\ period[fired] # 0
    <3>1. due' = [due EXCEPT ![fired] = period[fired]] /\ fired' = fired
      BY <1>5, <2>2 DEF CallbackReturn
    <3>2. period[fired] \in Nat \ {0} /\ due'[fired] = period[fired]
      BY <1>1, <2>1, <2>2, <3>1
    <3>3. D!Arm(fired)
      BY <3>1, <3>2 DEF D!Arm
    <3>4. QED
      BY <2>1, <3>3 DEF D!Next
  <2>3. CASE ~(current # NoTimer /\ period[fired] # 0)
    <3>1. D!Return
      BY <1>5, <2>3 DEF CallbackReturn, D!Return
    <3>2. QED
      BY <3>1 DEF D!Next
  <2>4. QED
    BY <2>2, <2>3
<1>6. CASE Link
  <2>1. CASE tick = "rearm"
    <3>1. D!Return
      BY <1>6, <2>1 DEF Link, D!Return
    <3>2. QED
      BY <3>1 DEF D!Next
  <2>2. CASE tick # "rearm"
    BY <1>6, <2>2 DEF Link
  <2>3. QED
    BY <2>1, <2>2
<1>7. CASE \E t \in Timer, value, interval \in Times : SetBegin(t, value, interval)
  BY <1>7 DEF SetBegin
<1>8. CASE SetStop
  <2>1. plock \in Timer
    BY <1>1, <1>8 DEF SetStop
  <2>2. D!Disarm(plock)
    BY <1>8 DEF SetStop, Stop, D!Disarm
  <2>3. QED
    BY <2>1, <2>2 DEF D!Next
<1>9. CASE SetInit
  <2>1. /\ plock \in Timer /\ fired' = fired
        /\ due' = [due EXCEPT ![plock] = timeval2ticks(setting.value)]
    BY <1>1, <1>9 DEF SetInit
  <2>2. setting.value \in Nat /\ setting.value >= UsPerTick
    <3>1. setting.value \in Times /\ setting.value # 0
      BY <1>9 DEF SetInit, TimerInv, TypeOK, StepsAgree
    <3>2. QED
      BY <3>1, TimerAssumption DEF WholeTicks
  <2>3. timeval2ticks(setting.value) \in Nat \ {0}
    BY <2>2, TicksFacts
  <2>4. due'[plock] = timeval2ticks(setting.value)
    BY <1>1, <2>1
  <2>5. D!Arm(plock)
    BY <2>1, <2>3, <2>4 DEF D!Arm
  <2>6. QED
    BY <2>1, <2>5 DEF D!Next
<1>10. QED
  BY <1>2, <1>3, <1>4, <1>5, <1>6, <1>7, <1>8, <1>9 DEF Next, TickStep, Enqueue, Itimer

\* The queue of deltas, the tick that releases its lock for every callback and
\* k_timer_stop() in the middle of it keep the promise of Deadlines.
THEOREM TimersKeepDeadlines ==
  ASSUME WholeTicks
  PROVE  Spec => KeepsDeadlines
<1>1. Init => TimerInv /\ D!Init
  BY InitFacts DEF Init, D!Init
<1>2. TimerInv /\ [Next]_vars => TimerInv'
  BY NextFacts
<1>3. TimerInv /\ [Next]_vars => [D!Next]_<<due, fired>>
  BY StepsKeepDeadlines
<1>4. QED
  BY <1>1, <1>2, <1>3, PTL DEF Spec, KeepsDeadlines, D!Spec
=============================================================================
