------------------------------- MODULE Timer -------------------------------
(***************************************************************************)
(* Timers (kernel/core/timer.c) on a queue of timeouts in which each entry  *)
(* counts the ticks after its predecessor (kernel/core/timeout.c), with the *)
(* interval timers of processes (process_set_itimer() of                    *)
(* kernel/process/process.c) as their user.                                 *)
(*                                                                         *)
(* A step is what a CPU does while it holds k_timer_lock, except that the   *)
(* search for the place of a new timeout is one step per queue element.     *)
(* CPU 0 runs the tick; callbacks are called without k_timer_lock, so that  *)
(* processes on the other CPUs set and stop timers in the middle of a tick. *)
(***************************************************************************)
EXTENDS Naturals, PrioQueue

CONSTANTS Timer,      \* the ITIMER_REAL timers of the processes
          NoTimer,    \* NULL
          Never,      \* ticks left of a timer that is not armed
          UsPerTick,  \* US_PER_TICK
          Times       \* the it_value and it_interval, in microseconds

ASSUME TimerAssumption ==
  /\ NoTimer \notin Timer
  /\ Never \notin Nat
  /\ UsPerTick \in Nat \ {0}
  /\ Times \subseteq Nat

VARIABLES
  queue,      \* k_timer_queue
  remain,     \* remain[t]: entry.remain, the ticks after the predecessor
  period,     \* period[t]: ticks between two callbacks, 0 if there is one
  current,    \* k_timer_current
  tick,       \* where CPU 0 is in _k_timer_tick()
  fired,      \* the timer in _k_timer_timeout(), NoTimer outside of it
  inserting,  \* the timer in _k_timeout_enqueue(), NoTimer outside of it
  cursor,     \* the place in the queue where next_link is
  plock,      \* the process that has __process_lock, by its timer
  setting,    \* where that process is in process_set_itimer()
  panic,      \* a failed assert() or panic() has stopped the kernel
  due         \* history: the ticks left until the callback, as asked for

vars == <<queue, remain, period, current, tick, fired, inserting, cursor,
          plock, setting, panic, due>>

Ticking == {"idle", "expire", "callback", "return", "rearm"}

\* No process is in process_set_itimer().
NotSetting == [step |-> "none", value |-> 0, interval |-> 0]

Init ==
  /\ queue = <<>>
  /\ remain = [t \in Timer |-> 0]
  /\ period = [t \in Timer |-> 0]
  /\ current = NoTimer
  /\ tick = "idle"
  /\ fired = NoTimer
  /\ inserting = NoTimer
  /\ cursor = 1
  /\ plock = NoTimer
  /\ setting = NotSetting
  /\ panic = FALSE
  /\ due = [t \in Timer |-> Never]

\* k_timer_lock is free: CPU 0 is outside its part of the tick and nobody is
\* inserting a timeout.
Unlocked == tick \in {"idle", "callback", "return"} /\ inserting = NoTimer

Queued(t) == t \in Range(queue)

timeval2ticks(us) == us \div UsPerTick
-----------------------------------------------------------------------------
(* kernel/core/timeout.c                                                    *)

\* The first part of _k_timeout_enqueue(): the search starts at the head.
StartEnqueue(t, delay) ==
  /\ panic' = (panic \/ delay = 0)
  /\ remain' = [remain EXCEPT ![t] = delay]
  /\ inserting' = t
  /\ cursor' = 1

\* The first entry that is due later gives up its head start to the new one.
Before(next, t) == remain[next] > remain[t]

\* next_link moves on past an entry that is due earlier or in the same tick.
Advance ==
  /\ inserting # NoTimer
  /\ cursor <= Len(queue)
  /\ ~Before(queue[cursor], inserting)
  /\ remain' = [remain EXCEPT ![inserting] = @ - remain[queue[cursor]]]
  /\ cursor' = cursor + 1
  /\ UNCHANGED <<queue, period, current, tick, fired, inserting, plock,
                 setting, panic, due>>

\* k_list_add_back() in front of next_link, and the end of the operation that
\* wanted the timeout: the callback's caller goes on with the next timeout,
\* process_set_itimer() releases the process lock.
Link ==
  /\ inserting # NoTimer
  /\ cursor <= Len(queue) => Before(queue[cursor], inserting)
  /\ remain' = IF cursor <= Len(queue)
               THEN [remain EXCEPT ![queue[cursor]] = @ - remain[inserting]]
               ELSE remain
  /\ panic' = (panic \/ Queued(inserting))
  /\ queue' = InsertAt(queue, cursor, inserting)
  /\ inserting' = NoTimer
  /\ cursor' = 1
  /\ IF tick = "rearm"
     THEN /\ tick' = "expire"
          /\ fired' = NoTimer
          /\ current' = NoTimer
          /\ UNCHANGED <<plock, setting>>
     ELSE /\ plock' = NoTimer
          /\ setting' = NotSetting
          /\ UNCHANGED <<tick, fired, current>>
  /\ UNCHANGED <<period, due>>

\* Mutant: the successor inherits nothing.
DequeueOnly(t) ==
  /\ queue' = Remove(queue, t)
  /\ UNCHANGED remain

\* _k_timeout_dequeue(): the successor inherits the ticks of t.
Dequeue(t) ==
  /\ queue' = Remove(queue, t)
  /\ remain' = [s \in Timer |->
       IF \E i \in 1 .. Len(queue) - 1 : queue[i] = t /\ queue[i + 1] = s
       THEN remain[s] + remain[t] ELSE remain[s]]
-----------------------------------------------------------------------------
(* kernel/core/timer.c and process_set_itimer()                             *)

\* k_timer_stop(): a timer whose callback is running is not armed again.
Stop(t) ==
  /\ IF Queued(t)
     THEN Dequeue(t) /\ UNCHANGED current
     ELSE /\ current' = IF current = t THEN NoTimer ELSE current
          /\ UNCHANGED <<queue, remain>>
  /\ due' = [due EXCEPT ![t] = Never]

\* process_set_itimer() takes __process_lock.
SetBegin(t, value, interval) ==
  /\ ~panic
  /\ plock = NoTimer
  /\ plock' = t
  /\ setting' = [step |-> "stop", value |-> value, interval |-> interval]
  /\ UNCHANGED <<queue, remain, period, current, tick, fired, inserting,
                 cursor, panic, due>>

\* k_timer_stop(), which is all if the value is 0; process_destroy() calls
\* k_timer_fini() with the same effect.
SetStop ==
  /\ ~panic
  /\ plock # NoTimer
  /\ setting.step = "stop"
  /\ Unlocked
  /\ Stop(plock)
  /\ IF setting.value = 0
     THEN plock' = NoTimer /\ setting' = NotSetting
     ELSE UNCHANGED plock /\ setting' = [setting EXCEPT !.step = "init"]
  /\ UNCHANGED <<period, tick, fired, inserting, cursor, panic>>

\* k_timer_init() with autostart.
SetInit ==
  /\ ~panic
  /\ plock # NoTimer
  /\ setting.step = "init"
  /\ Unlocked
  /\ period' = [period EXCEPT ![plock] = timeval2ticks(setting.interval)]
  /\ StartEnqueue(plock, timeval2ticks(setting.value))
  /\ setting' = [setting EXCEPT !.step = "enqueue"]
  /\ due' = [due EXCEPT ![plock] = timeval2ticks(setting.value)]
  /\ UNCHANGED <<queue, current, tick, fired, plock>>

\* Mutant: the test for an empty queue is off by one.
TickBeginOffByOne ==
  /\ ~panic
  /\ tick = "idle"
  /\ Unlocked
  /\ IF Len(queue) <= 1
     THEN UNCHANGED <<remain, tick, panic, due>>
     ELSE /\ panic' = (remain[Head(queue)] = 0)
          /\ remain' = [remain EXCEPT ![Head(queue)] = IF @ = 0 THEN 0 ELSE @ - 1]
          /\ tick' = "expire"
          /\ due' = [t \in Timer |-> IF due[t] \in Nat /\ due[t] > 0
                                     THEN due[t] - 1 ELSE due[t]]
  /\ UNCHANGED <<queue, period, current, fired, inserting, cursor, plock, setting>>

\* _k_timer_tick(): _k_timeout_process_queue() takes one tick off the head.
TickBegin ==
  /\ ~panic
  /\ tick = "idle"
  /\ Unlocked
  /\ IF queue = <<>>
     THEN UNCHANGED <<remain, tick, panic, due>>
     ELSE /\ panic' = (remain[Head(queue)] = 0)
          /\ remain' = [remain EXCEPT ![Head(queue)] = IF @ = 0 THEN 0 ELSE @ - 1]
          /\ tick' = "expire"
          /\ due' = [t \in Timer |-> IF due[t] \in Nat /\ due[t] > 0
                                     THEN due[t] - 1 ELSE due[t]]
  /\ UNCHANGED <<queue, period, current, fired, inserting, cursor, plock, setting>>

\* Mutant: a timeout is taken off the queue one tick early.
TickExpireEarly ==
  /\ ~panic
  /\ tick = "expire"
  /\ IF queue # <<>> /\ remain[Head(queue)] <= 1
     THEN /\ queue' = Tail(queue)
          /\ current' = Head(queue)
          /\ fired' = Head(queue)
          /\ due' = [due EXCEPT ![Head(queue)] = Never]
          /\ tick' = "callback"
     ELSE /\ tick' = "idle"
          /\ UNCHANGED <<queue, current, fired, due>>
  /\ UNCHANGED <<remain, period, inserting, cursor, plock, setting, panic>>

\* The loop of _k_timeout_process_queue(): the next timeout at 0 is taken off
\* the queue and _k_timer_timeout() releases the lock to call back.
TickExpire ==
  /\ ~panic
  /\ tick = "expire"
  /\ IF queue # <<>> /\ remain[Head(queue)] = 0
     THEN /\ queue' = Tail(queue)
          /\ current' = Head(queue)
          /\ fired' = Head(queue)
          /\ due' = [due EXCEPT ![Head(queue)] = Never]
          /\ tick' = "callback"
     ELSE /\ tick' = "idle"
          /\ UNCHANGED <<queue, current, fired, due>>
  /\ UNCHANGED <<remain, period, inserting, cursor, plock, setting, panic>>

\* process_itimer(): signal_generate() needs the process lock.
Callback ==
  /\ ~panic
  /\ tick = "callback"
  /\ plock = NoTimer
  /\ tick' = "return"
  /\ UNCHANGED <<queue, remain, period, current, fired, inserting, cursor,
                 plock, setting, panic, due>>

\* _k_timer_timeout() after the callback: a periodic timer is armed again
\* unless it has been stopped meanwhile.
CallbackReturn ==
  /\ ~panic
  /\ tick = "return"
  /\ Unlocked
  /\ IF current # NoTimer /\ period[fired] # 0
     THEN /\ inserting' = fired
          /\ cursor' = 1
          /\ remain' = [remain EXCEPT ![fired] = period[fired]]
          /\ due' = [due EXCEPT ![fired] = period[fired]]
          /\ panic' = (current # fired)
          /\ tick' = "rearm"
          /\ UNCHANGED <<current, fired>>
     ELSE /\ panic' = (current \notin {NoTimer, fired})
          /\ current' = NoTimer
          /\ fired' = NoTimer
          /\ tick' = "expire"
          /\ UNCHANGED <<inserting, cursor, remain, due>>
  /\ UNCHANGED <<queue, period, plock, setting>>

TickStep == TickBegin \/ TickExpire \/ Callback \/ CallbackReturn
Enqueue == ~panic /\ (Advance \/ Link)
Itimer ==
  \/ \E t \in Timer, value, interval \in Times : SetBegin(t, value, interval)
  \/ SetStop
  \/ SetInit

Next == TickStep \/ Enqueue \/ Itimer

Spec == Init /\ [][Next]_vars

FairSpec ==
  /\ Spec
  /\ WF_vars(TickStep)
  /\ WF_vars(Enqueue)
  /\ WF_vars(SetStop)
  /\ WF_vars(SetInit)
-----------------------------------------------------------------------------
(* Properties.                                                              *)

\* All variables have the types the code gives them.
TypeOK ==
  /\ queue \in Seq(Timer)
  /\ remain \in [Timer -> Nat]
  /\ period \in [Timer -> Nat]
  /\ current \in Timer \union {NoTimer}
  /\ tick \in Ticking
  /\ fired \in Timer \union {NoTimer}
  /\ inserting \in Timer \union {NoTimer}
  /\ cursor \in Nat \ {0}
  /\ plock \in Timer \union {NoTimer}
  /\ setting \in [step : {"none", "stop", "init", "enqueue"},
                  value : Times \union {0}, interval : Times \union {0}]
  /\ panic \in BOOLEAN
  /\ due \in [Timer -> Nat \union {Never}]

\* A timer is linked on k_timer_queue once, and only between the moment it was
\* armed and the moment it was stopped or its callback was called: neither a
\* callback that returns late nor a stop in the middle of a tick leaves a
\* stopped timer armed or an armed one behind.
ArmedAreQueued ==
  /\ \A i, j \in 1 .. Len(queue) : queue[i] = queue[j] => i = j
  /\ inserting # NoTimer => ~Queued(inserting)
  /\ \A t \in Timer : due[t] # Never <=> (Queued(t) \/ inserting = t)

\* Each entry of the queue counts the ticks from its predecessor's time to its
\* own, through insertions, removals and ticks in any order.
DeltasExact ==
  \A i \in 1 .. Len(queue) :
    due[queue[i]] = remain[queue[i]] + (IF i = 1 THEN 0 ELSE due[queue[i - 1]])

\* None of the asserts and panics of timer.c, timeout.c and k_list_add_back()
\* fails.
NeverPanics == ~panic

D == INSTANCE Deadlines WITH left <- due, calling <- fired

\* A callback is called in the tick its timer was set for and in no other, one
\* at a time and all of them before the next tick, whatever timers are set and
\* stopped while the lock is released.
KeepsDeadlines == D!Spec

\* Once processes stop setting timers, every armed timer gets its callback
\* (unless it was stopped before).
TimersFire ==
  <>[][TickStep \/ Enqueue]_vars => \A t \in Timer : due[t] # Never ~> due[t] = Never
=============================================================================
