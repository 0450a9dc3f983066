-------------------------------- MODULE KSpin --------------------------------
(***************************************************************************)
(* Objects with a spinlock of their own and wait queues, over the scheduler *)
(* (kernel/core/spinlock.c and the lock argument of _k_sched_sleep()): what *)
(* semaphores and mailboxes have in common.                                 *)
(*                                                                         *)
(* A spinlock is normally taken and released within one step.  The          *)
(* exception is a wakeup done with the spinlock held: when the woken thread *)
(* preempts the caller, the caller leaves the CPU with the spinlock.        *)
(*                                                                         *)
(* irq_save_count belongs to the CPU, so that threads which run there       *)
(* meanwhile may find interrupts on or off, depending on how they got the   *)
(* CPU; the model lets interrupts happen in either case.                    *)
(***************************************************************************)
EXTENDS Sched

VARIABLES
  spin,   \* spin[o]: the CPU that holds the spinlock of object o
  at,     \* at[t]: where t is in an operation on an object
  panic   \* which panic() has stopped the kernel

spinVars == <<spin, at, panic>>

\* "wait": asleep or woken up but not back yet; "retry" and "giveup": back
\* from the sleep and about to take the spinlock again; "wakeup": preempted
\* inside the wakeup, with the spinlock held.  arg is an argument of the call.
InObject(op, o, queue, timed, arg) ==
  [op |-> op, obj |-> o, queue |-> queue, timed |-> timed, arg |-> arg]
Outside == InObject("none", NoQueue, NoQueue, FALSE, NoQueue)

SpinInit(objects) ==
  /\ spin = [o \in objects |-> NoCpu]
  /\ at = [t \in Thread |-> Outside]
  /\ panic = "none"

\* The thread on c executes code of its own.
Own(c) == InThread(c) /\ at[curr[c]].op = "none"

Caller(c) == Own(c) \/ InIrq(c)

Stop(why) == panic' = why /\ UNCHANGED <<schedVars, spin, at>>

\* k_spinlock_acquire() of a spinlock that this CPU has.
AcquireFails(c, o) == spin[o] = c /\ Stop("already holding")

Available(o) == spin[o] = NoCpu

Place(c, k) == at' = [at EXCEPT ![curr[c]] = k]

\* _k_sched_sleep(queue, THREAD_STATE_SLEEP, timeout, &o->lock): the spinlock
\* is released under the scheduler lock.
SleepOn(c, o, q, timed, arg) ==
  /\ Sleep(c, q, timed)
  /\ Place(c, InObject("wait", o, q, timed, arg))
  /\ UNCHANGED <<spin, panic>>

\* The operation of a thread, or of an IRQ handler, is over.
Returns(c) == IF irq[c] THEN UNCHANGED at ELSE Place(c, Outside)

WithoutWakeup(c) == Returns(c) /\ UNCHANGED <<schedVars, spin, panic>>

\* _k_sched_wakeup_one(q, 0) with the spinlock of o held, and the release of
\* the spinlock.
WakeupHolding(c, o, q) ==
  IF waitq[q] = <<>>
  THEN WithoutWakeup(c)
  ELSE /\ WakeupOne(c, q)
       /\ IF Preempts(c, Head(waitq[q]))
          THEN /\ spin' = [spin EXCEPT ![o] = c]
               /\ Place(c, InObject("wakeup", o, NoQueue, FALSE, NoQueue))
          ELSE Returns(c) /\ UNCHANGED spin
       /\ UNCHANGED panic

\* The preempted caller runs again and releases the spinlock.
Release(c) ==
  LET o == at[curr[c]].obj IN
  /\ InThread(c)
  /\ at[curr[c]].op = "wakeup"
  /\ IF spin[o] = c
     THEN /\ spin' = [spin EXCEPT ![o] = NoCpu]
          /\ Place(c, Outside)
          /\ UNCHANGED <<schedVars, panic>>
     ELSE Stop("cannot release")

\* _k_sched_sleep() returns to the loop that called it.
SleepReturns(c) ==
  /\ ContinueSleep(c)
  /\ IF at[curr[c]].op = "wait"
     THEN Place(c, [at[curr[c]] EXCEPT
                      !.op = IF sleep_result[curr[c]] = "ok" THEN "retry" ELSE "giveup"])
     ELSE UNCHANGED at
  /\ UNCHANGED <<spin, panic>>

\* The loop stops when the sleep ended with an error.
GiveUp(c) ==
  /\ InThread(c)
  /\ at[curr[c]].op = "giveup"
  /\ \/ AcquireFails(c, at[curr[c]].obj)
     \/ /\ Available(at[curr[c]].obj)
        /\ Place(c, Outside)
        /\ UNCHANGED <<schedVars, spin, panic>>

\* Interrupts are off while the current thread has a spinlock.
TakesIrqs(c) == \A t \in Thread : curr[c] = t => at[t].op # "wakeup"

\* The scheduler, for threads that are not inside an operation.
SpinSchedNext ==
  \/ /\ \/ \E t \in Thread : BootResume(t)
        \/ \E c \in Cpu :
             \/ SchedStart(c) \/ Dispatch(c) \/ Idle(c) \/ IdleWake(c) \/ ContinueRun(c)
             \/ Own(c) /\ ThreadYield(c)
             \/ \E u \in Thread : Caller(c) /\ ThreadInterrupt(c, u)
             \/ TakesIrqs(c) /\ IrqBegin(c)
             \/ IrqTick(c) \/ IrqEnd(c)
             \/ \E u \in Thread : IrqTimeout(c, u)
     /\ UNCHANGED spinVars
  \/ \E c \in Cpu : SleepReturns(c) \/ GiveUp(c) \/ Release(c)

\* t was woken from queue q and has not looked at the object again yet.
Woken(t, q) ==
  /\ at[t].queue = q
  /\ \/ at[t].op = "wait" /\ ~Asleep(t) /\ sleep_result[t] = "ok"
     \/ at[t].op = "retry"

\* spinlock.c:37 and :59: a CPU never takes a spinlock it has, and only
\* releases what it has taken.
SpinlocksNest == panic = "none"
=============================================================================
