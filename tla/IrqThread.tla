----------------------------- MODULE IrqThread -----------------------------
(***************************************************************************)
(* Interrupts served by a thread: kernel/interrupt.c.  The handler that     *)
(* interrupt_attach_thread() installs only puts a semaphore and leaves the  *)
(* interrupt masked; a thread of priority 0 waits for the semaphore, serves *)
(* the device and unmasks the interrupt.                                    *)
(***************************************************************************)
EXTENDS KSemaphore

CONSTANTS Isr,   \* the thread of interrupt_thread_entry()
          Sem    \* isr->semaphore

ASSUME IrqThreadAssumption == Isr \in Thread /\ Sem \in Semaphore

VARIABLES
  line,     \* the device asks for service
  masked,   \* arch_interrupt_mask()
  serving   \* the thread is in isr->handler()

irqVars == <<semVars, line, masked, serving>>

IrqInit ==
  /\ Init
  /\ SpinInit(Semaphore)
  /\ SemInit
  /\ line = FALSE
  /\ masked = FALSE
  /\ serving = FALSE

\* The device, at any time.
Raise ==
  /\ ~line
  /\ line' = TRUE
  /\ UNCHANGED <<semVars, masked, serving>>

\* interrupt_dispatch() with interrupt_thread_notify() as the handler.
DispatchIrq(c) ==
  /\ InIrq(c)
  /\ line /\ ~masked
  /\ masked' = TRUE
  /\ Put(c, Sem)
  /\ UNCHANGED <<line, serving>>

\* interrupt_thread_entry(): wait for the interrupt ...
IsrGet(c) ==
  /\ curr[c] = Isr /\ ~serving
  /\ TimedGet(c, Sem, FALSE) \/ TimedGetRetry(c)
  /\ serving' = (count'[Sem] < count[Sem])
  /\ UNCHANGED <<line, masked>>

\* ... call the handler, which satisfies the device, and unmask.
IsrServe(c) ==
  /\ curr[c] = Isr /\ serving
  /\ Own(c)
  /\ line' = FALSE
  /\ masked' = FALSE
  /\ serving' = FALSE
  /\ UNCHANGED semVars

\* interrupt_attach_thread() resumes the thread before the scheduler starts.
Start(c) == SchedStart(c) /\ state[Isr] # "suspended"

\* The rest of the system: it knows nothing of the semaphore.
Other ==
  /\ \/ \E t \in Thread : BootResume(t)
     \/ \E c \in Cpu :
          \/ Start(c) \/ Dispatch(c) \/ Idle(c) \/ IdleWake(c) \/ ContinueRun(c)
          \/ ThreadYield(c) /\ curr[c] # Isr
          \/ TakesIrqs(c) /\ IrqBegin(c)
          \/ IrqTick(c) \/ IrqEnd(c)
  /\ UNCHANGED <<spinVars, count>>

IrqNext ==
  \/ Raise
  \/ \E c \in Cpu : DispatchIrq(c) \/ IsrGet(c) \/ IsrServe(c)
  \/ (Other \/ \E c \in Cpu : SleepReturns(c) /\ UNCHANGED count)
       /\ UNCHANGED <<line, masked, serving>>

IrqSpec == IrqInit /\ [][IrqNext]_irqVars

(***************************************************************************)
(* Fairness: main() resumes the thread and starts the scheduler; the CPUs   *)
(* get on with the scheduler and with the interrupts that are pending; the  *)
(* thread, when it has a CPU, gets on with its loop.                        *)
(***************************************************************************)
IrqFairSpec ==
  /\ IrqSpec
  /\ WF_irqVars(BootResume(Isr) /\ UNCHANGED <<spinVars, count, line, masked, serving>>)
  /\ \A c \in Cpu :
       /\ SF_irqVars(/\ \/ Start(c) \/ Dispatch(c) \/ Idle(c) \/ IdleWake(c)
                        \/ ContinueRun(c)
                     /\ UNCHANGED <<spinVars, count, line, masked, serving>>)
       /\ SF_irqVars(SleepReturns(c) /\ UNCHANGED <<count, line, masked, serving>>)
       /\ SF_irqVars(IrqBegin(c) /\ UNCHANGED <<spinVars, count, line, masked, serving>>)
       /\ SF_irqVars(DispatchIrq(c))
       /\ SF_irqVars(IrqEnd(c) /\ UNCHANGED <<spinVars, count, line, masked, serving>>)
       /\ SF_irqVars(IsrGet(c))
       /\ SF_irqVars(IsrServe(c))
-----------------------------------------------------------------------------
(* Properties.                                                              *)

\* Every request of the device is served.
RequestsServed == line ~> ~line
=============================================================================
