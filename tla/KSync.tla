------------------------------- MODULE KSync -------------------------------
(***************************************************************************)
(* Semaphores and a mailbox used by the same threads and IRQ handlers, over *)
(* one scheduler.                                                           *)
(***************************************************************************)
EXTENDS KSemaphore, KMailbox

ASSUME SyncAssumption ==
  Semaphore \intersect {Box, receivers, senders} = {}

syncVars == <<schedVars, spinVars, count, ringVars>>

SyncInit ==
  /\ Init
  /\ SpinInit(Semaphore \union {Box})
  /\ SemInit
  /\ MailInit

\* A panic stops all CPUs.
SyncNext ==
  \/ /\ panic = "none"
     /\ \/ SpinSchedNext /\ UNCHANGED <<count, ringVars>>
        \/ \E c \in Cpu : \/ SemOp(c) /\ UNCHANGED ringVars
                          \/ MailOp(c) /\ UNCHANGED count
  \/ panic # "none" /\ UNCHANGED syncVars

SyncSpec == SyncInit /\ [][SyncNext]_syncVars
=============================================================================
