------------------------------ MODULE KMailbox ------------------------------
(***************************************************************************)
(* Mailboxes: kernel/core/mailbox.c, one mailbox with its ring of messages, *)
(* its queue of receivers and its queue of senders.                         *)
(***************************************************************************)
EXTENDS KSpin

CONSTANTS Box,         \* the mailbox
          receivers,   \* mailbox->receivers
          senders,     \* mailbox->senders
          capacity,    \* mailbox->capacity
          Receiver,    \* the threads that receive
          Sender,      \* the threads that send; IRQ handlers may send too
          Message, NoMessage

ASSUME MailboxAssumption ==
  /\ {receivers, senders} \subseteq WaitQueue
  /\ receivers # senders
  /\ capacity \in Nat \ {0}
  /\ NoMessage \notin Message
  /\ Receiver \subseteq Thread /\ Sender \subseteq Thread

VARIABLES
  ring,       \* the messages between buf_start and buf_end
  read_ptr,   \* an index of ring
  write_ptr,
  size

ringVars == <<ring, read_ptr, write_ptr, size>>

MailInit ==
  /\ ring = [i \in 0 .. capacity - 1 |-> NoMessage]
  /\ read_ptr = 0
  /\ write_ptr = 0
  /\ size = 0

\* Mutant: the pointer is wrapped one slot early.
AdvanceEarly(ptr) == IF ptr + 2 >= capacity THEN 0 ELSE ptr + 1

Advance(ptr) == IF ptr + 1 >= capacity THEN 0 ELSE ptr + 1

\* k_mailbox_try_receive_locked() when there is a message: the first message
\* out of a full mailbox wakes a sender.
ReceiveLocked(c) ==
  /\ size > 0
  /\ read_ptr' = Advance(read_ptr)
  /\ size' = size - 1
  /\ UNCHANGED <<ring, write_ptr>>
  /\ IF size = capacity THEN WakeupHolding(c, Box, senders)
                        ELSE WithoutWakeup(c)

\* Mutant: receivers are woken when the mailbox has become full.
SendLockedFull(c, m) ==
  /\ size < capacity
  /\ ring' = [ring EXCEPT ![write_ptr] = m]
  /\ write_ptr' = Advance(write_ptr)
  /\ size' = size + 1
  /\ UNCHANGED read_ptr
  /\ IF size' = capacity THEN WakeupHolding(c, Box, receivers)
                         ELSE WithoutWakeup(c)

\* k_mailbox_try_send_locked() when there is room: the first message into an
\* empty mailbox wakes a receiver.
SendLocked(c, m) ==
  /\ size < capacity
  /\ ring' = [ring EXCEPT ![write_ptr] = m]
  /\ write_ptr' = Advance(write_ptr)
  /\ size' = size + 1
  /\ UNCHANGED read_ptr
  /\ IF size = 0 THEN WakeupHolding(c, Box, receivers)
                 ELSE WithoutWakeup(c)

\* k_mailbox_try_receive() and k_mailbox_try_send(); an empty or a full
\* mailbox changes nothing.
TryReceive(c) ==
  /\ Own(c) /\ curr[c] \in Receiver
  /\ \/ AcquireFails(c, Box) /\ UNCHANGED ringVars
     \/ Available(Box) /\ ReceiveLocked(c)

TrySend(c, m) ==
  /\ InIrq(c) \/ (Own(c) /\ curr[c] \in Sender)
  /\ \/ AcquireFails(c, Box) /\ UNCHANGED ringVars
     \/ Available(Box) /\ SendLocked(c, m)

\* One iteration of the loops of k_mailbox_timed_receive() and
\* k_mailbox_timed_send(): sleep while there is no message, or no room.
TimedReceiveLocked(c, timed) ==
  \/ ReceiveLocked(c)
  \/ size = 0 /\ SleepOn(c, Box, receivers, timed, NoMessage) /\ UNCHANGED ringVars

TimedSendLocked(c, m, timed) ==
  \/ SendLocked(c, m)
  \/ size = capacity /\ SleepOn(c, Box, senders, timed, m) /\ UNCHANGED ringVars

TimedReceive(c, timed) ==
  /\ Own(c) /\ curr[c] \in Receiver
  /\ \/ AcquireFails(c, Box) /\ UNCHANGED ringVars
     \/ Available(Box) /\ TimedReceiveLocked(c, timed)

TimedSend(c, m, timed) ==
  /\ Own(c) /\ curr[c] \in Sender
  /\ \/ AcquireFails(c, Box) /\ UNCHANGED ringVars
     \/ Available(Box) /\ TimedSendLocked(c, m, timed)

\* Back from the sleep: the next iteration.
Retry(c) ==
  LET k == at[curr[c]] IN
  /\ InThread(c)
  /\ k.op = "retry" /\ k.obj = Box
  /\ \/ AcquireFails(c, Box) /\ UNCHANGED ringVars
     \/ /\ Available(Box)
        /\ k.queue = receivers
        /\ TimedReceiveLocked(c, k.timed)
     \/ /\ Available(Box)
        /\ k.queue = senders
        /\ TimedSendLocked(c, k.arg, k.timed)

MailOp(c) ==
  \/ TryReceive(c)
  \/ Retry(c)
  \/ \E m \in Message : TrySend(c, m)
  \/ \E timed \in BOOLEAN :
       \/ TimedReceive(c, timed)
       \/ \E m \in Message : TimedSend(c, m, timed)
-----------------------------------------------------------------------------
(* Properties.                                                              *)

\* The messages in the ring, in the order in which they will be received.
Contents == [i \in 1 .. size |-> ring[(read_ptr + i - 1) % capacity]]

F == INSTANCE BoundedFifo
       WITH Item <- Message, Capacity <- capacity, items <- Contents

\* The ring is a bounded queue: read_ptr, write_ptr and size agree, nothing is
\* lost, duplicated or overwritten.
MailboxIsFifo == F!Spec

\* Nobody sleeps next to work: while a receiver sleeps and there is a message,
\* or a sender sleeps and there is room, one that has been woken is on its way.
\* (True of one receiver and one sender only: a mailbox that goes from one
\* message to two wakes nobody.)
NobodyForgotten ==
  /\ size > 0 /\ waitq[receivers] # <<>> => \E t \in Thread : Woken(t, receivers)
  /\ size < capacity /\ waitq[senders] # <<>> => \E t \in Thread : Woken(t, senders)
=============================================================================
