-------------------------------- MODULE Pipe --------------------------------
(***************************************************************************)
(* Pipes: kernel/pipe.c.                                                    *)
(*                                                                         *)
(* A step is what a process does between taking and releasing pipe->lock:   *)
(* it copies as many bytes as it can and returns, or goes to sleep on one   *)
(* of the queues, which releases the lock.  All process threads have the    *)
(* same priority, so that waking them up does not end the caller's step.    *)
(***************************************************************************)
EXTENDS Naturals, Sequences, FiniteSets, FiniteSetsExt

CONSTANTS Proc,        \* the processes, each with one thread
          Pipes,       \* struct Pipe objects of pipe_cache
          NoPipe,      \* NULL
          PAGE_SIZE,   \* bytes in a pipe
          Byte,        \* values of a byte
          Buffers      \* what processes write, as sequences of bytes

ASSUME PipeAssumption ==
  /\ PAGE_SIZE \in Nat \ {0}
  /\ Byte # {}
  /\ Buffers \subseteq Seq(Byte)
  /\ NoPipe \notin Pipes

VARIABLES
  pipe,   \* pipe[x]: the object's fields; live: taken from the cache;
          \* faulted: history, a read could not store a byte
  io      \* io[p]: the call of pipe_read() or pipe_write() that p is in

pipeVars == <<pipe, io>>

\* p is in no call; or has i bytes of buf behind it (buf only gives the length
\* of a read), and sleeps on the read_queue or write_queue of the pipe.
NoIO == [op |-> "none", pipe |-> NoPipe, buf |-> <<>>, i |-> 0, asleep |-> FALSE]

\* A pipe of the cache or, live, one fresh from pipe_open().  The page is not
\* cleared: it holds any bytes, here the same ones each time.
Opened(live) ==
  [live |-> live, read_open |-> live, write_open |-> live, read_pos |-> 0,
   write_pos |-> 0, size |-> 0, faulted |-> FALSE,
   data |-> [j \in 0 .. PAGE_SIZE - 1 |-> CHOOSE b \in Byte : TRUE]]

PipeInit ==
  /\ pipe = [x \in Pipes |-> Opened(FALSE)]
  /\ io = [p \in Proc |-> NoIO]

Least(a, b) == IF a < b THEN a ELSE b

\* k_waitqueue_wakeup_all() on the queue of the readers or of the writers of x.
WakeupAll(ios, x, op) ==
  [p \in Proc |-> IF ios[p].op = op /\ ios[p].pipe = x
                  THEN [ios[p] EXCEPT !.asleep = FALSE] ELSE ios[p]]

\* p calls pipe_read() or pipe_write().
Call(p, op, x, buf) ==
  io' = [io EXCEPT ![p] = [NoIO EXCEPT !.op = op, !.pipe = x, !.buf = buf]]

Running(p, op) == io[p].op = op /\ ~io[p].asleep

\* The condition of the loop in pipe_read().
Empty(x) == pipe[x].write_open /\ pipe[x].size = 0

ReadSleep(p) ==
  /\ Running(p, "read")
  /\ Empty(io[p].pipe)
  /\ io' = [io EXCEPT ![p].asleep = TRUE]
  /\ UNCHANGED pipe

\* Takes n bytes out of x.
Took(x, n) ==
  [pipe EXCEPT ![x].read_pos = (@ + n) % PAGE_SIZE, ![x].size = @ - n]

\* Mutant: writers are not woken up.
ReadCopyQuiet(p) ==
  LET x == io[p].pipe
      n == Least(Len(io[p].buf), pipe[x].size)
  IN /\ Running(p, "read")
     /\ ~Empty(x)
     /\ pipe' = Took(x, n)
     /\ io' = [io EXCEPT ![p] = NoIO]

\* The copying loop of pipe_read() and the return: the writers are woken up.
ReadCopy(p) ==
  LET x == io[p].pipe
      n == Least(Len(io[p].buf), pipe[x].size)
  IN /\ Running(p, "read")
     /\ ~Empty(x)
     /\ pipe' = Took(x, n)
     /\ io' = [WakeupAll(io, x, "write") EXCEPT ![p] = NoIO]

\* vm_space_copy_out() fails after n bytes: read_pos has moved past the byte
\* that could not be copied, size still counts it.
ReadFault(p) ==
  LET x == io[p].pipe IN
  /\ Running(p, "read")
  /\ ~Empty(x)
  /\ \E n \in 0 .. Least(Len(io[p].buf), pipe[x].size) - 1 :
       pipe' = [Took(x, n) EXCEPT ![x].read_pos = (@ + 1) % PAGE_SIZE,
                                  ![x].faulted = TRUE]
  /\ io' = [WakeupAll(io, x, "write") EXCEPT ![p] = NoIO]

\* Mutant: the pipe takes one byte more.
RoomOver(x) == PAGE_SIZE + 1 - pipe[x].size

Room(x) == PAGE_SIZE - pipe[x].size

\* How many bytes of s the loop of pipe_write() copies before it has to wait:
\* without a reader it does not wait at all.
Fits(x, s) == IF pipe[x].read_open THEN Least(Len(s), Room(x)) ELSE Len(s)

\* Without a reader size grows with every byte; nobody tells the values above
\* PAGE_SIZE apart, so that the model stops counting here.
MaxSize == PAGE_SIZE + 1

\* Puts s into x, each byte at the next position.
Put(x, s) ==
  [pipe EXCEPT
     ![x].write_pos = (@ + Len(s)) % PAGE_SIZE,
     ![x].size = Least(@ + Len(s), MaxSize),
     ![x].data = [j \in 0 .. PAGE_SIZE - 1 |->
        LET here == {k \in 1 .. Len(s) : (pipe[x].write_pos + k - 1) % PAGE_SIZE = j}
        IN IF here = {} THEN @[j] ELSE s[Max(here)]]]

\* The first byte into an empty pipe wakes the readers up.
WakesReaders(x, n) == pipe[x].size = 0 /\ n > 0

\* pipe_write() from the lock to the return or to the sleep on write_queue.
WriteCopy(p) ==
  LET x == io[p].pipe
      rest == SubSeq(io[p].buf, io[p].i + 1, Len(io[p].buf))
      n == Fits(x, rest)
      woken == IF WakesReaders(x, n) THEN WakeupAll(io, x, "read") ELSE io
  IN /\ Running(p, "write")
     /\ pipe' = Put(x, SubSeq(rest, 1, n))
     /\ io' = IF n < Len(rest)
              THEN [woken EXCEPT ![p].i = @ + n, ![p].asleep = TRUE]
              ELSE [woken EXCEPT ![p] = NoIO]

\* A signal ends the sleep: the call returns -EINTR.
Interrupted(p) ==
  /\ io[p].asleep
  /\ io' = [io EXCEPT ![p] = NoIO]
  /\ UNCHANGED pipe

\* The first part of pipe_close(), under the lock.
CloseEnd(x, mode) ==
  /\ pipe' = [pipe EXCEPT ![x].write_open = @ /\ mode # "write",
                          ![x].read_open = @ /\ mode # "read"]
  /\ io' = IF mode = "write" /\ pipe[x].read_open THEN WakeupAll(io, x, "read")
           ELSE IF mode = "read" /\ pipe[x].write_open THEN WakeupAll(io, x, "write")
           ELSE io

\* ... and the rest, by the one who found both ends closed.
Free(x) ==
  /\ pipe' = [pipe EXCEPT ![x] = Opened(FALSE)]
  /\ UNCHANGED io

Transfer(p) == ReadSleep(p) \/ ReadCopy(p) \/ ReadFault(p) \/ WriteCopy(p)
-----------------------------------------------------------------------------
(* Properties.                                                              *)

\* What is in x, oldest first.
Contents(x) ==
  [k \in 1 .. pipe[x].size |-> pipe[x].data[(pipe[x].read_pos + k - 1) % PAGE_SIZE]]

\* Nobody sleeps in pipe_read() or pipe_write() with data, or room, to go on
\* with, or after the other end was closed: no wakeup is lost.
SleepersHaveToWait ==
  \A p \in Proc : io[p].asleep =>
    LET x == io[p].pipe IN
    /\ pipe[x].live
    /\ io[p].op = "read" => pipe[x].size = 0 /\ pipe[x].write_open
    /\ io[p].op = "write" => pipe[x].size = PAGE_SIZE /\ pipe[x].read_open

\* Any pipe: nothing tells them apart.
ThePipe == CHOOSE x \in Pipes : TRUE

InOrder == pipe[ThePipe].read_open /\ ~pipe[ThePipe].faulted

C == INSTANCE Channel WITH
  items <- IF InOrder THEN Contents(ThePipe) ELSE <<>>,
  open <- InOrder,
  Item <- Byte,
  Capacity <- PAGE_SIZE

\* From pipe_open() to the last reader's pipe_close() a pipe is a channel: the
\* positions and the size of pipe.c never disagree, whatever readers, writers,
\* signals, closing and reuse do in whichever order, until a read fails to
\* store a byte in user memory.
PipeIsChannel == C!Spec
=============================================================================
