------------------------------ MODULE Buffers ------------------------------
(***************************************************************************)
(* The buffer cache, kernel/fs/buf.c, and the request queue of the SD card, *)
(* kernel/drivers/sd/sd.c.                                                  *)
(*                                                                         *)
(* A step is what happens with buf_cache.lock or with sd->lock held, or a   *)
(* change to a buffer whose mutex the thread has.  A mutex is its owner: who *)
(* gets it next is the business of KMutex.  A block is known by its number, *)
(* its size and its device.  Memory does not run out: the page allocator    *)
(* panics.                                                                  *)
(***************************************************************************)
EXTENDS Lists, FiniteSets

CONSTANTS Thread,
          Buf,       \* the buffers: BUF_CACHE_MAX_SIZE of them
          Block,     \* numbers, in the order in which a thread locks them
          Value,     \* what is written to a block
          Blank,     \* what is there at first
          MaxDepth,  \* how many buffers a thread uses at a time
          NoBuf, NoThread, NoBlock

ASSUME BuffersAssumption ==
  /\ Block \subseteq Nat /\ MaxDepth \in Nat /\ IsFiniteSet(Thread)
  /\ NoBuf \notin Buf /\ NoThread \notin Thread /\ NoBlock \notin Block

VARIABLES
  cache,    \* buf_cache.head: the buffers from the most recently released on
  block,    \* block_no
  ref,      \* ref_count
  valid,    \* BUF_VALID
  dirty,    \* BUF_DIRTY
  data,     \* data
  owner,    \* the thread that holds the mutex
  pc,       \* where a thread is, in the operation on the last buffer of held
  held,     \* the buffers a thread refers to
  queue,    \* sd->queue
  card,     \* the command the card has got, and whether it has interrupted
  disk,     \* what is on the card
  panic     \* panic() or assert()

bufVars == <<cache, block, ref, valid, dirty, data, owner>>
vars == <<bufVars, pc, held, queue, card, disk, panic>>

NoCommand == [block |-> NoBlock, write |-> FALSE, irq |-> FALSE]

Init ==
  /\ cache = <<>>
  /\ block = [b \in Buf |-> NoBlock]
  /\ ref = [b \in Buf |-> 0]
  /\ valid = [b \in Buf |-> FALSE]
  /\ dirty = [b \in Buf |-> FALSE]
  /\ data = [b \in Buf |-> Blank]
  /\ owner = [b \in Buf |-> NoThread]
  /\ pc = [t \in Thread |-> "out"]
  /\ held = [t \in Thread |-> <<>>]
  /\ queue = <<>>
  /\ card = NoCommand
  /\ disk = [k \in Block |-> Blank]
  /\ panic = "none"

Top(t) == IF held[t] = <<>> THEN NoBuf ELSE held[t][Len(held[t])]
At(t, where) == panic = "none" /\ pc[t] = where
Go(t, where) == pc' = [pc EXCEPT ![t] = where]
Stop(why) == panic' = why /\ UNCHANGED <<bufVars, pc, held, queue, card, disk>>
-----------------------------------------------------------------------------
(* buf_get()                                                                *)

Hits(k) == {b \in Range(cache) : block[b] = k}

\* Mutant: any buffer that holds another block.
UnusedAny == {i \in DOMAIN cache : TRUE}

\* The buffers nobody refers to, by their place in the cache.
Unused == {i \in DOMAIN cache : ref[cache[i]] = 0}

\* The buffer a block that is not in the cache gets.
Fresh ==
  IF Buf # Range(cache) THEN CHOOSE b \in Buf : b \notin Range(cache)
  ELSE IF Unused = {} THEN NoBuf
  ELSE cache[CHOOSE i \in Unused : \A j \in Unused : j <= i]

\* Mutant: the flags of the previous block stay.
RenamedValid(b, k) ==
  /\ block' = [block EXCEPT ![b] = k]
  /\ ref' = [ref EXCEPT ![b] = 1]
  /\ UNCHANGED <<valid, dirty>>

Renamed(b, k) ==
  /\ block' = [block EXCEPT ![b] = k]
  /\ ref' = [ref EXCEPT ![b] = 1]
  /\ valid' = [valid EXCEPT ![b] = FALSE]
  /\ dirty' = [dirty EXCEPT ![b] = FALSE]

\* The start of buf_read(), by a file system that has no buffer or one with a
\* block that comes before k.  When no buffer is unused it gets none.
Get(t, k) ==
  LET Take(b) == held' = [held EXCEPT ![t] = Append(@, b)] IN
  /\ At(t, "out") \/ (At(t, "use") /\ block[Top(t)] < k /\ Len(held[t]) < MaxDepth)
  /\ \/ \E b \in Hits(k) :
          /\ Take(b)
          /\ ref' = [ref EXCEPT ![b] = @ + 1]
          /\ UNCHANGED <<cache, block, valid, dirty>>
     \/ /\ Hits(k) = {} /\ Fresh # NoBuf
        /\ Take(Fresh)
        /\ Renamed(Fresh, k)
        /\ cache' = IF Fresh \in Range(cache) THEN cache ELSE <<Fresh>> \o cache
  /\ Go(t, "lock")
  /\ UNCHANGED <<data, owner, queue, card, disk, panic>>

\* The rest of buf_read(): k_mutex_lock(), and buf_request() if there is need.
Lock(t) ==
  LET b == Top(t) IN
  /\ At(t, "lock")
  /\ owner[b] = NoThread
  /\ owner' = [owner EXCEPT ![b] = t]
  /\ Go(t, IF valid[b] THEN "use" ELSE "read")
  /\ UNCHANGED <<cache, block, ref, valid, dirty, data, held, queue, card, disk, panic>>
-----------------------------------------------------------------------------
(* sd_request(), for reads and for writes.                                  *)

\* sd_start_transfer(), with the flags d.
Command(b, d) == [block |-> block[b], write |-> d[b], irq |-> FALSE]

Finished(b) == valid[b] /\ ~dirty[b]

\* Mutant: the command is sent without a look at the queue.
RequestAtOnce(t) ==
  LET b == Top(t) IN
  /\ At(t, "read") \/ At(t, "write")
  /\ queue' = Append(queue, b)
  /\ card' = Command(b, dirty)
  /\ Go(t, IF pc[t] = "read" THEN "readsleep" ELSE "writesleep")
  /\ UNCHANGED <<bufVars, held, disk, panic>>

\* buf_request() and sd_request() up to the sleep.
Request(t) ==
  LET b == Top(t) IN
  /\ At(t, "read") \/ At(t, "write")
  /\ IF Finished(b) THEN Stop("nothing to do")
     ELSE /\ queue' = Append(queue, b)
          /\ card' = IF queue = <<>> THEN Command(b, dirty) ELSE card
          /\ Go(t, IF pc[t] = "read" THEN "readsleep" ELSE "writesleep")
          /\ UNCHANGED <<bufVars, held, disk, panic>>

\* The card, external: it is ready for the data.
Ready ==
  /\ card.block # NoBlock /\ ~card.irq
  /\ card' = [card EXCEPT !.irq = TRUE]
  /\ UNCHANGED <<bufVars, pc, held, queue, disk, panic>>

\* Mutant: nobody is woken after a write.
WakeupAllReaders(b) ==
  pc' = [t \in Thread |-> IF Top(t) = b /\ pc[t] = "readsleep" THEN "readwoken" ELSE pc[t]]

\* k_waitqueue_wakeup_all() of a buffer.
WakeupAll(b) ==
  pc' = [t \in Thread |->
           IF Top(t) # b THEN pc[t]
           ELSE IF pc[t] = "readsleep" THEN "readwoken"
           ELSE IF pc[t] = "writesleep" THEN "writewoken"
           ELSE pc[t]]

\* The data goes where the command of the card says.
Transfer(b) ==
  IF dirty[b]
  THEN /\ disk' = [disk EXCEPT ![card.block] = data[b]]
       /\ dirty' = [dirty EXCEPT ![b] = FALSE]
       /\ UNCHANGED <<data, valid>>
  ELSE /\ data' = [data EXCEPT ![b] = disk[card.block]]
       /\ valid' = [valid EXCEPT ![b] = TRUE]
       /\ UNCHANGED <<disk, dirty>>

\* sd_irq_thread(): a transfer in a direction the card does not expect fails.
SdIrq ==
  LET b == Head(queue) IN
  /\ panic = "none" /\ card.irq
  /\ IF queue = <<>> THEN Stop("queue is empty")
     ELSE IF Finished(b) \/ dirty[b] # card.write THEN Stop("error")
     ELSE /\ Transfer(b)
          /\ queue' = Tail(queue)
          /\ card' = IF Tail(queue) = <<>> THEN NoCommand ELSE Command(Head(Tail(queue)), dirty)
          /\ WakeupAll(b)
          /\ UNCHANGED <<cache, block, ref, owner, held, panic>>

\* A signal ends the sleep before its time.
Interrupt(t) ==
  /\ \/ At(t, "readsleep") /\ Go(t, "readwoken")
     \/ At(t, "writesleep") /\ Go(t, "writewoken")
  /\ UNCHANGED <<bufVars, held, queue, card, disk, panic>>

\* The condition of the loop around the sleep.
Awake(t) == Finished(Top(t))

\* The loop goes on, or the caller does.
Continue(t) ==
  /\ \/ /\ At(t, "readwoken")
        /\ IF ~Awake(t) THEN Go(t, "readsleep") /\ UNCHANGED panic
           ELSE Go(t, "use") /\ panic' = IF valid[Top(t)] THEN panic ELSE "not valid"
     \/ /\ At(t, "writewoken")
        /\ IF ~Awake(t) THEN Go(t, "writesleep") /\ UNCHANGED panic
           ELSE Go(t, "unlock") /\ panic' = IF dirty[Top(t)] THEN "buffer still dirty" ELSE panic
  /\ UNCHANGED <<bufVars, held, queue, card, disk>>
-----------------------------------------------------------------------------
(* The use of a buffer, and buf_release().                                  *)

Modify(t, v) ==
  /\ At(t, "use")
  /\ data' = [data EXCEPT ![Top(t)] = v]
  /\ dirty' = [dirty EXCEPT ![Top(t)] = TRUE]
  /\ UNCHANGED <<cache, block, ref, valid, owner, pc, held, queue, card, disk, panic>>

\* A buffer that was changed is written first.
Release(t) ==
  /\ At(t, "use")
  /\ Go(t, IF dirty[Top(t)] THEN "write" ELSE "unlock")
  /\ UNCHANGED <<bufVars, held, queue, card, disk, panic>>

Unlock(t) ==
  /\ At(t, "unlock")
  /\ owner' = [owner EXCEPT ![Top(t)] = NoThread]
  /\ Go(t, "put")
  /\ UNCHANGED <<cache, block, ref, valid, dirty, data, held, queue, card, disk, panic>>

\* The buffer returns to the cache, and the thread to the one it had before.
Put(t) ==
  LET b == Top(t) IN
  /\ At(t, "put")
  /\ ref' = [ref EXCEPT ![b] = @ - 1]
  /\ cache' = IF ref[b] = 1 THEN <<b>> \o Remove(cache, b) ELSE cache
  /\ held' = [held EXCEPT ![t] = SubSeq(@, 1, Len(@) - 1)]
  /\ Go(t, IF Len(held[t]) = 1 THEN "out" ELSE "use")
  /\ UNCHANGED <<block, valid, dirty, data, owner, queue, card, disk, panic>>

Next ==
  \/ Ready \/ SdIrq
  \/ \E t \in Thread :
       \/ \E k \in Block : Get(t, k)
       \/ Lock(t) \/ Request(t) \/ Interrupt(t) \/ Continue(t)
       \/ \E v \in Value : Modify(t, v)
       \/ Release(t) \/ Unlock(t) \/ Put(t)

Spec == Init /\ [][Next]_vars

(***************************************************************************)
(* Fairness: the card answers, the interrupt thread runs (IrqThread), file  *)
(* systems release what they use in the end, and a mutex goes in turn to     *)
(* threads of the same priority.                                            *)
(***************************************************************************)
FairSpec ==
  /\ Spec
  /\ WF_vars(Ready) /\ WF_vars(SdIrq)
  /\ \A t \in Thread :
       /\ SF_vars(Lock(t))
       /\ WF_vars(Request(t)) /\ WF_vars(Unlock(t)) /\ WF_vars(Put(t))
       /\ \A n \in 1 .. MaxDepth : SF_vars(Len(held[t]) = n /\ Release(t))
       /\ WF_vars(Continue(t))
-----------------------------------------------------------------------------
(* Properties.                                                              *)

\* A block is in one buffer at most, and the reference count of a buffer is
\* the number of threads that use it, so that a buffer in use is not reused.
CacheAgrees ==
  /\ \A i, j \in DOMAIN cache : block[cache[i]] = block[cache[j]] => i = j
  /\ \A t \in Thread : Range(held[t]) \subseteq Range(cache)
  /\ \A b \in Range(cache) :
       ref[b] = Cardinality({t \in Thread : b \in Range(held[t])})

\* The card works for the head of the queue, in its direction, and the queue
\* holds the buffers whose owners wait for them: no request is lost or made
\* twice, and no panic() or assertion of buf.c and sd.c is met.
QueueAgrees ==
  /\ panic = "none"
  /\ IF queue = <<>> THEN card = NoCommand
     ELSE card = [Command(Head(queue), dirty) EXCEPT !.irq = card.irq]
  /\ IsInjective(queue)
  /\ \A b \in Buf :
       b \in Range(queue) <=>
         \E t \in Thread :
           /\ Top(t) = b /\ owner[b] = t /\ ~Finished(b)
           /\ pc[t] \in {"readsleep", "readwoken", "writesleep", "writewoken"}

\* Everybody who asks for a block gets it.
ReadsReturn == \A t \in Thread : pc[t] = "lock" ~> pc[t] = "use"

\* What was written to a block stays, whatever is read, reused and released,
\* and blocks are used by one thread at a time.
Holding(k) == {b \in Range(cache) : block[b] = k /\ valid[b]}
Content ==
  [k \in Block |-> IF Holding(k) = {} THEN disk[k] ELSE data[CHOOSE b \in Holding(k) : TRUE]]

Uses(t, b) == b \in Range(held[t]) /\ (Top(t) = b => pc[t] = "use")
User ==
  [k \in Block |->
     LET ts == {t \in Thread : \E b \in Buf : block[b] = k /\ Uses(t, b)}
     IN IF ts = {} THEN NoThread ELSE CHOOSE t \in ts : TRUE]

S == INSTANCE BlockStore WITH content <- Content, user <- User

BlocksAreKept == S!Spec
=============================================================================
