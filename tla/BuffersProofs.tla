---------------------------- MODULE BuffersProofs ----------------------------
(***************************************************************************)
(* Proofs about the buffer cache and the request queue of the SD card, for  *)
(* any number of threads, buffers and blocks and any depth of nested reads. *)
(***************************************************************************)
EXTENDS Buffers, PrioQueueProofs, FiniteSetTheorems

\* Zenon proves most leaves; those that need arithmetic, or more about functions
\* and records, cite SMT.
USE Zenon

Sleeping == {"readsleep", "readwoken", "writesleep", "writewoken"}
Place == {"out", "lock", "read", "write", "use", "unlock", "put"} \union Sleeping
Data == Value \union {Blank}

TypeInv ==
  /\ cache \in Seq(Buf)
  /\ block \in [Buf -> Block \union {NoBlock}]
  /\ ref \in [Buf -> Nat]
  /\ valid \in [Buf -> BOOLEAN]
  /\ dirty \in [Buf -> BOOLEAN]
  /\ data \in [Buf -> Data]
  /\ owner \in [Buf -> Thread \union {NoThread}]
  /\ pc \in [Thread -> Place]
  /\ held \in [Thread -> Seq(Buf)]
  /\ queue \in Seq(Buf)
  /\ card \in [block : Block \union {NoBlock}, write : BOOLEAN, irq : BOOLEAN]
  /\ disk \in [Block -> Data]

\* A thread refers to blocks in ascending order, so to each buffer once.
ThreadsInv ==
  \A t \in Thread :
    /\ held[t] = <<>> <=> pc[t] = "out"
    /\ \A i, j \in DOMAIN held[t] : i < j => block[held[t][i]] < block[held[t][j]]

\* A thread has the mutexes of the buffers it refers to, except that of the last
\* one before it has got it and after it has given it back.
Owns(t, b) == b \in Range(held[t]) /\ (b = Top(t) => pc[t] \notin {"lock", "put"})

OwnersInv == \A b \in Buf, t \in Thread : owner[b] = t <=> Owns(t, b)

\* What the flags of the last buffer are, by the place of the thread.
PlaceOK(w, v, d) ==
  /\ w = "use" => v
  /\ w = "read" => ~v
  /\ w = "write" => d
  /\ w \in {"readsleep", "readwoken"} => ~d
  /\ w \in {"writesleep", "writewoken"} => v
  /\ w = "unlock" => v /\ ~d

\* Only a buffer that is locked differs from the disk.
FlagsInv ==
  /\ \A b \in Buf : dirty[b] => valid[b] /\ owner[b] # NoThread
  /\ \A t \in Thread : \A b \in Range(held[t]) :
       IF b = Top(t) THEN PlaceOK(pc[t], valid[b], dirty[b]) ELSE valid[b]

Users(b) == {t \in Thread : b \in Range(held[t])}

CacheInv ==
  /\ IsInjective(cache)
  /\ \A a, b \in Range(cache) : block[a] = block[b] => a = b
  /\ \A b \in Range(cache) : block[b] \in Block /\ ref[b] = Cardinality(Users(b))
  /\ \A t \in Thread : Range(held[t]) \subseteq Range(cache)

DiskInv ==
  \A b \in Range(cache) : valid[b] /\ ~dirty[b] => data[b] = disk[block[b]]

BInv ==
  /\ TypeInv /\ ThreadsInv /\ OwnersInv /\ FlagsInv
  /\ CacheInv /\ DiskInv /\ QueueAgrees

-----------------------------------------------------------------------------
(* What the invariant says of one thread or one buffer.                     *)

LEMMA TopFacts ==
  ASSUME NEW s \in Seq(Buf), s # <<>>
  PROVE  /\ Len(s) \in Nat /\ Len(s) > 0
         /\ Len(s) \in DOMAIN s /\ s[Len(s)] \in Range(s) /\ s[Len(s)] \in Buf
<1>1. Len(s) \in Nat /\ Len(s) > 0 /\ DOMAIN s = 1 .. Len(s)
  BY SMT
<1>2. Len(s) \in DOMAIN s
  BY <1>1, SMT
<1>3. s[Len(s)] \in Range(s)
  BY <1>2 DEF Range
<1>4. QED
  BY <1>1, <1>2, <1>3, RangeFacts

\* A thread that is not outside has a last buffer.
LEMMA TopHeld ==
  ASSUME TypeInv, ThreadsInv, NEW t \in Thread, pc[t] # "out"
  PROVE  /\ held[t] \in Seq(Buf) /\ held[t] # <<>>
         /\ Top(t) = held[t][Len(held[t])]
         /\ Top(t) \in Range(held[t]) /\ Top(t) \in Buf
<1>1. held[t] \in Seq(Buf)
  BY DEF TypeInv
<1>2. held[t] # <<>>
  BY DEF ThreadsInv
<1>3. Top(t) = held[t][Len(held[t])]
  BY <1>2 DEF Top
<1>4. QED
  BY <1>1, <1>2, <1>3, TopFacts

LEMMA HeldCached ==
  ASSUME TypeInv, CacheInv, NEW t \in Thread, NEW b \in Range(held[t])
  PROVE  b \in Buf /\ b \in Range(cache) /\ block[b] \in Block
<1>1. b \in Range(cache)
  BY DEF CacheInv
<1>2. Range(cache) \subseteq Buf
  BY RangeFacts DEF TypeInv
<1>3. QED
  BY <1>1, <1>2 DEF CacheInv

\* Whoever refers to a buffer that another thread has locked is about to lock
\* it, or has unlocked it.
LEMMA OthersWait ==
  ASSUME TypeInv, CacheInv, OwnersInv, NEW t \in Thread, NEW b \in Range(held[t]), owner[b] # t
  PROVE  b = Top(t) /\ pc[t] \in {"lock", "put"}
BY HeldCached DEF OwnersInv, Owns

LEMMA TopOwned ==
  ASSUME BInv, NEW t \in Thread, pc[t] \notin {"out", "lock", "put"}
  PROVE  /\ Top(t) \in Buf /\ Top(t) \in Range(held[t]) /\ owner[Top(t)] = t
         /\ PlaceOK(pc[t], valid[Top(t)], dirty[Top(t)])
<1>1. Top(t) \in Buf /\ Top(t) \in Range(held[t])
  BY TopHeld DEF BInv
<1>2. owner[Top(t)] = t
  BY <1>1 DEF BInv, OwnersInv, Owns
<1>3. QED
  BY <1>1, <1>2 DEF BInv, FlagsInv

\* The thread a buffer in the queue belongs to.
LEMMA QueuedOwner ==
  ASSUME BInv, NEW b \in Range(queue)
  PROVE  /\ b \in Buf /\ owner[b] \in Thread /\ Top(owner[b]) = b
         /\ pc[owner[b]] \in Sleeping /\ ~Finished(b)
<1>1. b \in Buf
  BY RangeFacts DEF BInv, TypeInv
<1>2. PICK t \in Thread : Top(t) = b /\ owner[b] = t /\ ~Finished(b) /\ pc[t] \in Sleeping
  BY <1>1 DEF BInv, QueueAgrees, Sleeping
<1>3. QED
  BY <1>1, <1>2

\* A thread that is not asleep has nothing in the queue.
LEMMA NotQueued ==
  ASSUME BInv, NEW t \in Thread, NEW b \in Buf, owner[b] = t, b # Top(t) \/ pc[t] \notin Sleeping
  PROVE  b \notin Range(queue)
BY QueuedOwner

LEMMA UnownedNotQueued ==
  ASSUME BInv, NEW b \in Buf, owner[b] = NoThread
  PROVE  b \notin Range(queue)
BY QueuedOwner, BuffersAssumption

-----------------------------------------------------------------------------
(* What a step leaves alone.                                                *)

LEMMA SameTop ==
  ASSUME UNCHANGED held
  PROVE  \A t : Top(t)' = Top(t)
BY DEF Top

LEMMA SameCache ==
  ASSUME CacheInv, UNCHANGED <<cache, block, ref, held>>
  PROVE  CacheInv'
BY DEF CacheInv, Users

LEMMA SameThreads ==
  ASSUME ThreadsInv, UNCHANGED <<block, held>>,
         \A t \in Thread : pc'[t] = "out" <=> pc[t] = "out"
  PROVE  ThreadsInv'
BY DEF ThreadsInv

LEMMA SameOwners ==
  ASSUME OwnersInv, UNCHANGED <<owner, held>>,
         \A t \in Thread : pc'[t] \in {"lock", "put"} <=> pc[t] \in {"lock", "put"}
  PROVE  OwnersInv'
<1>1. \A t \in Thread : \A b : Owns(t, b)' <=> Owns(t, b)
  BY SameTop DEF Owns
<1>2. QED
  BY <1>1 DEF OwnersInv

\* A thread that has locked its last buffer goes on to w.
LEMMA MoveOn ==
  ASSUME BInv, NEW t \in Thread, pc[t] \notin {"out", "lock", "put"},
         NEW w \in Place \ {"out", "lock", "put"}, pc' = [pc EXCEPT ![t] = w],
         UNCHANGED <<bufVars, held, disk>>, PlaceOK(w, valid[Top(t)], dirty[Top(t)])
  PROVE  /\ pc' \in [Thread -> Place]
         /\ ThreadsInv' /\ OwnersInv' /\ FlagsInv' /\ CacheInv' /\ DiskInv'
<1>1. pc \in [Thread -> Place] /\ pc' \in [Thread -> Place]
  BY SMT DEF BInv, TypeInv
<1>2. pc'[t] = w /\ \A u \in Thread : u # t => pc'[u] = pc[u]
  BY <1>1, SMT
<1>3. ThreadsInv' /\ OwnersInv'
  BY <1>2, SameThreads, SameOwners DEF BInv, bufVars
<1>4. FlagsInv'
  <2>1. ASSUME NEW u \in Thread, NEW b \in Range(held[u])
        PROVE  IF b = Top(u) THEN PlaceOK(pc'[u], valid[b], dirty[b]) ELSE valid[b]
    <3>1. CASE u = t
      BY <1>2, <3>1 DEF BInv, FlagsInv
    <3>2. CASE u # t
      BY <1>2, <3>2 DEF BInv, FlagsInv
    <3>3. QED
      BY <3>1, <3>2
  <2>2. \A u : Top(u)' = Top(u)
    BY SameTop
  <2>3. QED
    BY <2>1, <2>2 DEF BInv, FlagsInv, bufVars
<1>5. CacheInv' /\ DiskInv'
  BY SameCache DEF BInv, DiskInv, bufVars
<1>6. QED
  BY <1>1, <1>3, <1>4, <1>5

\* A command as a record.
Commands == [block : Block \union {NoBlock}, write : BOOLEAN, irq : BOOLEAN]

LEMMA RecordFacts ==
  ASSUME NEW k, NEW w, NEW i
  PROVE  /\ [block |-> k, write |-> w, irq |-> i].block = k
         /\ [block |-> k, write |-> w, irq |-> i].write = w
         /\ [block |-> k, write |-> w, irq |-> i].irq = i
         /\ \A j : [[block |-> k, write |-> w, irq |-> i] EXCEPT !.irq = j] =
                   [block |-> k, write |-> w, irq |-> j]
BY SMT

LEMMA IrqSet ==
  ASSUME NEW k, NEW w, NEW i, NEW j, NEW c, c = [block |-> k, write |-> w, irq |-> i]
  PROVE  [c EXCEPT !.irq = j] = [block |-> k, write |-> w, irq |-> j]
BY SMT

LEMMA IrqFacts ==
  ASSUME NEW c \in Commands, NEW j \in BOOLEAN
  PROVE  [c EXCEPT !.irq = j] \in Commands
BY SMT DEF Commands

LEMMA CommandFacts ==
  ASSUME NEW b, NEW d
  PROVE  /\ Command(b, d).block = block[b] /\ Command(b, d).write = d[b]
         /\ Command(b, d).irq = FALSE
         /\ \A j : [Command(b, d) EXCEPT !.irq = j] = [block |-> block[b], write |-> d[b], irq |-> j]
         /\ block[b] \in Block \union {NoBlock} /\ d[b] \in BOOLEAN => Command(b, d) \in Commands
<1>1. /\ Command(b, d).block = block[b] /\ Command(b, d).write = d[b]
      /\ Command(b, d).irq = FALSE
  BY RecordFacts DEF Command
<1>2. ASSUME NEW j
      PROVE  [Command(b, d) EXCEPT !.irq = j] = [block |-> block[b], write |-> d[b], irq |-> j]
  BY SMT DEF Command
<1>3. block[b] \in Block \union {NoBlock} /\ d[b] \in BOOLEAN => Command(b, d) \in Commands
  BY SMT DEF Command, Commands
<1>4. QED
  BY <1>1, <1>2, <1>3

\* The queue and the card stay, and so does who waits.
Waits(t, b) == Top(t) = b /\ owner[b] = t /\ ~Finished(b) /\ pc[t] \in Sleeping

LEMMA KeptQueue ==
  ASSUME BInv, UNCHANGED <<queue, card, panic>>,
         \A b \in Range(queue) : dirty'[b] = dirty[b] /\ block'[b] = block[b],
         \A b \in Buf, t \in Thread : Waits(t, b)' <=> Waits(t, b)
  PROVE  QueueAgrees'
<1>1. queue # <<>> => Head(queue) \in Range(queue)
  BY HeadTailFacts DEF BInv, TypeInv
<1>2. queue # <<>> => Command(Head(queue), dirty)' = Command(Head(queue), dirty)
  BY <1>1 DEF Command
<1>3. IF queue' = <<>> THEN card' = NoCommand
      ELSE card' = [Command(Head(queue), dirty)' EXCEPT !.irq = card'.irq]
  BY <1>2 DEF BInv, QueueAgrees
<1>4. ASSUME NEW b \in Buf
      PROVE  b \in Range(queue') <=> \E t \in Thread : Waits(t, b)'
  <2>1. b \in Range(queue) <=> \E t \in Thread : Waits(t, b)
    BY DEF BInv, QueueAgrees, Waits, Sleeping
  <2>2. QED
    BY <2>1
<1>5. panic' = "none" /\ IsInjective(queue')
  BY DEF BInv, QueueAgrees
<1>6. QED
  BY <1>3, <1>4, <1>5 DEF QueueAgrees, NoCommand, Waits, Sleeping

LEMMA SameQueue ==
  ASSUME BInv, UNCHANGED <<queue, card, block, held, panic>>,
         \A b \in Range(queue) : dirty'[b] = dirty[b],
         \A b \in Buf, t \in Thread : Top(t) = b =>
           ((owner'[b] = t /\ ~Finished(b)' /\ pc'[t] \in Sleeping) <=>
            (owner[b] = t /\ ~Finished(b) /\ pc[t] \in Sleeping))
  PROVE  QueueAgrees'
<1>1. \A b \in Buf, t \in Thread : Waits(t, b)' <=> Waits(t, b)
  BY SameTop DEF Waits
<1>2. QED
  BY <1>1, KeptQueue

-----------------------------------------------------------------------------
(* The steps of a thread in a read, and of the card.                        *)

LEMMA LockStep ==
  ASSUME BInv, NEW t \in Thread, Lock(t)
  PROVE  BInv'
<1> DEFINE b == Top(t)
           w == IF valid[b] THEN "use" ELSE "read"
<1>1. /\ pc[t] = "lock" /\ owner[b] = NoThread
      /\ owner' = [owner EXCEPT ![b] = t] /\ pc' = [pc EXCEPT ![t] = w]
      /\ UNCHANGED <<cache, block, ref, valid, dirty, data, held, queue, card, disk, panic>>
  BY DEF Lock, At, Go
<1>2. b \in Buf /\ b \in Range(held[t])
  BY <1>1, TopHeld DEF BInv
<1>3. /\ pc \in [Thread -> Place] /\ owner \in [Buf -> Thread \union {NoThread}]
      /\ w \in {"use", "read"} /\ w \in Place /\ w \notin Sleeping
  BY DEF BInv, TypeInv, Place, Sleeping
<1> HIDE DEF b
<1>4. /\ pc' \in [Thread -> Place] /\ owner' \in [Buf -> Thread \union {NoThread}]
      /\ pc'[t] = w /\ \A u \in Thread : u # t => pc'[u] = pc[u]
      /\ owner'[b] = t /\ \A a \in Buf : a # b => owner'[a] = owner[a]
  BY <1>1, <1>2, <1>3, SMT
<1>5. \A u : Top(u)' = Top(u)
  BY <1>1, SameTop
<1>6. TypeInv'
  BY <1>1, <1>4 DEF BInv, TypeInv
<1>7. ThreadsInv'
  BY <1>1, <1>3, <1>4, SameThreads DEF BInv
<1>8. OwnersInv'
  <2>1. ASSUME NEW a \in Buf, NEW u \in Thread PROVE owner'[a] = u <=> Owns(u, a)'
    <3>1. owner[a] = u <=> Owns(u, a)
      BY DEF BInv, OwnersInv
    <3>2. CASE a = b /\ u = t
      BY <1>1, <1>2, <1>3, <1>4, <3>2 DEF Owns
    <3>3. CASE u # t
      <4>1. Owns(u, a)' <=> Owns(u, a)
        BY <1>1, <1>4, <1>5, <3>3 DEF Owns
      <4>2. CASE a = b
        BY <1>1, <1>4, <3>1, <3>3, <4>1, <4>2, BuffersAssumption
      <4>3. QED
        BY <1>4, <3>1, <4>1, <4>2
    <3>4. CASE u = t /\ a # b
      <4>1. Owns(u, a)' <=> Owns(u, a)
        BY <1>1, <1>5, <3>4 DEF Owns, b
      <4>2. QED
        BY <1>4, <3>1, <3>4, <4>1
    <3>5. QED
      BY <3>2, <3>3, <3>4
  <2>2. QED
    BY <2>1 DEF OwnersInv
<1>9. FlagsInv'
  <2>1. ASSUME NEW a \in Buf, dirty[a] PROVE valid[a] /\ owner'[a] # NoThread
    <3>1. valid[a] /\ owner[a] # NoThread
      BY <2>1 DEF BInv, FlagsInv
    <3>2. QED
      BY <1>1, <1>4, <3>1
  <2>2. ASSUME NEW u \in Thread, NEW a \in Range(held[u])
        PROVE  IF a = Top(u) THEN PlaceOK(pc'[u], valid[a], dirty[a]) ELSE valid[a]
    <3>1. IF a = Top(u) THEN PlaceOK(pc[u], valid[a], dirty[a]) ELSE valid[a]
      BY DEF BInv, FlagsInv
    <3>2. CASE u = t /\ a = b
      BY <1>4, <3>2 DEF PlaceOK, b
    <3>3. CASE ~(u = t /\ a = b)
      BY <1>4, <3>1, <3>3 DEF b
    <3>4. QED
      BY <3>2, <3>3
  <2>3. QED
    BY <1>1, <1>5, <2>1, <2>2 DEF FlagsInv
<1>10. CacheInv' /\ DiskInv'
  BY <1>1, SameCache DEF BInv, DiskInv
<1>11. QueueAgrees'
  <2>1. ASSUME NEW a \in Buf, NEW u \in Thread, Top(u) = a
        PROVE  (owner'[a] = u /\ ~Finished(a)' /\ pc'[u] \in Sleeping) <=>
               (owner[a] = u /\ ~Finished(a) /\ pc[u] \in Sleeping)
    <3>1. Finished(a)' <=> Finished(a)
      BY <1>1 DEF Finished
    <3>2. pc[t] \notin Sleeping
      BY <1>1 DEF Sleeping
    <3>3. CASE u = t
      BY <1>3, <1>4, <3>2, <3>3
    <3>4. CASE u # t /\ a # b
      BY <1>4, <3>1, <3>4
    <3>5. CASE u # t /\ a = b
      BY <1>1, <1>4, <3>5, BuffersAssumption
    <3>6. QED
      BY <3>3, <3>4, <3>5
  <2>2. QED
    BY <1>1, <2>1, SameQueue
<1>12. QED
  BY <1>6, <1>7, <1>8, <1>9, <1>10, <1>11 DEF BInv

LEMMA RequestStep ==
  ASSUME BInv, NEW t \in Thread, Request(t)
  PROVE  BInv'
<1> DEFINE b == Top(t)
           w == IF pc[t] = "read" THEN "readsleep" ELSE "writesleep"
<1>1. pc[t] \in {"read", "write"}
  BY DEF Request, At
<1>2. /\ b \in Buf /\ b \in Range(held[t]) /\ owner[b] = t
      /\ PlaceOK(pc[t], valid[b], dirty[b]) /\ (dirty[b] => valid[b])
  BY <1>1, TopOwned DEF BInv, FlagsInv
<1>3. ~Finished(b)
  BY <1>1, <1>2 DEF PlaceOK, Finished
<1>4. /\ queue' = Append(queue, b)
      /\ card' = IF queue = <<>> THEN Command(b, dirty) ELSE card
      /\ pc' = [pc EXCEPT ![t] = w]
      /\ UNCHANGED <<bufVars, held, disk, panic>>
  BY <1>1, <1>3 DEF Request, Go
<1>5. w \in {"readsleep", "writesleep"} /\ w \in Place \ {"out", "lock", "put"} /\ w \in Sleeping
  BY DEF Place, Sleeping
<1>6. PlaceOK(w, valid[b], dirty[b])
  BY <1>1, <1>2 DEF PlaceOK
<1>7. /\ pc' \in [Thread -> Place]
      /\ ThreadsInv' /\ OwnersInv' /\ FlagsInv' /\ CacheInv' /\ DiskInv'
  BY <1>1, <1>4, <1>5, <1>6, MoveOn
<1> HIDE DEF w
<1>8. pc'[t] = w /\ \A u \in Thread : u # t => pc'[u] = pc[u]
  BY <1>4, SMT DEF BInv, TypeInv
<1>9. b \notin Range(queue)
  BY <1>1, <1>2, NotQueued DEF Sleeping
<1>10. /\ queue' \in Seq(Buf) /\ IsInjective(queue')
       /\ Range(queue') = Range(queue) \union {b}
  <2>1. queue \in Seq(Buf) /\ IsInjective(queue)
    BY DEF BInv, TypeInv, QueueAgrees
  <2>2. b \in Buf
    BY <1>2
  <2>3. /\ Append(queue, b) \in Seq(Buf) /\ IsInjective(Append(queue, b))
        /\ Range(Append(queue, b)) = Range(queue) \union {b}
    BY <1>9, <2>1, <2>2, AppendFacts
  <2>4. QED
    BY <1>4, <2>3
<1>11. block[b] \in Block \union {NoBlock} /\ dirty[b] \in BOOLEAN
  BY <1>2 DEF BInv, TypeInv
<1>12. card' \in [block : Block \union {NoBlock}, write : BOOLEAN, irq : BOOLEAN]
  BY <1>4, <1>11, SMT DEF BInv, TypeInv, Command
<1>13. TypeInv'
  BY <1>4, <1>7, <1>10, <1>12 DEF BInv, TypeInv, bufVars
<1>14. queue' # <<>> /\ Head(queue') = IF queue = <<>> THEN b ELSE Head(queue)
  BY <1>2, <1>4, SMT DEF BInv, TypeInv
<1>15. card' = [Command(Head(queue), dirty)' EXCEPT !.irq = card'.irq]
  <2>1. \A a : Command(a, dirty)' = Command(a, dirty)
    BY <1>4 DEF Command, bufVars
  <2>2. CASE queue = <<>>
    <3>1. card' = Command(b, dirty) /\ Head(queue') = b
      BY <1>4, <1>14, <2>2
    <3>2. Command(b, dirty) = [Command(b, dirty) EXCEPT !.irq = FALSE]
      BY CommandFacts DEF Command
    <3>3. card'.irq = FALSE
      BY <3>1, CommandFacts
    <3>4. Command(Head(queue), dirty)' = Command(b, dirty)
      BY <2>1, <3>1 DEF Command
    <3>5. QED
      BY <3>1, <3>2, <3>3, <3>4
  <2>3. CASE queue # <<>>
    BY <1>4, <1>14, <2>1, <2>3 DEF BInv, QueueAgrees, Command
  <2>4. QED
    BY <2>2, <2>3
<1>16. ASSUME NEW a \in Buf
       PROVE  a \in Range(queue') <=>
                \E u \in Thread :
                  Top(u)' = a /\ owner'[a] = u /\ ~Finished(a)' /\ pc'[u] \in Sleeping
  <2>1. \A u : Top(u)' = Top(u)
    BY <1>4, SameTop
  <2>2. owner' = owner /\ (Finished(a)' <=> Finished(a))
    BY <1>4 DEF bufVars, Finished
  <2>3. a \in Range(queue) <=>
          \E u \in Thread : Top(u) = a /\ owner[a] = u /\ ~Finished(a) /\ pc[u] \in Sleeping
    BY DEF BInv, QueueAgrees, Sleeping
  <2>4. CASE a = b
    BY <1>2, <1>3, <1>5, <1>8, <1>10, <2>1, <2>2, <2>4
  <2>5. CASE a # b
    BY <1>8, <1>10, <2>1, <2>2, <2>3, <2>5
  <2>6. QED
    BY <2>4, <2>5
<1>17. QueueAgrees'
  BY <1>4, <1>10, <1>14, <1>15, <1>16 DEF BInv, QueueAgrees, Sleeping
<1>18. QED
  BY <1>7, <1>13, <1>17 DEF BInv

LEMMA ReadyStep ==
  ASSUME BInv, Ready
  PROVE  BInv'
<1>1. /\ card.block # NoBlock /\ card' = [card EXCEPT !.irq = TRUE]
      /\ UNCHANGED <<bufVars, pc, held, queue, disk, panic>>
  BY DEF Ready
<1>2. TypeInv'
  <2>1. card' \in [block : Block \union {NoBlock}, write : BOOLEAN, irq : BOOLEAN]
    <3>1. card \in Commands
      BY DEF BInv, TypeInv, Commands
    <3>2. card' \in Commands
      BY <1>1, <3>1, IrqFacts
    <3>3. QED
      BY <3>2 DEF Commands
  <2>2. QED
    BY <1>1, <2>1 DEF BInv, TypeInv, bufVars
<1>3. \A t : Top(t)' = Top(t)
  BY <1>1, SameTop
<1>4. ThreadsInv' /\ OwnersInv' /\ FlagsInv' /\ CacheInv' /\ DiskInv'
  BY <1>1, <1>3, SameThreads, SameOwners, SameCache DEF BInv, FlagsInv, DiskInv, bufVars
<1>5. queue # <<>> /\ card = [Command(Head(queue), dirty) EXCEPT !.irq = card.irq]
  <2>1. NoCommand.block = NoBlock
    BY SMT DEF NoCommand
  <2>2. QED
    BY <1>1, <2>1 DEF BInv, QueueAgrees
<1>6. card' = [Command(Head(queue), dirty)' EXCEPT !.irq = card'.irq]
  <2>1. Command(Head(queue), dirty)' = Command(Head(queue), dirty)
    BY <1>1 DEF Command, bufVars
  <2>2. card' = [Command(Head(queue), dirty) EXCEPT !.irq = card'.irq]
    <3>1. PICK h : h = Head(queue)
      OBVIOUS
    <3>2. PICK i : i = card.irq
      OBVIOUS
    <3>3. card = [Command(h, dirty) EXCEPT !.irq = i]
      BY <1>5, <3>1, <3>2
    <3>4. card = [block |-> block[h], write |-> dirty[h], irq |-> i]
      BY <3>3, CommandFacts
    <3>5. card' = [block |-> block[h], write |-> dirty[h], irq |-> TRUE]
      BY <1>1, <3>4, IrqSet
    <3>6. card'.irq = TRUE
      BY <3>5, RecordFacts
    <3>7. card' = [Command(h, dirty) EXCEPT !.irq = TRUE]
      BY <3>5, CommandFacts
    <3>8. QED
      BY <3>1, <3>6, <3>7
  <2>3. QED
    BY <2>1, <2>2
<1>7. QueueAgrees'
  <2>1. \A b : Finished(b)' <=> Finished(b)
    BY <1>1 DEF Finished, bufVars
  <2>2. QED
    BY <1>1, <1>3, <1>5, <1>6, <2>1 DEF BInv, QueueAgrees, bufVars
<1>8. QED
  BY <1>2, <1>4, <1>7 DEF BInv

\* The card's interrupt finds what the card was told.
LEMMA SdIrqFacts ==
  ASSUME BInv, SdIrq
  PROVE  LET b == Head(queue)
         IN  /\ queue # <<>> /\ b \in Range(queue) /\ b \in Buf /\ b \in Range(cache)
             /\ owner[b] \in Thread /\ Top(owner[b]) = b /\ pc[owner[b]] \in Sleeping
             /\ b \in Range(held[owner[b]])
             /\ ~Finished(b) /\ card.block = block[b] /\ block[b] \in Block
             /\ Transfer(b)
             /\ queue' = Tail(queue)
             /\ card' = IF Tail(queue) = <<>> THEN NoCommand
                        ELSE Command(Head(Tail(queue)), dirty)
             /\ WakeupAll(b)
             /\ UNCHANGED <<cache, block, ref, owner, held, panic>>
<1> DEFINE b == Head(queue)
<1>1. card.irq
  BY DEF SdIrq
<1>2. queue # <<>> /\ card = [Command(b, dirty) EXCEPT !.irq = card.irq]
  <2>1. NoCommand.irq = FALSE
    BY SMT DEF NoCommand
  <2>2. QED
    BY <1>1, <2>1 DEF BInv, QueueAgrees
<1>3. card.block = block[b] /\ card.write = dirty[b]
  BY <1>2, SMT DEF Command
<1>4. b \in Range(queue)
  BY <1>2, HeadTailFacts DEF BInv, TypeInv
<1>5. /\ b \in Buf /\ owner[b] \in Thread /\ Top(owner[b]) = b
      /\ pc[owner[b]] \in Sleeping /\ ~Finished(b)
  BY <1>4, QueuedOwner
<1>6. b \in Range(held[owner[b]])
  BY <1>5, TopHeld DEF BInv, Sleeping
<1>7. b \in Range(cache) /\ block[b] \in Block
  BY <1>5, <1>6, HeldCached DEF BInv
<1>8. QED
  BY <1>2, <1>3, <1>4, <1>5, <1>6, <1>7 DEF SdIrq

\* What the wakeup does to the threads.
LEMMA WakeupFacts ==
  ASSUME TypeInv, NEW b, WakeupAll(b)
  PROVE  /\ pc' \in [Thread -> Place]
         /\ \A t \in Thread : Top(t) # b \/ pc[t] \notin Sleeping => pc'[t] = pc[t]
         /\ \A t \in Thread : pc'[t] \in Sleeping <=> pc[t] \in Sleeping
         /\ \A t \in Thread : pc'[t] \in {"readsleep", "readwoken"} <=>
                              pc[t] \in {"readsleep", "readwoken"}
<1>1. \A t \in Thread : pc'[t] =
        IF Top(t) # b THEN pc[t]
        ELSE IF pc[t] = "readsleep" THEN "readwoken"
        ELSE IF pc[t] = "writesleep" THEN "writewoken"
        ELSE pc[t]
  BY SMT DEF WakeupAll
<1>2. \A t \in Thread : pc[t] \in Place /\ pc'[t] \in Place
  BY <1>1, SMT DEF TypeInv, Place, Sleeping
<1>3. pc' \in [Thread -> Place]
  <2>1. pc' = [t \in Thread |-> pc'[t]]
    BY DEF WakeupAll
  <2>2. QED
    BY <1>2, <2>1
<1>4. QED
  BY <1>1, <1>3, SMT DEF Sleeping

LEMMA SdIrqStep ==
  ASSUME BInv, SdIrq
  PROVE  BInv'
<1> DEFINE b == Head(queue)
           t == owner[b]
<1>1. /\ queue # <<>> /\ b \in Range(queue) /\ b \in Buf /\ b \in Range(cache)
      /\ t \in Thread /\ Top(t) = b /\ pc[t] \in Sleeping /\ b \in Range(held[t])
      /\ ~Finished(b) /\ card.block = block[b] /\ block[b] \in Block
      /\ Transfer(b)
      /\ queue' = Tail(queue)
      /\ card' = IF Tail(queue) = <<>> THEN NoCommand ELSE Command(Head(Tail(queue)), dirty)
      /\ WakeupAll(b)
      /\ UNCHANGED <<cache, block, ref, owner, held, panic>>
  BY SdIrqFacts
<1>2. PICK c \in Buf : c = b
  BY <1>1
<1>3. PICK u \in Thread : u = t
  BY <1>1
<1> HIDE DEF b, t
<1>4. /\ pc' \in [Thread -> Place]
      /\ \A v \in Thread : Top(v) # c \/ pc[v] \notin Sleeping => pc'[v] = pc[v]
      /\ \A v \in Thread : pc'[v] \in Sleeping <=> pc[v] \in Sleeping
      /\ \A v \in Thread : pc'[v] \in {"readsleep", "readwoken"} <=>
                           pc[v] \in {"readsleep", "readwoken"}
  BY <1>1, <1>2, WakeupFacts DEF BInv
<1>5. PlaceOK(pc[u], valid[c], dirty[c]) /\ (dirty[c] => valid[c])
  BY <1>1, <1>2, <1>3 DEF BInv, FlagsInv
<1>6. /\ valid' \in [Buf -> BOOLEAN] /\ dirty' \in [Buf -> BOOLEAN] /\ data' \in [Buf -> Data]
      /\ disk' \in [Block -> Data]
      /\ valid'[c] /\ ~dirty'[c] /\ data'[c] = disk'[block[c]]
      /\ \A a \in Buf : a # c => valid'[a] = valid[a] /\ dirty'[a] = dirty[a] /\ data'[a] = data[a]
      /\ \A k \in Block : k # block[c] => disk'[k] = disk[k]
  <2>1. /\ valid \in [Buf -> BOOLEAN] /\ dirty \in [Buf -> BOOLEAN] /\ data \in [Buf -> Data]
        /\ disk \in [Block -> Data]
    BY DEF BInv, TypeInv
  <2>2. PICK k \in Block : k = block[c]
    BY <1>1, <1>2
  <2>3. card.block = k /\ Transfer(c)
    BY <1>1, <1>2, <2>2
  <2>4. CASE dirty[c]
    <3>1. /\ disk' = [disk EXCEPT ![k] = data[c]] /\ dirty' = [dirty EXCEPT ![c] = FALSE]
          /\ data' = data /\ valid' = valid
      BY <2>3, <2>4 DEF Transfer
    <3>2. QED
      BY <1>5, <2>1, <2>2, <2>4, <3>1, SMT
  <2>5. CASE ~dirty[c]
    <3>1. /\ data' = [data EXCEPT ![c] = disk[k]] /\ valid' = [valid EXCEPT ![c] = TRUE]
          /\ disk' = disk /\ dirty' = dirty
      BY <2>3, <2>5 DEF Transfer
    <3>2. QED
      BY <2>1, <2>2, <2>5, <3>1, SMT
  <2>6. QED
    BY <2>4, <2>5
<1>7. \A v : Top(v)' = Top(v)
  BY <1>1, SameTop
<1>8. /\ queue' \in Seq(Buf) /\ IsInjective(queue')
      /\ Range(queue') = Range(queue) \ {c}
  BY <1>1, <1>2, HeadTailFacts DEF BInv, TypeInv, QueueAgrees, b
<1>9. queue' # <<>> => Head(queue') \in Range(queue') /\ Head(queue') \in Buf /\ Head(queue') # c
  BY <1>8, HeadTailFacts, RangeFacts
<1>10. queue' # <<>> => Command(Head(queue), dirty)' = Command(Head(queue'), dirty)
  BY <1>1, <1>6, <1>9 DEF Command
<1>11. /\ card' \in [block : Block \union {NoBlock}, write : BOOLEAN, irq : BOOLEAN]
       /\ IF queue' = <<>> THEN card' = NoCommand
          ELSE card' = [Command(Head(queue), dirty)' EXCEPT !.irq = card'.irq]
  <2>1. CASE queue' = <<>>
    BY <1>1, <2>1, SMT DEF NoCommand
  <2>2. CASE queue' # <<>>
    <3>1. card' = Command(Head(queue'), dirty)
      BY <1>1, <2>2
    <3>2. block[Head(queue')] \in Block \union {NoBlock} /\ dirty[Head(queue')] \in BOOLEAN
      BY <1>9, <2>2 DEF BInv, TypeInv
    <3>3. card' \in Commands
      BY <3>1, <3>2, CommandFacts
    <3>4. card' = [Command(Head(queue'), dirty) EXCEPT !.irq = card'.irq]
      BY <3>1, CommandFacts DEF Command
    <3>5. QED
      BY <1>10, <2>2, <3>3, <3>4 DEF Commands
  <2>3. QED
    BY <2>1, <2>2
<1>12. TypeInv'
  BY <1>1, <1>4, <1>6, <1>8, <1>11 DEF BInv, TypeInv
<1>13. ThreadsInv' /\ OwnersInv'
  BY <1>1, <1>4, SameThreads, SameOwners DEF BInv, Sleeping
<1>14. FlagsInv'
  <2>1. ASSUME NEW a \in Buf, dirty'[a] PROVE valid'[a] /\ owner'[a] # NoThread
    BY <1>1, <1>6, <2>1 DEF BInv, FlagsInv
  <2>2. ASSUME NEW v \in Thread, NEW a \in Range(held[v])
        PROVE  IF a = Top(v) THEN PlaceOK(pc'[v], valid'[a], dirty'[a]) ELSE valid'[a]
    <3>1. IF a = Top(v) THEN PlaceOK(pc[v], valid[a], dirty[a]) ELSE valid[a]
      BY DEF BInv, FlagsInv
    <3>2. a \in Buf
      BY HeldCached DEF BInv
    <3>3. CASE a # c
      BY <1>4, <1>6, <3>1, <3>2, <3>3
    <3>4. CASE a = c /\ v = u
      BY <1>1, <1>2, <1>3, <1>4, <1>6, <3>4 DEF PlaceOK, Sleeping
    <3>5. CASE a = c /\ v # u
      <4>1. a = Top(v) /\ pc[v] \in {"lock", "put"}
        BY <1>2, <1>3, <3>5, OthersWait DEF BInv, t
      <4>2. pc'[v] = pc[v]
        BY <1>4, <4>1 DEF Sleeping
      <4>3. QED
        BY <4>1, <4>2 DEF PlaceOK
    <3>6. QED
      BY <3>3, <3>4, <3>5
  <2>3. QED
    BY <1>1, <1>7, <2>1, <2>2 DEF FlagsInv
<1>15. CacheInv'
  BY <1>1, SameCache DEF BInv
<1>16. DiskInv'
  <2>1. ASSUME NEW a \in Range(cache), valid'[a], ~dirty'[a] PROVE data'[a] = disk'[block[a]]
    <3>1. a \in Buf /\ block[a] \in Block /\ (block[a] = block[c] => a = c)
      BY <1>1, <1>2, RangeFacts DEF BInv, TypeInv, CacheInv
    <3>2. QED
      BY <1>6, <2>1, <3>1 DEF BInv, DiskInv
  <2>2. QED
    BY <1>1, <2>1 DEF DiskInv
<1>17. ASSUME NEW a \in Buf
       PROVE  a \in Range(queue') <=>
                \E v \in Thread :
                  Top(v)' = a /\ owner'[a] = v /\ ~Finished(a)' /\ pc'[v] \in Sleeping
  <2>1. a \in Range(queue) <=>
          \E v \in Thread : Top(v) = a /\ owner[a] = v /\ ~Finished(a) /\ pc[v] \in Sleeping
    BY DEF BInv, QueueAgrees, Sleeping
  <2>2. CASE a = c
    BY <1>6, <1>8, <2>2 DEF Finished
  <2>3. CASE a # c
    <3>1. Finished(a)' <=> Finished(a)
      BY <1>6, <2>3 DEF Finished
    <3>2. QED
      BY <1>1, <1>4, <1>7, <1>8, <2>1, <2>3, <3>1
  <2>4. QED
    BY <2>2, <2>3
<1>18. QueueAgrees'
  BY <1>1, <1>8, <1>11, <1>17 DEF BInv, QueueAgrees, Sleeping, NoCommand
<1>19. QED
  BY <1>12, <1>13, <1>14, <1>15, <1>16, <1>18 DEF BInv

-----------------------------------------------------------------------------
(* The end of a sleep, and the use of a buffer.                             *)

\* A thread goes on and the queue does not notice.
LEMMA QuietMove ==
  ASSUME BInv, NEW t \in Thread, pc[t] \notin {"out", "lock", "put"},
         NEW w \in Place \ {"out", "lock", "put"}, pc' = [pc EXCEPT ![t] = w],
         UNCHANGED <<bufVars, held, queue, card, disk, panic>>,
         PlaceOK(w, valid[Top(t)], dirty[Top(t)]),
         Finished(Top(t)) \/ (w \in Sleeping <=> pc[t] \in Sleeping)
  PROVE  BInv'
<1>1. /\ pc' \in [Thread -> Place]
      /\ ThreadsInv' /\ OwnersInv' /\ FlagsInv' /\ CacheInv' /\ DiskInv'
  BY MoveOn
<1>2. TypeInv'
  BY <1>1 DEF BInv, TypeInv, bufVars
<1>3. pc'[t] = w /\ \A u \in Thread : u # t => pc'[u] = pc[u]
  BY SMT DEF BInv, TypeInv
<1>4. \A b : Finished(b)' <=> Finished(b)
  BY DEF Finished, bufVars
<1>5. QueueAgrees'
  BY <1>3, <1>4, SameQueue DEF bufVars
<1>6. QED
  BY <1>1, <1>2, <1>5 DEF BInv

LEMMA InterruptStep ==
  ASSUME BInv, NEW t \in Thread, Interrupt(t)
  PROVE  BInv'
<1>1. PICK w \in {"readwoken", "writewoken"} :
        /\ pc[t] = IF w = "readwoken" THEN "readsleep" ELSE "writesleep"
        /\ pc' = [pc EXCEPT ![t] = w]
        /\ UNCHANGED <<bufVars, held, queue, card, disk, panic>>
  BY DEF Interrupt, At, Go
<1>2. pc[t] \in Sleeping /\ w \in Sleeping /\ w \in Place \ {"out", "lock", "put"}
  BY <1>1 DEF Sleeping, Place
<1>3. pc[t] \notin {"out", "lock", "put"}
  BY <1>1
<1>4. PlaceOK(pc[t], valid[Top(t)], dirty[Top(t)])
  BY <1>3, TopOwned
<1>5. PlaceOK(w, valid[Top(t)], dirty[Top(t)])
  BY <1>1, <1>4 DEF PlaceOK
<1>6. QED
  BY <1>1, <1>2, <1>3, <1>5, QuietMove

LEMMA ContinueStep ==
  ASSUME BInv, NEW t \in Thread, Continue(t)
  PROVE  BInv'
<1>1. pc[t] \in {"readwoken", "writewoken"}
      /\ UNCHANGED <<bufVars, held, queue, card, disk>>
  BY DEF Continue, At
<1>2. pc[t] \notin {"out", "lock", "put"} /\ pc[t] \in Sleeping
  BY <1>1 DEF Sleeping
<1>3. PlaceOK(pc[t], valid[Top(t)], dirty[Top(t)])
  BY <1>2, TopOwned
<1>4. panic = "none"
  BY DEF BInv, QueueAgrees
<1>5. CASE Finished(Top(t))
  <2>1. valid[Top(t)] /\ ~dirty[Top(t)]
    BY <1>5 DEF Finished
  <2>2. PICK w \in {"use", "unlock"} : pc' = [pc EXCEPT ![t] = w] /\ UNCHANGED panic
    BY <1>1, <1>4, <1>5, <2>1 DEF Continue, At, Go, Awake
  <2>3. w \in Place \ {"out", "lock", "put"}
    BY <2>2 DEF Place
  <2>4. PlaceOK(w, valid[Top(t)], dirty[Top(t)])
    BY <2>1, <2>2 DEF PlaceOK
  <2>5. QED
    BY <1>1, <1>2, <1>5, <2>2, <2>3, <2>4, QuietMove
<1>6. CASE ~Finished(Top(t))
  <2>1. PICK w \in {"readsleep", "writesleep"} :
          /\ pc[t] = IF w = "readsleep" THEN "readwoken" ELSE "writewoken"
          /\ pc' = [pc EXCEPT ![t] = w] /\ UNCHANGED panic
    BY <1>1, <1>6 DEF Continue, At, Go, Awake
  <2>2. w \in Place \ {"out", "lock", "put"} /\ w \in Sleeping
    BY <2>1 DEF Place, Sleeping
  <2>3. PlaceOK(w, valid[Top(t)], dirty[Top(t)])
    BY <1>3, <2>1 DEF PlaceOK
  <2>4. QED
    BY <1>1, <1>2, <2>1, <2>2, <2>3, QuietMove
<1>7. QED
  BY <1>5, <1>6

LEMMA ReleaseStep ==
  ASSUME BInv, NEW t \in Thread, Release(t)
  PROVE  BInv'
<1>1. PICK w \in {"write", "unlock"} :
        /\ pc[t] = "use" /\ w = IF dirty[Top(t)] THEN "write" ELSE "unlock"
        /\ pc' = [pc EXCEPT ![t] = w]
        /\ UNCHANGED <<bufVars, held, queue, card, disk, panic>>
  BY DEF Release, At, Go
<1>2. w \in Place \ {"out", "lock", "put"} /\ w \notin Sleeping /\ pc[t] \notin Sleeping
  BY <1>1 DEF Place, Sleeping
<1>3. PlaceOK(pc[t], valid[Top(t)], dirty[Top(t)])
  BY <1>1, TopOwned
<1>4. PlaceOK(w, valid[Top(t)], dirty[Top(t)])
  BY <1>1, <1>3 DEF PlaceOK
<1>5. QED
  BY <1>1, <1>2, <1>4, QuietMove

LEMMA ModifyStep ==
  ASSUME BInv, NEW t \in Thread, NEW v \in Value, Modify(t, v)
  PROVE  BInv'
<1> DEFINE b == Top(t)
<1>1. /\ pc[t] = "use" /\ data' = [data EXCEPT ![b] = v] /\ dirty' = [dirty EXCEPT ![b] = TRUE]
      /\ UNCHANGED <<cache, block, ref, valid, owner, pc, held, queue, card, disk, panic>>
  BY DEF Modify, At
<1>2. b \in Buf /\ b \in Range(held[t]) /\ owner[b] = t /\ valid[b]
  BY <1>1, TopOwned DEF PlaceOK
<1> HIDE DEF b
<1>3. /\ data' \in [Buf -> Data] /\ dirty' \in [Buf -> BOOLEAN]
      /\ dirty'[b] /\ data'[b] = v
      /\ \A a \in Buf : a # b => dirty'[a] = dirty[a] /\ data'[a] = data[a]
  BY <1>1, <1>2, SMT DEF BInv, TypeInv, Data
<1>4. TypeInv'
  BY <1>1, <1>3 DEF BInv, TypeInv
<1>5. \A u : Top(u)' = Top(u)
  BY <1>1, SameTop
<1>6. ThreadsInv' /\ OwnersInv' /\ CacheInv'
  BY <1>1, SameThreads, SameOwners, SameCache DEF BInv
<1>7. FlagsInv'
  <2>1. ASSUME NEW a \in Buf, dirty'[a] PROVE valid'[a] /\ owner'[a] # NoThread
    BY <1>1, <1>2, <1>3, <2>1, BuffersAssumption DEF BInv, FlagsInv
  <2>2. ASSUME NEW u \in Thread, NEW a \in Range(held[u])
        PROVE  IF a = Top(u) THEN PlaceOK(pc[u], valid[a], dirty'[a]) ELSE valid[a]
    <3>1. IF a = Top(u) THEN PlaceOK(pc[u], valid[a], dirty[a]) ELSE valid[a]
      BY DEF BInv, FlagsInv
    <3>2. a \in Buf
      BY HeldCached DEF BInv
    <3>3. CASE a # b
      BY <1>3, <3>1, <3>2, <3>3
    <3>4. CASE a = b /\ u = t
      BY <1>1, <1>2, <3>4 DEF PlaceOK
    <3>5. CASE a = b /\ u # t
      BY <1>2, <3>5, OthersWait DEF BInv, PlaceOK
    <3>6. QED
      BY <3>3, <3>4, <3>5
  <2>3. QED
    BY <1>1, <1>5, <2>1, <2>2 DEF FlagsInv
<1>8. DiskInv'
  <2>1. Range(cache) \subseteq Buf
    BY RangeFacts DEF BInv, TypeInv
  <2>2. QED
    BY <1>1, <1>3, <2>1 DEF BInv, DiskInv
<1>9. QueueAgrees'
  <2>1. b \notin Range(queue)
    BY <1>1, <1>2, NotQueued DEF Sleeping
  <2>2. \A a \in Range(queue) : dirty'[a] = dirty[a]
    BY <1>3, <2>1, RangeFacts DEF BInv, TypeInv
  <2>3. ASSUME NEW a \in Buf, NEW u \in Thread, Top(u) = a
        PROVE  (owner'[a] = u /\ ~Finished(a)' /\ pc'[u] \in Sleeping) <=>
               (owner[a] = u /\ ~Finished(a) /\ pc[u] \in Sleeping)
    <3>1. CASE a # b
      BY <1>1, <1>3, <3>1 DEF Finished
    <3>2. CASE a = b
      BY <1>1, <1>2, <3>2 DEF Sleeping
    <3>3. QED
      BY <3>1, <3>2
  <2>4. QED
    BY <1>1, <2>2, <2>3, SameQueue
<1>10. QED
  BY <1>4, <1>6, <1>7, <1>8, <1>9 DEF BInv

LEMMA UnlockStep ==
  ASSUME BInv, NEW t \in Thread, Unlock(t)
  PROVE  BInv'
<1> DEFINE b == Top(t)
<1>1. /\ pc[t] = "unlock"
      /\ owner' = [owner EXCEPT ![b] = NoThread] /\ pc' = [pc EXCEPT ![t] = "put"]
      /\ UNCHANGED <<cache, block, ref, valid, dirty, data, held, queue, card, disk, panic>>
  BY DEF Unlock, At, Go
<1>2. b \in Buf /\ b \in Range(held[t]) /\ owner[b] = t /\ valid[b] /\ ~dirty[b]
  BY <1>1, TopOwned DEF PlaceOK
<1>3. b = Top(t)
  OBVIOUS
<1> HIDE DEF b
<1>4. /\ pc' \in [Thread -> Place] /\ owner' \in [Buf -> Thread \union {NoThread}]
      /\ pc'[t] = "put" /\ \A u \in Thread : u # t => pc'[u] = pc[u]
      /\ owner'[b] = NoThread /\ \A a \in Buf : a # b => owner'[a] = owner[a]
  BY <1>1, <1>2, SMT DEF BInv, TypeInv, Place
<1>5. \A u : Top(u)' = Top(u)
  BY <1>1, SameTop
<1>6. TypeInv'
  BY <1>1, <1>4 DEF BInv, TypeInv
<1>7. ThreadsInv'
  BY <1>1, <1>4, SameThreads DEF BInv
<1>8. OwnersInv'
  <2>1. ASSUME NEW a \in Buf, NEW u \in Thread PROVE owner'[a] = u <=> Owns(u, a)'
    <3>1. owner[a] = u <=> Owns(u, a)
      BY DEF BInv, OwnersInv
    <3>2. CASE a = b /\ u = t
      <4>1. ~Owns(u, a)'
        BY <1>3, <1>4, <1>5, <3>2 DEF Owns
      <4>2. QED
        BY <1>4, <3>2, <4>1, BuffersAssumption
    <3>3. CASE u # t
      <4>1. Owns(u, a)' <=> Owns(u, a)
        BY <1>1, <1>4, <1>5, <3>3 DEF Owns
      <4>2. CASE a = b
        BY <1>2, <1>4, <3>1, <3>3, <4>1, <4>2, BuffersAssumption
      <4>3. QED
        BY <1>4, <3>1, <4>1, <4>2
    <3>4. CASE u = t /\ a # b
      <4>1. Owns(u, a)' <=> Owns(u, a)
        BY <1>1, <1>3, <1>5, <3>4 DEF Owns
      <4>2. QED
        BY <1>4, <3>1, <3>4, <4>1
    <3>5. QED
      BY <3>2, <3>3, <3>4
  <2>2. QED
    BY <2>1 DEF OwnersInv
<1>9. FlagsInv'
  <2>1. ASSUME NEW a \in Buf, dirty[a] PROVE valid[a] /\ owner'[a] # NoThread
    BY <1>2, <1>4, <2>1 DEF BInv, FlagsInv
  <2>2. ASSUME NEW u \in Thread, NEW a \in Range(held[u])
        PROVE  IF a = Top(u) THEN PlaceOK(pc'[u], valid[a], dirty[a]) ELSE valid[a]
    <3>1. IF a = Top(u) THEN PlaceOK(pc[u], valid[a], dirty[a]) ELSE valid[a]
      BY DEF BInv, FlagsInv
    <3>2. CASE u = t
      BY <1>4, <3>1, <3>2 DEF PlaceOK
    <3>3. CASE u # t
      BY <1>4, <3>1, <3>3
    <3>4. QED
      BY <3>2, <3>3
  <2>3. QED
    BY <1>1, <1>5, <2>1, <2>2 DEF FlagsInv
<1>10. CacheInv' /\ DiskInv'
  BY <1>1, SameCache DEF BInv, DiskInv
<1>11. QueueAgrees'
  <2>1. ASSUME NEW a \in Buf, NEW u \in Thread, Top(u) = a
        PROVE  (owner'[a] = u /\ ~Finished(a)' /\ pc'[u] \in Sleeping) <=>
               (owner[a] = u /\ ~Finished(a) /\ pc[u] \in Sleeping)
    <3>1. Finished(a)' <=> Finished(a)
      BY <1>1 DEF Finished
    <3>2. pc[t] \notin Sleeping /\ pc'[t] \notin Sleeping
      BY <1>1, <1>4 DEF Sleeping
    <3>3. CASE u = t
      BY <3>2, <3>3
    <3>4. CASE u # t /\ a # b
      BY <1>4, <3>1, <3>4
    <3>5. CASE u # t /\ a = b
      BY <1>2, <1>4, <3>5, BuffersAssumption
    <3>6. QED
      BY <3>3, <3>4, <3>5
  <2>2. QED
    BY <1>1, <2>1, SameQueue
<1>12. QED
  BY <1>6, <1>7, <1>8, <1>9, <1>10, <1>11 DEF BInv

-----------------------------------------------------------------------------
(* buf_get()                                                                *)

LEMMA PrependFacts ==
  ASSUME NEW E, NEW s \in Seq(E), NEW e \in E
  PROVE  /\ <<e>> \o s \in Seq(E)
         /\ Range(<<e>> \o s) = Range(s) \union {e}
         /\ IsInjective(s) /\ e \notin Range(s) => IsInjective(<<e>> \o s)
<1> DEFINE r == <<e>> \o s
<1>1. /\ r \in Seq(E) /\ Len(s) \in Nat /\ Len(r) = Len(s) + 1 /\ r[1] = e
      /\ \A i \in 1 .. Len(s) : r[i + 1] = s[i]
      /\ DOMAIN r = 1 .. Len(s) + 1 /\ DOMAIN s = 1 .. Len(s)
  BY SMT
<1> HIDE DEF r
<1>2. \A i \in DOMAIN r : i = 1 \/ (i - 1 \in DOMAIN s /\ r[i] = s[i - 1])
  BY <1>1, SMT
<1>3. \A i \in DOMAIN s : i + 1 \in DOMAIN r /\ r[i + 1] = s[i]
  BY <1>1, SMT
<1>4. 1 \in DOMAIN r
  BY <1>1, SMT
<1>5. Range(r) = Range(s) \union {e}
  <2>1. ASSUME NEW x \in Range(r) PROVE x \in Range(s) \union {e}
    <3>1. PICK i \in DOMAIN r : x = r[i]
      BY DEF Range
    <3>2. CASE i = 1
      BY <1>1, <3>1, <3>2
    <3>3. CASE i # 1
      <4>1. i - 1 \in DOMAIN s /\ x = s[i - 1]
        BY <1>2, <3>1, <3>3
      <4>2. QED
        BY <4>1 DEF Range
    <3>4. QED
      BY <3>2, <3>3
  <2>2. ASSUME NEW x \in Range(s) PROVE x \in Range(r)
    BY <1>3 DEF Range
  <2>3. e \in Range(r)
    BY <1>1, <1>4 DEF Range
  <2>4. QED
    BY <2>1, <2>2, <2>3
<1>6. ASSUME IsInjective(s), e \notin Range(s), NEW i \in DOMAIN r, NEW j \in DOMAIN r, r[i] = r[j]
      PROVE  i = j
  <2>1. \A n \in DOMAIN s : s[n] # e
    BY <1>6 DEF Range
  <2>2. CASE i = 1 \/ j = 1
    BY <1>1, <1>2, <1>6, <2>1, <2>2
  <2>3. CASE i # 1 /\ j # 1
    <3>1. i - 1 \in DOMAIN s /\ j - 1 \in DOMAIN s /\ s[i - 1] = s[j - 1]
      BY <1>2, <1>6, <2>3
    <3>2. i - 1 = j - 1
      BY <1>6, <3>1 DEF IsInjective
    <3>3. QED
      BY <1>1, <3>2, SMT
  <2>4. QED
    BY <2>2, <2>3
<1>7. IsInjective(s) /\ e \notin Range(s) => IsInjective(r)
  BY <1>6 DEF IsInjective
<1>8. QED
  BY <1>1, <1>5, <1>7 DEF r

\* The largest of the places in a list.
LEMMA LastPlace ==
  ASSUME NEW n \in Nat, NEW T \in SUBSET (1 .. n), T # {}
  PROVE  \E i \in T : \A j \in T : j <= i
<1> DEFINE B == {m \in Nat : \A j \in T : j <= m}
<1>1. n \in B
  BY SMT
<1>2. PICK m \in B : \A x \in B : m <= x
  BY <1>1, NatMin
<1>3. m \in Nat /\ \A j \in T : j <= m
  OBVIOUS
<1>4. SUFFICES ASSUME m \notin T PROVE FALSE
  BY <1>3
<1>5. PICK j \in T : TRUE
  OBVIOUS
<1>6. m - 1 \in B
  BY <1>3, <1>4, <1>5, SMT
<1>7. QED
  BY <1>2, <1>3, <1>6, SMT

\* The buffer for another block is one nobody refers to.
LEMMA FreshFacts ==
  ASSUME TypeInv, Fresh # NoBuf
  PROVE  Fresh \in Buf /\ (Fresh \notin Range(cache) \/ ref[Fresh] = 0)
<1>1. Range(cache) \subseteq Buf
  BY RangeFacts DEF TypeInv
<1>2. CASE Buf # Range(cache)
  <2>1. \E b \in Buf : b \notin Range(cache)
    BY <1>1, <1>2
  <2>2. Fresh = CHOOSE b \in Buf : b \notin Range(cache)
    BY <1>2 DEF Fresh
  <2>3. QED
    BY <2>1, <2>2
<1>3. CASE Buf = Range(cache)
  <2>1. Unused # {} /\ Fresh = cache[CHOOSE i \in Unused : \A j \in Unused : j <= i]
    BY <1>3 DEF Fresh
  <2>2. Len(cache) \in Nat /\ DOMAIN cache = 1 .. Len(cache)
    BY SMT DEF TypeInv
  <2>3. Unused \in SUBSET (1 .. Len(cache))
    BY <2>2 DEF Unused
  <2>4. \E i \in Unused : \A j \in Unused : j <= i
    BY <2>1, <2>2, <2>3, LastPlace
  <2>5. PICK i \in Unused : Fresh = cache[i]
    BY <2>1, <2>4
  <2>6. i \in DOMAIN cache /\ ref[cache[i]] = 0
    BY DEF Unused
  <2>7. cache[i] \in Range(cache)
    BY <2>6 DEF Range
  <2>8. QED
    BY <1>1, <2>5, <2>6, <2>7
<1>4. QED
  BY <1>2, <1>3

\* The threads that refer to a buffer are finitely many.
LEMMA UsersFinite ==
  ASSUME NEW b
  PROVE  /\ IsFiniteSet(Users(b)) /\ Cardinality(Users(b)) \in Nat
         /\ Cardinality(Users(b)) = 0 <=> Users(b) = {}
<1>1. Users(b) \in SUBSET Thread
  BY DEF Users
<1>2. IsFiniteSet(Users(b))
  BY <1>1, FS_Subset, BuffersAssumption
<1>3. QED
  BY <1>2, FS_CardinalityType, FS_EmptySet

\* Nobody has locked a buffer nobody refers to.
LEMMA NoUsers ==
  ASSUME TypeInv, CacheInv, OwnersInv, NEW b \in Buf, b \notin Range(cache) \/ ref[b] = 0
  PROVE  owner[b] = NoThread /\ \A t \in Thread : b \notin Range(held[t])
<1>1. \A t \in Thread : b \notin Range(held[t])
  <2>1. CASE b \notin Range(cache)
    BY <2>1 DEF CacheInv
  <2>2. CASE b \in Range(cache)
    <3>1. Users(b) = {}
      BY <2>2, UsersFinite DEF CacheInv
    <3>2. QED
      BY <3>1 DEF Users
  <2>3. QED
    BY <2>1, <2>2
<1>2. owner[b] \in Thread \union {NoThread}
  BY DEF TypeInv
<1>3. QED
  BY <1>1, <1>2 DEF OwnersInv, Owns

\* The blocks a thread refers to come before the one it asks for.
LEMMA Ascending ==
  ASSUME BInv, NEW t \in Thread, NEW k \in Block,
         pc[t] = "out" \/ (pc[t] = "use" /\ block[Top(t)] < k)
  PROVE  \A a \in Range(held[t]) : block[a] < k
<1>1. CASE pc[t] = "out"
  <2>1. held[t] = <<>>
    BY <1>1 DEF BInv, ThreadsInv
  <2>2. Range(held[t]) = {}
    BY <2>1, SMT DEF Range
  <2>3. QED
    BY <2>2
<1>2. CASE pc[t] = "use" /\ block[Top(t)] < k
  <2>1. /\ held[t] \in Seq(Buf) /\ held[t] # <<>> /\ Top(t) = held[t][Len(held[t])]
        /\ Top(t) \in Range(held[t])
    BY <1>2, TopHeld DEF BInv
  <2>2. SUFFICES ASSUME NEW a \in Range(held[t]) PROVE block[a] < k
    OBVIOUS
  <2>3. block[a] \in Nat /\ block[Top(t)] \in Nat /\ k \in Nat
    BY <2>1, HeldCached, BuffersAssumption DEF BInv
  <2>4. PICK i \in 1 .. Len(held[t]) : a = held[t][i]
    BY <2>1, RangeFacts
  <2>5. /\ Len(held[t]) \in Nat /\ Len(held[t]) \in DOMAIN held[t] /\ i \in DOMAIN held[t]
        /\ i = Len(held[t]) \/ i < Len(held[t])
    BY <2>1, <2>4, SMT
  <2>6. i < Len(held[t]) => block[a] < block[Top(t)]
    BY <2>1, <2>4, <2>5 DEF BInv, ThreadsInv
  <2>7. QED
    BY <1>2, <2>1, <2>3, <2>4, <2>5, <2>6, SMT
<1>3. QED
  BY <1>1, <1>2

\* What a thread gets: the buffer with the block, or one nobody refers to.
Found(b, k) == b \in Range(cache) /\ block[b] = k /\ UNCHANGED <<valid, dirty>>

Reused(b) ==
  /\ owner[b] = NoThread /\ \A u \in Thread : b \notin Range(held[u])
  /\ valid' = [valid EXCEPT ![b] = FALSE] /\ dirty' = [dirty EXCEPT ![b] = FALSE]

Cached(b, k) ==
  /\ b \in Buf
  /\ block' = [block EXCEPT ![b] = k]
  /\ ref' = [ref EXCEPT ![b] = Cardinality(Users(b)) + 1]
  /\ cache' \in Seq(Buf) /\ IsInjective(cache') /\ Range(cache') = Range(cache) \union {b}
  /\ \A a \in Range(cache) : block[a] = k => a = b
  /\ Found(b, k) \/ Reused(b)

Gets(t, k, b) ==
  /\ pc[t] \in {"out", "use"} /\ \A a \in Range(held[t]) : block[a] < k
  /\ held' = [held EXCEPT ![t] = Append(@, b)] /\ pc' = [pc EXCEPT ![t] = "lock"]
  /\ UNCHANGED <<data, owner, queue, card, disk, panic>>
  /\ Cached(b, k)

LEMMA GetFacts ==
  ASSUME BInv, NEW t \in Thread, NEW k \in Block, Get(t, k)
  PROVE  \E b \in Buf : Gets(t, k, b)
<1>1. pc[t] = "out" \/ (pc[t] = "use" /\ block[Top(t)] < k)
  BY DEF Get, At
<1>2. \A a \in Range(held[t]) : block[a] < k
  BY <1>1, Ascending
<1>3. Range(cache) \subseteq Buf
  BY RangeFacts DEF BInv, TypeInv
<1>4. pc' = [pc EXCEPT ![t] = "lock"] /\ UNCHANGED <<data, owner, queue, card, disk, panic>>
  BY DEF Get, Go
<1>5. ASSUME NEW b \in Hits(k), ref' = [ref EXCEPT ![b] = @ + 1],
             UNCHANGED <<cache, block, valid, dirty>>
      PROVE  Cached(b, k)
  <2>1. b \in Range(cache) /\ block[b] = k /\ b \in Buf
    BY <1>3 DEF Hits
  <2>2. ref[b] = Cardinality(Users(b))
    BY <2>1 DEF BInv, CacheInv
  <2>3. block' = [block EXCEPT ![b] = k]
    BY <1>5, <2>1, SMT DEF BInv, TypeInv
  <2>4. ref' = [ref EXCEPT ![b] = Cardinality(Users(b)) + 1]
    BY <1>5, <2>2
  <2>5. cache' \in Seq(Buf) /\ IsInjective(cache') /\ Range(cache') = Range(cache) \union {b}
    <3>1. cache \in Seq(Buf) /\ IsInjective(cache)
      BY DEF BInv, TypeInv, CacheInv
    <3>2. Range(cache) = Range(cache) \union {b}
      BY <2>1
    <3>3. QED
      BY <1>5, <3>1, <3>2
  <2>6. \A a \in Range(cache) : block[a] = k => a = b
    BY <2>1 DEF BInv, CacheInv
  <2>7. QED
    BY <1>5, <2>1, <2>3, <2>4, <2>5, <2>6 DEF Cached, Found
<1>6. ASSUME NEW b, b = Fresh, b # NoBuf, Hits(k) = {}, Renamed(b, k),
             cache' = IF b \in Range(cache) THEN cache ELSE <<b>> \o cache
      PROVE  Cached(b, k)
  <2>1. b \in Buf /\ (b \notin Range(cache) \/ ref[b] = 0)
    BY <1>6, FreshFacts DEF BInv
  <2>2. owner[b] = NoThread /\ \A u \in Thread : b \notin Range(held[u])
    BY <2>1, NoUsers DEF BInv
  <2>3. Cardinality(Users(b)) = 0
    <3>1. Users(b) = {}
      BY <2>2 DEF Users
    <3>2. QED
      BY <3>1, FS_EmptySet
  <2>4. ref' = [ref EXCEPT ![b] = Cardinality(Users(b)) + 1]
    BY <1>6, <2>3, SMT DEF Renamed
  <2>5. cache' \in Seq(Buf) /\ IsInjective(cache') /\ Range(cache') = Range(cache) \union {b}
    <3>1. cache \in Seq(Buf) /\ IsInjective(cache)
      BY DEF BInv, TypeInv, CacheInv
    <3>2. CASE b \in Range(cache)
      BY <1>6, <3>1, <3>2
    <3>3. CASE b \notin Range(cache)
      <4>1. cache' = <<b>> \o cache
        BY <1>6, <3>3
      <4>2. QED
        BY <2>1, <3>1, <3>3, <4>1, PrependFacts
    <3>4. QED
      BY <3>2, <3>3
  <2>6. \A a \in Range(cache) : block[a] # k
    BY <1>6 DEF Hits
  <2>7. QED
    BY <1>6, <2>1, <2>2, <2>4, <2>5, <2>6 DEF Renamed, Cached, Reused
<1>7. CASE \E b \in Hits(k) :
             /\ held' = [held EXCEPT ![t] = Append(@, b)]
             /\ ref' = [ref EXCEPT ![b] = @ + 1]
             /\ UNCHANGED <<cache, block, valid, dirty>>
  <2>1. PICK b \in Hits(k) :
             /\ held' = [held EXCEPT ![t] = Append(@, b)]
             /\ ref' = [ref EXCEPT ![b] = @ + 1]
             /\ UNCHANGED <<cache, block, valid, dirty>>
    BY <1>7
  <2>2. Cached(b, k)
    BY <1>5, <2>1
  <2>3. b \in Buf
    BY <2>2 DEF Cached
  <2>4. QED
    BY <1>1, <1>2, <1>4, <2>1, <2>2, <2>3 DEF Gets
<1>8. CASE /\ Hits(k) = {} /\ Fresh # NoBuf
           /\ held' = [held EXCEPT ![t] = Append(@, Fresh)]
           /\ Renamed(Fresh, k)
           /\ cache' = IF Fresh \in Range(cache) THEN cache ELSE <<Fresh>> \o cache
  <2>1. PICK b : b = Fresh
    OBVIOUS
  <2>2. /\ held' = [held EXCEPT ![t] = Append(@, b)] /\ b # NoBuf /\ Hits(k) = {}
        /\ Renamed(b, k) /\ cache' = IF b \in Range(cache) THEN cache ELSE <<b>> \o cache
    BY <1>8, <2>1
  <2>3. Cached(b, k)
    BY <1>6, <2>1, <2>2
  <2>4. b \in Buf
    BY <2>3 DEF Cached
  <2>5. QED
    BY <1>1, <1>2, <1>4, <2>2, <2>3, <2>4 DEF Gets
<1>9. QED
  BY <1>7, <1>8 DEF Get

LEMMA GetStep ==
  ASSUME BInv, NEW t \in Thread, NEW k \in Block, Get(t, k)
  PROVE  BInv'
<1>1. PICK b \in Buf : Gets(t, k, b)
  BY GetFacts
<1>2. /\ pc[t] \in {"out", "use"} /\ \A a \in Range(held[t]) : block[a] < k
      /\ UNCHANGED <<data, owner, queue, card, disk, panic>>
      /\ cache' \in Seq(Buf) /\ IsInjective(cache') /\ Range(cache') = Range(cache) \union {b}
      /\ \A a \in Range(cache) : block[a] = k => a = b
  BY <1>1 DEF Gets, Cached
<1>3. /\ held[t] \in Seq(Buf) /\ Range(cache) \subseteq Buf /\ Cardinality(Users(b)) \in Nat
      /\ Append(held[t], b) \in Seq(Buf)
      /\ Range(Append(held[t], b)) = Range(held[t]) \union {b}
  <2>1. held[t] \in Seq(Buf)
    BY DEF BInv, TypeInv
  <2>2. /\ Append(held[t], b) \in Seq(Buf)
        /\ Range(Append(held[t], b)) = Range(held[t]) \union {b}
    BY <1>1, <2>1, AppendFacts, SMT
  <2>3. Range(cache) \subseteq Buf
    BY RangeFacts DEF BInv, TypeInv
  <2>4. QED
    BY <2>1, <2>2, <2>3, UsersFinite
<1>4. /\ held' \in [Thread -> Seq(Buf)] /\ held'[t] = Append(held[t], b)
      /\ \A u \in Thread : u # t => held'[u] = held[u]
      /\ pc' \in [Thread -> Place] /\ pc'[t] = "lock"
      /\ \A u \in Thread : u # t => pc'[u] = pc[u]
  <2>1. held' = [held EXCEPT ![t] = Append(held[t], b)] /\ pc' = [pc EXCEPT ![t] = "lock"]
    BY <1>1 DEF Gets
  <2>2. held \in [Thread -> Seq(Buf)] /\ pc \in [Thread -> Place] /\ "lock" \in Place
    BY DEF BInv, TypeInv, Place
  <2>3. QED
    BY <1>3, <2>1, <2>2, SMT
<1>5. /\ block' \in [Buf -> Block \union {NoBlock}] /\ block'[b] = k
      /\ ref' \in [Buf -> Nat] /\ ref'[b] = Cardinality(Users(b)) + 1
      /\ \A a \in Buf : a # b => block'[a] = block[a] /\ ref'[a] = ref[a]
  <2>1. /\ block' = [block EXCEPT ![b] = k]
        /\ ref' = [ref EXCEPT ![b] = Cardinality(Users(b)) + 1]
    BY <1>1 DEF Gets, Cached
  <2>2. block \in [Buf -> Block \union {NoBlock}] /\ ref \in [Buf -> Nat]
    BY DEF BInv, TypeInv
  <2>3. QED
    BY <1>3, <2>1, <2>2, SMT
<1>6. /\ valid' \in [Buf -> BOOLEAN] /\ dirty' \in [Buf -> BOOLEAN]
      /\ \A a \in Buf : a # b => valid'[a] = valid[a] /\ dirty'[a] = dirty[a]
      /\ \/ /\ b \in Range(cache) /\ block[b] = k
            /\ valid'[b] = valid[b] /\ dirty'[b] = dirty[b]
         \/ /\ owner[b] = NoThread /\ \A u \in Thread : b \notin Range(held[u])
            /\ ~valid'[b] /\ ~dirty'[b]
  <2>1. valid \in [Buf -> BOOLEAN] /\ dirty \in [Buf -> BOOLEAN]
    BY DEF BInv, TypeInv
  <2>2. CASE Found(b, k)
    BY <2>1, <2>2 DEF Found
  <2>3. CASE Reused(b)
    <3>1. /\ valid' \in [Buf -> BOOLEAN] /\ dirty' \in [Buf -> BOOLEAN] /\ ~valid'[b] /\ ~dirty'[b]
          /\ \A a \in Buf : a # b => valid'[a] = valid[a] /\ dirty'[a] = dirty[a]
      <4>1. valid' = [valid EXCEPT ![b] = FALSE] /\ dirty' = [dirty EXCEPT ![b] = FALSE]
        BY <2>3 DEF Reused
      <4>2. QED
        BY <2>1, <4>1, SMT
    <3>2. QED
      BY <2>3, <3>1 DEF Reused
  <2>4. QED
    BY <1>1, <2>2, <2>3 DEF Gets, Cached
<1>7. TypeInv'
  BY <1>2, <1>4, <1>5, <1>6 DEF BInv, TypeInv
<1>8. Top(t)' = b /\ \A u \in Thread : u # t => Top(u)' = Top(u)
  <2>1. held'[t] # <<>> /\ held'[t][Len(held'[t])] = b
    BY <1>3, <1>4, SMT
  <2>2. QED
    BY <1>4, <2>1 DEF Top
<1>9. b \notin Range(held[t])
  <2>1. SUFFICES ASSUME b \in Range(held[t]) PROVE FALSE
    OBVIOUS
  <2>2. block[b] = k /\ block[b] < k
    BY <1>2, <1>6, <2>1
  <2>3. QED
    BY <2>2, BuffersAssumption, SMT
<1>10. pc[t] = "out" => Range(held[t]) = {}
  <2>1. Range(<<>>) = {}
    BY SMT DEF Range
  <2>2. QED
    BY <2>1 DEF BInv, ThreadsInv
<1>11. \A u \in Thread : \A a \in Range(held[u]) :
         a \in Buf /\ block'[a] = block[a] /\ valid'[a] = valid[a] /\ dirty'[a] = dirty[a]
  BY <1>5, <1>6, HeldCached DEF BInv
<1>12. ThreadsInv'
  <2>1. ASSUME NEW u \in Thread, u # t
        PROVE  /\ held'[u] = <<>> <=> pc'[u] = "out"
               /\ \A i, j \in DOMAIN held'[u] : i < j => block'[held'[u][i]] < block'[held'[u][j]]
    <3>1. \A i \in DOMAIN held[u] : held[u][i] \in Range(held[u])
      BY DEF Range
    <3>2. held'[u] = held[u] /\ pc'[u] = pc[u]
      BY <1>4, <2>1
    <3>3. ASSUME NEW i \in DOMAIN held[u], NEW j \in DOMAIN held[u], i < j
          PROVE  block'[held[u][i]] < block'[held[u][j]]
      <4>1. block[held[u][i]] < block[held[u][j]]
        BY <3>3 DEF BInv, ThreadsInv
      <4>2. block'[held[u][i]] = block[held[u][i]] /\ block'[held[u][j]] = block[held[u][j]]
        BY <1>11, <3>1
      <4>3. QED
        BY <4>1, <4>2
    <3>4. held[u] = <<>> <=> pc[u] = "out"
      BY DEF BInv, ThreadsInv
    <3>5. QED
      BY <3>2, <3>3, <3>4
  <2>2. ASSUME NEW i \in DOMAIN held'[t], NEW j \in DOMAIN held'[t], i < j
        PROVE  block'[held'[t][i]] < block'[held'[t][j]]
    <3>1. /\ i \in DOMAIN held[t] /\ held'[t][i] = held[t][i]
          /\ \/ held'[t][j] = b
             \/ j \in DOMAIN held[t] /\ held'[t][j] = held[t][j]
      BY <1>3, <1>4, <2>2, SMT
    <3>2. held[t][i] \in Range(held[t])
      BY <3>1 DEF Range
    <3>3. CASE held'[t][j] = b
      BY <1>2, <1>5, <1>11, <3>1, <3>2, <3>3
    <3>4. CASE j \in DOMAIN held[t] /\ held'[t][j] = held[t][j]
      <4>1. held[t][j] \in Range(held[t])
        BY <3>4 DEF Range
      <4>2. QED
        BY <1>11, <2>2, <3>1, <3>2, <3>4, <4>1 DEF BInv, ThreadsInv
    <3>5. QED
      BY <3>1, <3>3, <3>4
  <2>3. held'[t] # <<>> /\ pc'[t] # "out"
    BY <1>3, <1>4, SMT
  <2>4. QED
    BY <2>1, <2>2, <2>3 DEF ThreadsInv
<1>13. OwnersInv'
  <2>1. ASSUME NEW a \in Buf, NEW u \in Thread PROVE Owns(u, a)' <=> Owns(u, a)
    <3>1. CASE u # t
      BY <1>4, <1>8, <3>1 DEF Owns
    <3>2. CASE u = t
      <4>1. Owns(t, a) <=> a \in Range(held[t])
        BY <1>2 DEF Owns
      <4>2. Owns(t, a)' <=> a \in Range(held[t])
        BY <1>3, <1>4, <1>8, <1>9 DEF Owns
      <4>3. QED
        BY <3>2, <4>1, <4>2
    <3>3. QED
      BY <3>1, <3>2
  <2>2. QED
    BY <1>2, <2>1 DEF BInv, OwnersInv
<1>14. FlagsInv'
  <2>1. ASSUME NEW a \in Buf, dirty'[a] PROVE valid'[a] /\ owner'[a] # NoThread
    BY <1>2, <1>6, <2>1 DEF BInv, FlagsInv
  <2>2. ASSUME NEW u \in Thread, NEW a \in Range(held'[u])
        PROVE  IF a = Top(u)' THEN PlaceOK(pc'[u], valid'[a], dirty'[a]) ELSE valid'[a]
    <3>1. CASE u # t
      <4>1. held'[u] = held[u] /\ pc'[u] = pc[u] /\ Top(u)' = Top(u)
        BY <1>4, <1>8, <3>1
      <4>2. a \in Range(held[u])
        BY <4>1
      <4>3. IF a = Top(u) THEN PlaceOK(pc[u], valid[a], dirty[a]) ELSE valid[a]
        BY <4>2 DEF BInv, FlagsInv
      <4>4. valid'[a] = valid[a] /\ dirty'[a] = dirty[a]
        BY <1>11, <4>2
      <4>5. QED
        BY <4>1, <4>3, <4>4
    <3>2. CASE u = t /\ a = b
      BY <1>4, <1>8, <3>2 DEF PlaceOK
    <3>3. CASE u = t /\ a # b
      <4>1. a \in Range(held[t])
        BY <1>3, <1>4, <3>3
      <4>2. pc[t] = "use"
        BY <1>2, <1>10, <4>1
      <4>3. valid[a]
        BY <4>1, <4>2 DEF BInv, FlagsInv, PlaceOK
      <4>4. QED
        BY <1>8, <1>11, <3>3, <4>1, <4>3
    <3>4. QED
      BY <3>1, <3>2, <3>3
  <2>3. QED
    BY <2>1, <2>2 DEF FlagsInv
<1>15. CacheInv'
  <2>1. ASSUME NEW a \in Range(cache'), NEW c \in Range(cache'), block'[a] = block'[c]
        PROVE  a = c
    <3>1. a \in Buf /\ c \in Buf
      BY <1>2, <1>3
    <3>2. CASE a # b /\ c # b
      <4>1. a \in Range(cache) /\ c \in Range(cache) /\ block[a] = block[c]
        BY <1>2, <1>5, <2>1, <3>1, <3>2
      <4>2. QED
        BY <4>1 DEF BInv, CacheInv
    <3>3. CASE a = b /\ c # b
      BY <1>2, <1>5, <2>1, <3>1, <3>3
    <3>4. CASE a # b /\ c = b
      BY <1>2, <1>5, <2>1, <3>1, <3>4
    <3>5. QED
      BY <3>2, <3>3, <3>4
  <2>2. ASSUME NEW a \in Range(cache')
        PROVE  block'[a] \in Block /\ ref'[a] = Cardinality(Users(a)')
    <3>1. CASE a = b
      <4>1. Users(b)' = Users(b) \union {t} /\ t \notin Users(b)
        BY <1>3, <1>4, <1>9 DEF Users
      <4>2. Cardinality(Users(b)') = Cardinality(Users(b)) + 1
        BY <4>1, UsersFinite, FS_AddElement
      <4>3. QED
        BY <1>5, <3>1, <4>2
    <3>2. CASE a # b
      <4>1. Users(a)' = Users(a)
        BY <1>3, <1>4, <3>2 DEF Users
      <4>2. a \in Range(cache) /\ a \in Buf
        BY <1>2, <1>3, <3>2
      <4>3. QED
        BY <1>5, <3>2, <4>1, <4>2 DEF BInv, CacheInv
    <3>3. QED
      BY <3>1, <3>2
  <2>3. \A u \in Thread : Range(held'[u]) \subseteq Range(cache')
    BY <1>2, <1>3, <1>4 DEF BInv, CacheInv
  <2>4. QED
    BY <1>2, <2>1, <2>2, <2>3 DEF CacheInv
<1>16. DiskInv'
  <2>1. ASSUME NEW a \in Range(cache'), valid'[a], ~dirty'[a] PROVE data'[a] = disk'[block'[a]]
    <3>1. a \in Range(cache) /\ a \in Buf
      BY <1>2, <1>3, <1>6, <2>1
    <3>2. valid[a] /\ ~dirty[a] /\ block'[a] = block[a]
      BY <1>5, <1>6, <2>1, <3>1
    <3>3. QED
      BY <1>2, <3>1, <3>2 DEF BInv, DiskInv
  <2>2. QED
    BY <2>1 DEF DiskInv
<1>17. QueueAgrees'
  <2>1. ASSUME NEW a \in Range(queue) PROVE dirty'[a] = dirty[a] /\ block'[a] = block[a]
    <3>1. a \in Buf /\ (owner[b] = NoThread => a # b)
      BY QueuedOwner, BuffersAssumption
    <3>2. QED
      BY <1>5, <1>6, <3>1
  <2>2. ASSUME NEW a \in Buf, NEW u \in Thread PROVE Waits(u, a)' <=> Waits(u, a)
    <3>1. CASE u = t
      BY <1>2, <1>4, <3>1 DEF Waits, Sleeping
    <3>2. CASE u # t /\ owner[a] # u
      BY <1>2, <3>2 DEF Waits
    <3>3. CASE u # t /\ owner[a] = u
      <4>1. valid'[a] = valid[a] /\ dirty'[a] = dirty[a]
        BY <1>6, <3>3, BuffersAssumption
      <4>2. QED
        BY <1>2, <1>4, <1>8, <3>3, <4>1 DEF Waits, Finished
    <3>4. QED
      BY <3>1, <3>2, <3>3
  <2>3. QED
    BY <1>2, <2>1, <2>2, KeptQueue
<1>18. QED
  BY <1>7, <1>12, <1>13, <1>14, <1>15, <1>16, <1>17 DEF BInv

-----------------------------------------------------------------------------
(* The end of buf_release()                                                 *)

LEMMA FrontFacts ==
  ASSUME NEW E, NEW s \in Seq(E), s # <<>>, IsInjective(s)
  PROVE  LET r == SubSeq(s, 1, Len(s) - 1)
         IN  /\ r \in Seq(E) /\ Len(r) = Len(s) - 1 /\ Len(s) - 1 \in Nat
             /\ DOMAIN r = 1 .. Len(s) - 1 /\ DOMAIN r \subseteq DOMAIN s
             /\ \A i \in DOMAIN r : r[i] = s[i]
             /\ Range(r) = Range(s) \ {s[Len(s)]}
             /\ r = <<>> <=> Len(s) = 1
<1> DEFINE r == SubSeq(s, 1, Len(s) - 1)
<1>1. /\ r \in Seq(E) /\ Len(r) = Len(s) - 1 /\ Len(s) - 1 \in Nat /\ Len(s) \in Nat
      /\ DOMAIN r = 1 .. Len(s) - 1 /\ DOMAIN s = 1 .. Len(s)
      /\ \A i \in DOMAIN r : r[i] = s[i]
  <2>1. Len(s) \in Nat /\ Len(s) - 1 \in Nat /\ DOMAIN s = 1 .. Len(s) /\ 1 - 1 = 0
    BY SMT
  <2>2. \A i \in 1 .. Len(s) - 1 : s[i] \in E
    BY <2>1, SMT
  <2>3. r = [i \in 1 .. Len(s) - 1 |-> s[i]]
    BY <2>1, SMT
  <2>4. QED
    BY <2>1, <2>2, <2>3, SMT
<1>2. r = <<>> <=> Len(s) = 1
  BY <1>1, SMT
<1> HIDE DEF r
<1>3. /\ Len(s) \in DOMAIN s /\ DOMAIN r \subseteq DOMAIN s /\ Len(s) \notin DOMAIN r
      /\ \A i \in DOMAIN s : i # Len(s) => i \in DOMAIN r
  BY <1>1, SMT
<1>4. ASSUME NEW x PROVE x \in Range(r) <=> x \in Range(s) \ {s[Len(s)]}
  <2>1. ASSUME x \in Range(r) PROVE x \in Range(s) /\ x # s[Len(s)]
    <3>1. PICK i \in DOMAIN r : x = r[i]
      BY <2>1 DEF Range
    <3>2. i \in DOMAIN s /\ x = s[i] /\ i # Len(s)
      BY <1>1, <1>3, <3>1
    <3>3. QED
      BY <1>3, <3>2 DEF Range, IsInjective
  <2>2. ASSUME x \in Range(s), x # s[Len(s)] PROVE x \in Range(r)
    <3>1. PICK i \in DOMAIN s : x = s[i]
      BY <2>2 DEF Range
    <3>2. i \in DOMAIN r /\ x = r[i]
      BY <1>1, <1>3, <2>2, <3>1
    <3>3. QED
      BY <3>2 DEF Range
  <2>3. QED
    BY <2>1, <2>2
<1>5. Range(r) = Range(s) \ {s[Len(s)]}
  BY <1>4
<1>6. QED
  BY <1>1, <1>2, <1>3, <1>5 DEF r

LEMMA PutFacts ==
  ASSUME BInv, NEW t \in Thread, Put(t)
  PROVE  LET b == Top(t)
         IN  /\ pc[t] = "put" /\ b \in Buf /\ b \in Range(held[t])
             /\ held' \in [Thread -> Seq(Buf)] /\ pc' \in [Thread -> Place]
             /\ pc'[t] \in {"out", "use"} /\ (held'[t] = <<>> <=> pc'[t] = "out")
             /\ DOMAIN held'[t] \subseteq DOMAIN held[t]
             /\ \A i \in DOMAIN held'[t] : held'[t][i] = held[t][i]
             /\ Range(held'[t]) = Range(held[t]) \ {b}
             /\ \A u \in Thread : u # t => held'[u] = held[u] /\ pc'[u] = pc[u]
             /\ ref' = [ref EXCEPT ![b] = @ - 1]
             /\ cache' \in Seq(Buf) /\ IsInjective(cache') /\ Range(cache') = Range(cache)
             /\ UNCHANGED <<block, valid, dirty, data, owner, queue, card, disk, panic>>
<1> DEFINE b == Top(t)
           s == held[t]
           r == SubSeq(s, 1, Len(s) - 1)
           w == IF Len(s) = 1 THEN "out" ELSE "use"
<1>1. /\ pc[t] = "put" /\ ref' = [ref EXCEPT ![b] = @ - 1]
      /\ cache' = IF ref[b] = 1 THEN <<b>> \o Remove(cache, b) ELSE cache
      /\ held' = [held EXCEPT ![t] = r]
      /\ pc' = [pc EXCEPT ![t] = w]
      /\ UNCHANGED <<block, valid, dirty, data, owner, queue, card, disk, panic>>
  BY DEF Put, At, Go
<1>2. s \in Seq(Buf) /\ s # <<>> /\ b = s[Len(s)] /\ b \in Range(s) /\ b \in Buf
  BY <1>1, TopHeld DEF BInv
<1>3. IsInjective(s)
  <2>1. ASSUME NEW i \in DOMAIN s, NEW j \in DOMAIN s, i < j PROVE s[i] # s[j]
    <3>1. block[s[i]] < block[s[j]]
      BY <2>1 DEF BInv, ThreadsInv
    <3>2. s[i] \in Range(s)
      BY DEF Range
    <3>3. block[s[i]] \in Nat
      BY <3>2, HeldCached, BuffersAssumption DEF BInv
    <3>4. QED
      BY <3>1, <3>3, SMT
  <2>2. \A i, j \in DOMAIN s : i = j \/ i < j \/ j < i
    BY <1>2, SMT
  <2>3. QED
    BY <2>1, <2>2 DEF IsInjective
<1>4. /\ r \in Seq(Buf) /\ DOMAIN r \subseteq DOMAIN s /\ \A i \in DOMAIN r : r[i] = s[i]
      /\ Range(r) = Range(s) \ {b} /\ (r = <<>> <=> Len(s) = 1)
  BY <1>2, <1>3, FrontFacts
<1> HIDE DEF r
<1>5. /\ held' \in [Thread -> Seq(Buf)] /\ held'[t] = r
      /\ \A u \in Thread : u # t => held'[u] = held[u]
  BY <1>1, <1>4, SMT DEF BInv, TypeInv
<1>6. w \in {"out", "use"} /\ w \in Place /\ (w = "out" <=> Len(s) = 1)
  BY DEF Place
<1> HIDE DEF w
<1>7. /\ pc' \in [Thread -> Place] /\ pc'[t] = w
      /\ \A u \in Thread : u # t => pc'[u] = pc[u]
  BY <1>1, <1>6, SMT DEF BInv, TypeInv
<1>8. cache' \in Seq(Buf) /\ IsInjective(cache') /\ Range(cache') = Range(cache)
  <2>1. cache \in Seq(Buf) /\ IsInjective(cache) /\ b \in Range(cache)
    BY <1>2, HeldCached DEF BInv, TypeInv, CacheInv
  <2>2. CASE cache' = cache
    BY <2>1, <2>2
  <2>3. CASE cache' = <<b>> \o Remove(cache, b)
    <3>1. /\ Remove(cache, b) \in Seq(Buf) /\ IsInjective(Remove(cache, b))
          /\ Range(Remove(cache, b)) = Range(cache) \ {b}
      BY <2>1, RemoveFacts
    <3>2. b \in Buf /\ b \notin Range(Remove(cache, b))
      BY <1>2, <3>1
    <3>3. /\ <<b>> \o Remove(cache, b) \in Seq(Buf) /\ IsInjective(<<b>> \o Remove(cache, b))
          /\ Range(<<b>> \o Remove(cache, b)) = Range(Remove(cache, b)) \union {b}
      BY <3>1, <3>2, PrependFacts
    <3>4. QED
      BY <2>1, <2>3, <3>1, <3>3
  <2>4. QED
    BY <1>1, <2>2, <2>3
<1>9. QED
  BY <1>1, <1>2, <1>4, <1>5, <1>6, <1>7, <1>8

LEMMA PutStep ==
  ASSUME BInv, NEW t \in Thread, Put(t)
  PROVE  BInv'
<1>1. PICK b \in Buf : b = Top(t)
  BY PutFacts
<1>2. /\ pc[t] = "put" /\ b \in Range(held[t])
      /\ held' \in [Thread -> Seq(Buf)] /\ pc' \in [Thread -> Place]
      /\ pc'[t] \in {"out", "use"} /\ (held'[t] = <<>> <=> pc'[t] = "out")
      /\ DOMAIN held'[t] \subseteq DOMAIN held[t]
      /\ \A i \in DOMAIN held'[t] : held'[t][i] = held[t][i]
      /\ Range(held'[t]) = Range(held[t]) \ {b}
      /\ \A u \in Thread : u # t => held'[u] = held[u] /\ pc'[u] = pc[u]
      /\ ref' = [ref EXCEPT ![b] = @ - 1]
      /\ cache' \in Seq(Buf) /\ IsInjective(cache') /\ Range(cache') = Range(cache)
      /\ UNCHANGED <<block, valid, dirty, data, owner, queue, card, disk, panic>>
  BY <1>1, PutFacts
<1>3. Users(b)' = Users(b) \ {t} /\ t \in Users(b) /\ \A a : a # b => Users(a)' = Users(a)
  BY <1>2 DEF Users
<1>4. b \in Range(cache) /\ ref[b] = Cardinality(Users(b))
  BY <1>2, HeldCached DEF BInv, CacheInv
<1>5. /\ Cardinality(Users(b)') = ref[b] - 1 /\ ref[b] - 1 \in Nat
      /\ ref[b] - 1 = Cardinality(Users(b)')
  <2>1. PICK us : us = Users(b)
    OBVIOUS
  <2>2. IsFiniteSet(us) /\ t \in us /\ Cardinality(us) = ref[b] /\ Users(b)' = us \ {t}
    BY <1>3, <1>4, <2>1, UsersFinite
  <2>3. IsFiniteSet(us \ {t}) /\ Cardinality(us \ {t}) = Cardinality(us) - 1
    BY <2>2, FS_RemoveElement
  <2>4. Cardinality(us \ {t}) \in Nat
    BY <2>3, FS_CardinalityType
  <2>5. QED
    BY <2>2, <2>3, <2>4
<1>6. ref' \in [Buf -> Nat] /\ ref'[b] = ref[b] - 1 /\ \A a \in Buf : a # b => ref'[a] = ref[a]
  BY <1>2, <1>5, SMT DEF BInv, TypeInv
<1>7. TypeInv'
  BY <1>2, <1>6 DEF BInv, TypeInv
<1>8. \A u \in Thread : u # t => Top(u)' = Top(u)
  BY <1>2 DEF Top
<1>9. ThreadsInv'
  <2>1. ASSUME NEW u \in Thread
        PROVE  /\ held'[u] = <<>> <=> pc'[u] = "out"
               /\ \A i, j \in DOMAIN held'[u] : i < j => block'[held'[u][i]] < block'[held'[u][j]]
    <3>1. CASE u = t
      <4>1. ASSUME NEW i \in DOMAIN held'[t], NEW j \in DOMAIN held'[t], i < j
            PROVE  block[held'[t][i]] < block[held'[t][j]]
        <5>1. /\ i \in DOMAIN held[t] /\ j \in DOMAIN held[t]
              /\ held'[t][i] = held[t][i] /\ held'[t][j] = held[t][j]
          BY <1>2
        <5>2. block[held[t][i]] < block[held[t][j]]
          BY <4>1, <5>1 DEF BInv, ThreadsInv
        <5>3. QED
          BY <5>1, <5>2
      <4>2. QED
        BY <1>2, <3>1, <4>1
    <3>2. CASE u # t
      BY <1>2, <3>2 DEF BInv, ThreadsInv
    <3>3. QED
      BY <3>1, <3>2
  <2>2. QED
    BY <2>1 DEF ThreadsInv
<1>10. OwnersInv'
  <2>1. ASSUME NEW a \in Buf, NEW u \in Thread PROVE Owns(u, a)' <=> Owns(u, a)
    <3>1. CASE u # t
      BY <1>2, <1>8, <3>1 DEF Owns
    <3>2. CASE u = t
      <4>1. Owns(t, a)' <=> a \in Range(held[t]) /\ a # b
        BY <1>2 DEF Owns
      <4>2. Owns(t, a) <=> a \in Range(held[t]) /\ a # b
        BY <1>1, <1>2 DEF Owns
      <4>3. QED
        BY <3>2, <4>1, <4>2
    <3>3. QED
      BY <3>1, <3>2
  <2>2. QED
    BY <1>2, <2>1 DEF BInv, OwnersInv
<1>11. FlagsInv'
  <2>1. ASSUME NEW u \in Thread, NEW a \in Range(held'[u])
        PROVE  IF a = Top(u)' THEN PlaceOK(pc'[u], valid[a], dirty[a]) ELSE valid[a]
    <3>1. CASE u # t
      BY <1>2, <1>8, <3>1 DEF BInv, FlagsInv
    <3>2. CASE u = t
      <4>1. a \in Range(held[t]) /\ a # Top(t)
        BY <1>1, <1>2, <3>2
      <4>2. valid[a]
        BY <4>1 DEF BInv, FlagsInv
      <4>3. PlaceOK(pc'[u], valid[a], dirty[a])
        BY <1>2, <3>2, <4>2 DEF PlaceOK
      <4>4. QED
        BY <4>2, <4>3
    <3>3. QED
      BY <3>1, <3>2
  <2>2. QED
    BY <1>2, <2>1 DEF BInv, FlagsInv
<1>12. CacheInv'
  <2>1. ASSUME NEW a \in Range(cache')
        PROVE  block'[a] \in Block /\ ref'[a] = Cardinality(Users(a)')
    <3>1. a \in Range(cache) /\ a \in Buf
      BY <1>2, RangeFacts DEF BInv, TypeInv
    <3>2. block[a] \in Block /\ ref[a] = Cardinality(Users(a))
      BY <3>1 DEF BInv, CacheInv
    <3>3. CASE a = b
      BY <1>2, <1>5, <1>6, <3>2, <3>3
    <3>4. CASE a # b
      BY <1>2, <1>3, <1>6, <3>1, <3>2, <3>4
    <3>5. QED
      BY <3>3, <3>4
  <2>2. \A u \in Thread : Range(held'[u]) \subseteq Range(cache')
    BY <1>2 DEF BInv, CacheInv
  <2>3. \A a, c \in Range(cache') : block'[a] = block'[c] => a = c
    BY <1>2 DEF BInv, CacheInv
  <2>4. QED
    BY <1>2, <2>1, <2>2, <2>3 DEF CacheInv
<1>13. DiskInv'
  BY <1>2 DEF BInv, DiskInv
<1>14. QueueAgrees'
  <2>1. ASSUME NEW a \in Buf, NEW u \in Thread PROVE Waits(u, a)' <=> Waits(u, a)
    <3>1. CASE u = t
      BY <1>2, <3>1 DEF Waits, Sleeping
    <3>2. CASE u # t
      BY <1>2, <1>8, <3>2 DEF Waits, Finished
    <3>3. QED
      BY <3>1, <3>2
  <2>2. QED
    BY <1>2, <2>1, KeptQueue
<1>15. QED
  BY <1>7, <1>9, <1>10, <1>11, <1>12, <1>13, <1>14 DEF BInv

-----------------------------------------------------------------------------
(* The invariant.                                                           *)

LEMMA BInvInit ==
  Init => BInv
<1> SUFFICES ASSUME Init PROVE BInv
  OBVIOUS
<1> USE DEF Init
<1>1. Range(<<>>) = {} /\ IsInjective(<<>>) /\ DOMAIN <<>> = {} /\ <<>> \in Seq(Buf)
  BY SMT DEF Range, IsInjective
<1>2. \A t \in Thread : held[t] = <<>> /\ pc[t] = "out"
  OBVIOUS
<1>3. TypeInv
  BY <1>1, SMT DEF TypeInv, Place, Data, NoCommand
<1>4. ThreadsInv
  BY <1>1, <1>2 DEF ThreadsInv
<1>5. OwnersInv
  <2>1. \A b \in Buf : owner[b] = NoThread
    OBVIOUS
  <2>2. QED
    BY <1>1, <1>2, <2>1, BuffersAssumption DEF OwnersInv, Owns
<1>6. FlagsInv
  <2>1. \A b \in Buf : ~dirty[b]
    OBVIOUS
  <2>2. QED
    BY <1>1, <1>2, <2>1 DEF FlagsInv
<1>7. CacheInv /\ DiskInv
  BY <1>1, <1>2 DEF CacheInv, DiskInv
<1>8. QueueAgrees
  <2>1. panic = "none" /\ queue = <<>> /\ card = NoCommand
    OBVIOUS
  <2>2. QED
    BY <1>1, <1>2, <2>1 DEF QueueAgrees
<1>9. QED
  BY <1>3, <1>4, <1>5, <1>6, <1>7, <1>8 DEF BInv

LEMMA BInvStutter ==
  ASSUME BInv, UNCHANGED vars
  PROVE  BInv'
<1>1. UNCHANGED <<bufVars, pc, held, queue, card, disk, panic>>
  BY DEF vars
<1>2. \A t : Top(t)' = Top(t)
  BY <1>1, SameTop
<1>3. TypeInv'
  BY <1>1 DEF BInv, TypeInv, bufVars
<1>4. ThreadsInv' /\ OwnersInv' /\ FlagsInv' /\ CacheInv' /\ DiskInv'
  BY <1>1, <1>2, SameThreads, SameOwners, SameCache DEF BInv, FlagsInv, DiskInv, bufVars
<1>5. QueueAgrees'
  <2>1. \A b : Finished(b)' <=> Finished(b)
    BY <1>1 DEF Finished, bufVars
  <2>2. QED
    BY <1>1, <2>1, SameQueue DEF bufVars
<1>6. QED
  BY <1>3, <1>4, <1>5 DEF BInv

LEMMA BInvInductive ==
  BInv /\ [Next]_vars => BInv'
BY BInvStutter, ReadyStep, SdIrqStep, GetStep, LockStep, RequestStep, InterruptStep,
   ContinueStep, ModifyStep, ReleaseStep, UnlockStep, PutStep DEF Next

\* Buffers and blocks correspond one to one and the reference counts are exact:
\* buf_get() never gives a buffer in use to another block.
THEOREM BuffersCacheAgrees ==
  Spec => []CacheAgrees
<1>1. BInv => CacheAgrees
  <2>1. ASSUME BInv, NEW i \in DOMAIN cache, NEW j \in DOMAIN cache,
               block[cache[i]] = block[cache[j]]
        PROVE  i = j
    <3>1. cache[i] \in Range(cache) /\ cache[j] \in Range(cache)
      BY DEF Range
    <3>2. cache[i] = cache[j]
      BY <2>1, <3>1 DEF BInv, CacheInv
    <3>3. QED
      BY <2>1, <3>2 DEF BInv, CacheInv, IsInjective
  <2>2. QED
    BY <2>1 DEF BInv, CacheInv, CacheAgrees, Users
<1>2. QED
  BY <1>1, BInvInit, BInvInductive, PTL DEF Spec

\* The card works for the head of sd->queue, every buffer somebody waits for is
\* in the queue once, and no panic() of buf.c or sd.c is reached.
THEOREM BuffersQueueAgrees ==
  Spec => []QueueAgrees
<1>1. BInv => QueueAgrees
  BY DEF BInv
<1>2. QED
  BY <1>1, BInvInit, BInvInductive, PTL DEF Spec

-----------------------------------------------------------------------------
(* The refinement of BlockStore: its content is what is in the valid buffer *)
(* of a block or, without one, on the disk; its user is the thread that has *)
(* got through buf_read() and is not yet in buf_release().                  *)

ContentOf(h, da, d) == IF h = {} THEN d ELSE da[CHOOSE b \in h : TRUE]

UsersOf(k) == {t \in Thread : \E b \in Buf : block[b] = k /\ Uses(t, b)}
UserOf(ts) == IF ts = {} THEN NoThread ELSE CHOOSE t \in ts : TRUE

LEMMA Mapping ==
  /\ Content = [k \in Block |-> ContentOf(Holding(k), data, disk[k])]
  /\ Content' = [k \in Block |-> ContentOf(Holding(k)', data', disk'[k])]
  /\ User = [k \in Block |-> UserOf(UsersOf(k))]
  /\ User' = [k \in Block |-> UserOf(UsersOf(k)')]
BY DEF Content, ContentOf, User, UserOf, UsersOf

LEMMA Choices ==
  ASSUME NEW x, NEW da, NEW d
  PROVE  /\ ContentOf({}, da, d) = d /\ ContentOf({x}, da, d) = da[x]
         /\ UserOf({}) = NoThread /\ UserOf({x}) = x
BY DEF ContentOf, UserOf

\* The content stays where every block does.
LEMMA SameContent ==
  ASSUME \A k \in Block : ContentOf(Holding(k)', data', disk'[k]) = ContentOf(Holding(k), data, disk[k])
  PROVE  UNCHANGED Content
BY Mapping

LEMMA UntouchedContent ==
  ASSUME UNCHANGED <<block, valid, data, disk>>, Range(cache') = Range(cache)
  PROVE  UNCHANGED Content
<1>1. \A k \in Block : Holding(k)' = Holding(k)
  BY DEF Holding
<1>2. QED
  BY <1>1, SameContent

\* The buffer of a block.
LEMMA HoldingFacts ==
  ASSUME BInv, NEW b \in Range(cache)
  PROVE  /\ block[b] \in Block
         /\ valid[b] => Holding(block[b]) = {b}
         /\ ~valid[b] => Holding(block[b]) = {}
BY DEF BInv, CacheInv, Holding

LEMMA UseOwned ==
  ASSUME BInv, NEW t \in Thread, NEW b, Uses(t, b)
  PROVE  b \in Buf /\ b \in Range(cache) /\ owner[b] = t
<1>1. b \in Range(held[t])
  BY DEF Uses
<1>2. b \in Buf /\ b \in Range(cache)
  BY <1>1, HeldCached DEF BInv
<1>3. Owns(t, b)
  BY DEF Uses, Owns
<1>4. QED
  BY <1>2, <1>3 DEF BInv, OwnersInv

LEMMA SameUsers ==
  ASSUME \A t \in Thread, b \in Buf : Uses(t, b)' <=> Uses(t, b),
         \A t \in Thread : \A b \in Range(held[t]) : block'[b] = block[b]
  PROVE  UNCHANGED User
<1>1. \A k : UsersOf(k)' = UsersOf(k)
  <2>1. ASSUME NEW k, NEW t \in Thread, NEW b \in Buf
        PROVE  (block[b] = k /\ Uses(t, b))' <=> (block[b] = k /\ Uses(t, b))
    BY DEF Uses
  <2>2. QED
    BY <2>1 DEF UsersOf
<1>2. QED
  BY <1>1, Mapping

\* A thread gets to, or ends, the use of its last buffer.
LEMMA UsersMove ==
  ASSUME BInv, NEW t \in Thread, NEW b \in Buf, b = Top(t), b \in Range(held[t]),
         UNCHANGED <<block, held>>, owner[b] \in {t, NoThread},
         \A u \in Thread : u # t => pc'[u] = pc[u],
         (pc[t] = "use") # (pc'[t] = "use")
  PROVE  /\ block[b] \in Block
         /\ pc'[t] = "use" => /\ User[block[b]] = NoThread
                              /\ User' = [User EXCEPT ![block[b]] = t]
         /\ pc'[t] # "use" => User' = [User EXCEPT ![block[b]] = NoThread]
<1>1. b \in Range(cache) /\ block[b] \in Block
  BY HeldCached DEF BInv
<1>2. \A u : Top(u)' = Top(u)
  BY SameTop
<1>3. ASSUME NEW u \in Thread, NEW a \in Buf, a # b \/ u # t
      PROVE  Uses(u, a)' <=> Uses(u, a)
  BY <1>2, <1>3 DEF Uses
<1>4. (Uses(t, b) <=> pc[t] = "use") /\ (Uses(t, b)' <=> pc'[t] = "use")
  BY <1>2 DEF Uses
<1>5. ASSUME NEW u \in Thread, NEW a \in Buf, block[a] = block[b], Uses(u, a)
      PROVE  a = b /\ u = t
  <2>1. a \in Range(cache) /\ owner[a] = u
    BY <1>5, UseOwned
  <2>2. a = b
    BY <1>1, <1>5, <2>1 DEF BInv, CacheInv
  <2>3. QED
    BY <2>1, <2>2, BuffersAssumption
<1>6. ASSUME NEW k, k # block[b] PROVE UsersOf(k)' = UsersOf(k)
  <2>1. ASSUME NEW u \in Thread, NEW a \in Buf
        PROVE  (block[a] = k /\ Uses(u, a))' <=> (block[a] = k /\ Uses(u, a))
    BY <1>3, <1>6
  <2>2. QED
    BY <2>1 DEF UsersOf
<1>7. UsersOf(block[b]) = IF pc[t] = "use" THEN {t} ELSE {}
  BY <1>4, <1>5 DEF UsersOf
<1>8. {u \in Thread : \E a \in Buf : block[a] = block[b] /\ Uses(u, a)'} =
        IF pc'[t] = "use" THEN {t} ELSE {}
  <2>1. ASSUME NEW u \in Thread, NEW a \in Buf, block[a] = block[b], Uses(u, a)'
        PROVE  a = b /\ u = t
    BY <1>3, <1>5, <2>1
  <2>2. QED
    BY <1>4, <2>1
<1>9. PICK k \in Block : k = block[b]
  BY <1>1
<1>10. UsersOf(k)' = IF pc'[t] = "use" THEN {t} ELSE {}
  BY <1>8, <1>9 DEF UsersOf
<1>11. User = [j \in Block |-> UserOf(UsersOf(j))] /\ User' = [j \in Block |-> UserOf(UsersOf(j)')]
  BY Mapping
<1>12. UserOf({}) = NoThread /\ UserOf({t}) = t
  BY Choices
<1>13. User[k] = UserOf(UsersOf(k))
  BY <1>11
<1>14. ASSUME NEW x, UserOf(UsersOf(k)') = x
       PROVE  User' = [User EXCEPT ![k] = x]
  <2>1. [User EXCEPT ![k] = x] = [j \in Block |-> IF j = k THEN x ELSE UserOf(UsersOf(j))]
    BY <1>11, SMT
  <2>2. \A j \in Block : UserOf(UsersOf(j)') = IF j = k THEN x ELSE UserOf(UsersOf(j))
    BY <1>6, <1>9, <1>14
  <2>3. QED
    BY <1>11, <2>1, <2>2
<1>15. CASE pc'[t] = "use"
  BY <1>1, <1>7, <1>9, <1>10, <1>12, <1>13, <1>14, <1>15
<1>16. CASE pc'[t] # "use"
  BY <1>1, <1>9, <1>10, <1>12, <1>14, <1>16
<1>17. QED
  BY <1>15, <1>16

\* Nothing happens to what is used when places change that are not "use".
LEMMA SameUses ==
  ASSUME UNCHANGED <<block, held>>, \A t \in Thread : pc'[t] = "use" <=> pc[t] = "use"
  PROVE  UNCHANGED User
<1>1. \A t \in Thread, b \in Buf : Uses(t, b)' <=> Uses(t, b)
  BY SameTop DEF Uses
<1>2. QED
  BY <1>1, SameUsers

LEMMA GetKeeps ==
  ASSUME BInv, NEW t \in Thread, NEW k \in Block, Get(t, k)
  PROVE  UNCHANGED <<Content, User>>
<1>1. PICK b \in Buf : Gets(t, k, b)
  BY GetFacts
<1>2. /\ pc[t] \in {"out", "use"} /\ \A a \in Range(held[t]) : block[a] < k
      /\ UNCHANGED <<data, disk>> /\ Range(cache') = Range(cache) \union {b}
      /\ held' = [held EXCEPT ![t] = Append(held[t], b)] /\ pc' = [pc EXCEPT ![t] = "lock"]
      /\ block' = [block EXCEPT ![b] = k]
  BY <1>1 DEF Gets, Cached
<1>3. /\ held[t] \in Seq(Buf) /\ Range(cache) \subseteq Buf
      /\ block'[b] = k /\ \A a \in Buf : a # b => block'[a] = block[a]
      /\ held'[t] = Append(held[t], b) /\ \A u \in Thread : u # t => held'[u] = held[u]
      /\ pc'[t] = "lock" /\ \A u \in Thread : u # t => pc'[u] = pc[u]
  <2>1. held[t] \in Seq(Buf) /\ Range(cache) \subseteq Buf
    BY RangeFacts DEF BInv, TypeInv
  <2>2. /\ block \in [Buf -> Block \union {NoBlock}] /\ pc \in [Thread -> Place]
        /\ held \in [Thread -> Seq(Buf)]
    BY DEF BInv, TypeInv
  <2>3. QED
    BY <1>2, <2>1, <2>2, SMT
<1>4. /\ \A a \in Buf : a # b => valid'[a] = valid[a]
      /\ \/ b \in Range(cache) /\ block[b] = k /\ valid'[b] = valid[b]
         \/ owner[b] = NoThread /\ ~valid'[b] /\ \A u \in Thread : b \notin Range(held[u])
  <2>1. CASE Found(b, k)
    BY <2>1 DEF Found
  <2>2. CASE Reused(b)
    <3>1. ~valid'[b] /\ \A a \in Buf : a # b => valid'[a] = valid[a]
      BY <2>2, SMT DEF Reused, BInv, TypeInv
    <3>2. QED
      BY <2>2, <3>1 DEF Reused
  <2>3. QED
    BY <1>1, <2>1, <2>2 DEF Gets, Cached
<1>5. ASSUME NEW j \in Block
      PROVE  ContentOf(Holding(j)', data', disk'[j]) = ContentOf(Holding(j), data, disk[j])
  <2>1. CASE b \in Range(cache) /\ block[b] = k /\ valid'[b] = valid[b]
    <3>1. \A a \in Range(cache) : block'[a] = block[a] /\ valid'[a] = valid[a]
      BY <1>3, <1>4, <2>1
    <3>2. Range(cache') = Range(cache)
      BY <1>2, <2>1
    <3>3. Holding(j)' = Holding(j)
      BY <3>1, <3>2 DEF Holding
    <3>4. QED
      BY <1>2, <3>3
  <2>2. CASE ~valid'[b] /\ owner[b] = NoThread
    <3>1. Holding(j)' = Holding(j) \ {b}
      BY <1>2, <1>3, <1>4, <2>2 DEF Holding
    <3>2. CASE b \notin Holding(j)
      <4>1. Holding(j)' = Holding(j)
        BY <3>1, <3>2
      <4>2. QED
        BY <1>2, <4>1
    <3>3. CASE b \in Holding(j)
      <4>1. b \in Range(cache) /\ block[b] = j /\ valid[b]
        BY <3>3 DEF Holding
      <4>2. Holding(j) = {b} /\ Holding(j)' = {}
        BY <3>1, <4>1, HoldingFacts
      <4>3. data[b] = disk[j]
        BY <2>2, <4>1 DEF BInv, FlagsInv, DiskInv
      <4>4. ContentOf(Holding(j), data, disk[j]) = data[b]
        BY <4>2, Choices
      <4>5. ContentOf(Holding(j)', data', disk'[j]) = disk[j]
        BY <1>2, <4>2 DEF ContentOf
      <4>6. QED
        BY <4>3, <4>4, <4>5
    <3>4. QED
      BY <3>2, <3>3
  <2>3. QED
    BY <1>4, <2>1, <2>2
<1>6. UNCHANGED Content
  BY <1>5, SameContent
<1>7. /\ Range(held'[t]) = Range(held[t]) \union {b}
      /\ held'[t] # <<>> /\ held'[t][Len(held'[t])] = b
  <2>1. Range(Append(held[t], b)) = Range(held[t]) \union {b}
    BY <1>1, <1>3, AppendFacts, SMT
  <2>2. Append(held[t], b) # <<>> /\ Append(held[t], b)[Len(Append(held[t], b))] = b
    BY <1>1, <1>3, SMT
  <2>3. QED
    BY <1>3, <2>1, <2>2
<1>8. Top(t)' = b /\ \A u \in Thread : u # t => Top(u)' = Top(u)
  BY <1>3, <1>7 DEF Top
<1>9. b \notin Range(held[t])
  <2>1. SUFFICES ASSUME b \in Range(held[t]) PROVE FALSE
    OBVIOUS
  <2>2. block[b] = k /\ block[b] < k
    BY <1>2, <1>4, <2>1
  <2>3. QED
    BY <2>2, BuffersAssumption, SMT
<1>10. pc[t] = "out" => Range(held[t]) = {}
  <2>1. Range(<<>>) = {}
    BY SMT DEF Range
  <2>2. QED
    BY <2>1 DEF BInv, ThreadsInv
<1>11. ASSUME NEW u \in Thread, NEW a \in Buf PROVE Uses(u, a)' <=> Uses(u, a)
  <2>1. CASE u # t
    BY <1>3, <1>8, <2>1 DEF Uses
  <2>2. CASE u = t
    <3>1. Uses(t, a) <=> a \in Range(held[t])
      BY <1>2, <1>10 DEF Uses
    <3>2. Uses(t, a)' <=> a \in Range(held[t])
      BY <1>3, <1>7, <1>8, <1>9 DEF Uses
    <3>3. QED
      BY <2>2, <3>1, <3>2
  <2>3. QED
    BY <2>1, <2>2
<1>12. \A u \in Thread : \A a \in Range(held[u]) : block'[a] = block[a]
  BY <1>3, <1>4, HeldCached DEF BInv
<1>13. UNCHANGED User
  BY <1>11, <1>12, SameUsers
<1>14. QED
  BY <1>6, <1>13

LEMMA PutKeeps ==
  ASSUME BInv, NEW t \in Thread, Put(t)
  PROVE  UNCHANGED <<Content, User>>
<1>1. PICK b \in Buf : b = Top(t)
  BY PutFacts
<1>2. /\ pc[t] = "put" /\ b \in Range(held[t])
      /\ pc'[t] \in {"out", "use"} /\ (held'[t] = <<>> <=> pc'[t] = "out")
      /\ Range(held'[t]) = Range(held[t]) \ {b}
      /\ \A u \in Thread : u # t => held'[u] = held[u] /\ pc'[u] = pc[u]
      /\ Range(cache') = Range(cache)
      /\ UNCHANGED <<block, valid, dirty, data, owner, queue, card, disk, panic>>
  BY <1>1, PutFacts
<1>3. UNCHANGED Content
  BY <1>2, UntouchedContent
<1>4. \A u \in Thread : u # t => Top(u)' = Top(u)
  BY <1>2 DEF Top
<1>5. pc'[t] = "out" => Range(held'[t]) = {}
  <2>1. Range(<<>>) = {}
    BY SMT DEF Range
  <2>2. QED
    BY <1>2, <2>1
<1>6. ASSUME NEW u \in Thread, NEW a \in Buf PROVE Uses(u, a)' <=> Uses(u, a)
  <2>1. CASE u # t
    BY <1>2, <1>4, <2>1 DEF Uses
  <2>2. CASE u = t
    <3>1. Uses(t, a) <=> a \in Range(held[t]) /\ a # b
      BY <1>1, <1>2 DEF Uses
    <3>2. Uses(t, a)' <=> a \in Range(held[t]) /\ a # b
      BY <1>2, <1>5 DEF Uses
    <3>3. QED
      BY <2>2, <3>1, <3>2
  <2>3. QED
    BY <2>1, <2>2
<1>7. UNCHANGED User
  BY <1>2, <1>6, SameUsers
<1>8. QED
  BY <1>3, <1>7

LEMMA SdIrqKeeps ==
  ASSUME BInv, SdIrq
  PROVE  UNCHANGED <<Content, User>>
<1>1. PICK b \in Buf : b = Head(queue)
  BY SdIrqFacts
<1>2. /\ b \in Range(cache) /\ ~Finished(b) /\ card.block = block[b] /\ block[b] \in Block
      /\ Transfer(b) /\ WakeupAll(b)
      /\ UNCHANGED <<cache, block, ref, owner, held, panic>>
  BY <1>1, SdIrqFacts
<1>3. /\ valid \in [Buf -> BOOLEAN] /\ data \in [Buf -> Data] /\ disk \in [Block -> Data]
      /\ Range(cache) \subseteq Buf
  BY RangeFacts DEF BInv, TypeInv
<1>4. ASSUME dirty[b] PROVE UNCHANGED Content
  <2>1. UNCHANGED <<valid, data>> /\ \A j \in Block : j # block[b] => disk'[j] = disk[j]
    BY <1>2, <1>3, <1>4, SMT DEF Transfer
  <2>2. \A j : Holding(j)' = Holding(j)
    BY <1>2, <2>1 DEF Holding
  <2>3. Holding(block[b]) = {b}
    BY <1>2, <1>4, HoldingFacts DEF BInv, FlagsInv
  <2>4. ASSUME NEW j \in Block
        PROVE  ContentOf(Holding(j)', data', disk'[j]) = ContentOf(Holding(j), data, disk[j])
    <3>1. CASE j # block[b]
      BY <2>1, <2>2, <3>1
    <3>2. CASE j = block[b]
      <4>1. Holding(j) = {b} /\ Holding(j)' = {b} /\ data' = data
        BY <2>1, <2>2, <2>3, <3>2
      <4>2. ContentOf(Holding(j), data, disk[j]) = data[b]
        BY <4>1, Choices
      <4>3. ContentOf(Holding(j)', data', disk'[j]) = data[b]
        BY <4>1, Choices
      <4>4. QED
        BY <4>2, <4>3
    <3>3. QED
      BY <3>1, <3>2
  <2>5. QED
    BY <2>4, SameContent
<1>5. ASSUME ~dirty[b] PROVE UNCHANGED Content
  <2>1. /\ ~valid[b] /\ disk' = disk /\ valid'[b] /\ data'[b] = disk[block[b]]
        /\ \A a \in Buf : a # b => valid'[a] = valid[a] /\ data'[a] = data[a]
    BY <1>2, <1>3, <1>5, SMT DEF Transfer, Finished
  <2>2. Holding(block[b]) = {}
    BY <1>2, <2>1, HoldingFacts
  <2>3. ASSUME NEW j \in Block
        PROVE  ContentOf(Holding(j)', data', disk'[j]) = ContentOf(Holding(j), data, disk[j])
    <3>1. CASE j # block[b]
      <4>1. Holding(j)' = Holding(j) /\ b \notin Holding(j) /\ Holding(j) \subseteq Buf
        BY <1>2, <1>3, <2>1, <3>1 DEF Holding
      <4>2. CASE Holding(j) = {}
        <5>1. Holding(j)' = {} /\ disk'[j] = disk[j]
          BY <2>1, <4>1, <4>2
        <5>2. ContentOf(Holding(j), data, disk[j]) = disk[j]
          BY <4>2 DEF ContentOf
        <5>3. ContentOf(Holding(j)', data', disk'[j]) = disk'[j]
          BY <5>1 DEF ContentOf
        <5>4. QED
          BY <5>1, <5>2, <5>3
      <4>3. CASE Holding(j) # {}
        <5>1. PICK a \in Holding(j) : a = CHOOSE c \in Holding(j) : TRUE
          BY <4>3
        <5>2. ContentOf(Holding(j), data, disk[j]) = data[a]
          BY <4>3, <5>1 DEF ContentOf
        <5>3. ContentOf(Holding(j)', data', disk'[j]) = data'[a]
          BY <4>1, <4>3, <5>1 DEF ContentOf
        <5>4. QED
          BY <2>1, <4>1, <5>1, <5>2, <5>3
      <4>4. QED
        BY <4>2, <4>3
    <3>2. CASE j = block[b]
      <4>1. Holding(j)' = Holding(j) \union {b}
        BY <1>2, <1>3, <2>1, <3>2 DEF Holding
      <4>2. Holding(j) = {} /\ Holding(j)' = {b}
        BY <2>2, <3>2, <4>1
      <4>3. QED
        <5>1. ContentOf(Holding(j), data, disk[j]) = disk[j]
          BY <4>2 DEF ContentOf
        <5>2. ContentOf(Holding(j)', data', disk'[j]) = data'[b]
          BY <4>2, Choices
        <5>3. QED
          BY <2>1, <3>2, <5>1, <5>2
    <3>3. QED
      BY <3>1, <3>2
  <2>4. QED
    BY <2>3, SameContent
<1>6. \A u \in Thread : pc'[u] = "use" <=> pc[u] = "use"
  BY <1>2, SMT DEF WakeupAll
<1>7. UNCHANGED User
  BY <1>2, <1>6, SameUses
<1>8. QED
  BY <1>4, <1>5, <1>7

LEMMA ModifyWrites ==
  ASSUME BInv, NEW t \in Thread, NEW v \in Value, Modify(t, v)
  PROVE  \E k \in Block : S!Write(k, v)
<1>1. PICK b \in Buf : b = Top(t)
  BY TopOwned DEF Modify, At
<1>2. /\ pc[t] = "use" /\ data' = [data EXCEPT ![b] = v]
      /\ UNCHANGED <<cache, block, ref, valid, owner, pc, held, queue, card, disk, panic>>
  BY <1>1 DEF Modify, At
<1>3. b \in Range(held[t]) /\ owner[b] = t /\ valid[b]
  BY <1>1, <1>2, TopOwned DEF PlaceOK
<1>4. b \in Range(cache) /\ block[b] \in Block
  BY <1>3, HeldCached DEF BInv
<1>5. PICK k \in Block : k = block[b]
  BY <1>4
<1>6. data'[b] = v /\ \A a \in Buf : a # b => data'[a] = data[a]
  BY <1>2, SMT DEF BInv, TypeInv
<1>7. \A j : Holding(j)' = Holding(j)
  BY <1>2 DEF Holding
<1>8. Holding(k) = {b}
  BY <1>3, <1>4, <1>5, HoldingFacts
<1>9. ASSUME NEW j \in Block, j # k
      PROVE  ContentOf(Holding(j)', data', disk'[j]) = ContentOf(Holding(j), data, disk[j])
  <2>1. b \notin Holding(j) /\ Holding(j) \subseteq Buf
    BY <1>5, <1>9, RangeFacts DEF Holding, BInv, TypeInv
  <2>2. CASE Holding(j) = {}
    <3>1. Holding(j)' = {} /\ disk'[j] = disk[j]
      BY <1>2, <1>7, <2>2
    <3>2. ContentOf(Holding(j), data, disk[j]) = disk[j]
      BY <2>2 DEF ContentOf
    <3>3. ContentOf(Holding(j)', data', disk'[j]) = disk'[j]
      BY <3>1 DEF ContentOf
    <3>4. QED
      BY <3>1, <3>2, <3>3
  <2>3. CASE Holding(j) # {}
    <3>1. PICK a \in Holding(j) : a = CHOOSE c \in Holding(j) : TRUE
      BY <2>3
    <3>2. ContentOf(Holding(j), data, disk[j]) = data[a]
      BY <2>3, <3>1 DEF ContentOf
    <3>3. ContentOf(Holding(j)', data', disk'[j]) = data'[a]
      BY <1>7, <2>3, <3>1 DEF ContentOf
    <3>4. QED
      BY <1>6, <2>1, <3>1, <3>2, <3>3
  <2>4. QED
    BY <2>2, <2>3
<1>10. ContentOf(Holding(k)', data', disk'[k]) = v
  BY <1>6, <1>7, <1>8, Choices
<1>11. Content' = [Content EXCEPT ![k] = v]
  <2>1. [Content EXCEPT ![k] = v] =
          [j \in Block |-> IF j = k THEN v ELSE ContentOf(Holding(j), data, disk[j])]
    BY Mapping, SMT
  <2>2. \A j \in Block : ContentOf(Holding(j)', data', disk'[j]) =
                         IF j = k THEN v ELSE ContentOf(Holding(j), data, disk[j])
    BY <1>9, <1>10
  <2>3. QED
    BY <2>1, <2>2, Mapping
<1>12. User[k] # NoThread
  <2>1. t \in UsersOf(k)
    BY <1>1, <1>2, <1>3, <1>5 DEF UsersOf, Uses
  <2>2. UserOf(UsersOf(k)) \in UsersOf(k)
    BY <2>1 DEF UserOf
  <2>3. User[k] = UserOf(UsersOf(k))
    BY Mapping
  <2>4. UsersOf(k) \subseteq Thread
    BY DEF UsersOf
  <2>5. QED
    BY <2>2, <2>3, <2>4, BuffersAssumption
<1>13. UNCHANGED User
  BY <1>2, SameUses
<1>14. QED
  BY <1>11, <1>12, <1>13 DEF S!Write

LEMMA LockOpens ==
  ASSUME BInv, NEW t \in Thread, Lock(t)
  PROVE  UNCHANGED <<Content, User>> \/ \E k \in Block : S!Open(t, k)
<1>1. PICK b : b = Top(t)
  OBVIOUS
<1>2. /\ pc[t] = "lock" /\ owner[b] = NoThread
      /\ pc' = [pc EXCEPT ![t] = IF valid[b] THEN "use" ELSE "read"]
      /\ UNCHANGED <<cache, block, ref, valid, dirty, data, held, queue, card, disk, panic>>
  BY <1>1 DEF Lock, At, Go
<1>3. b \in Buf /\ b \in Range(held[t])
  BY <1>1, <1>2, TopHeld DEF BInv
<1>4. /\ pc'[t] = IF valid[b] THEN "use" ELSE "read"
      /\ \A u \in Thread : u # t => pc'[u] = pc[u]
  BY <1>2, SMT DEF BInv, TypeInv
<1>5. UNCHANGED Content
  BY <1>2, UntouchedContent
<1>6. CASE valid[b]
  <2>1. pc'[t] = "use" /\ pc[t] # "use"
    BY <1>2, <1>4, <1>6
  <2>2. UNCHANGED <<block, held>> /\ owner[b] \in {t, NoThread}
    BY <1>2
  <2>3. /\ block[b] \in Block /\ User[block[b]] = NoThread
        /\ User' = [User EXCEPT ![block[b]] = t]
    BY <1>1, <1>3, <1>4, <2>1, <2>2, UsersMove
  <2>4. QED
    BY <1>5, <2>3 DEF S!Open
<1>7. CASE ~valid[b]
  <2>1. \A u \in Thread : pc'[u] = "use" <=> pc[u] = "use"
    <3>1. pc'[t] = "read"
      BY <1>4, <1>7
    <3>2. QED
      BY <1>2, <1>4, <3>1
  <2>2. QED
    BY <1>2, <1>5, <2>1, SameUses
<1>8. QED
  BY <1>6, <1>7

LEMMA ContinueOpens ==
  ASSUME BInv, NEW t \in Thread, Continue(t)
  PROVE  UNCHANGED <<Content, User>> \/ \E k \in Block : S!Open(t, k)
<1>1. PICK w : pc' = [pc EXCEPT ![t] = w]
  BY DEF Continue, Go
<1>2. pc[t] \in {"readwoken", "writewoken"} /\ UNCHANGED <<bufVars, held, queue, card, disk>>
  BY DEF Continue, At
<1>3. PICK b \in Buf : b = Top(t)
  BY <1>2, TopOwned
<1>4. b \in Range(held[t]) /\ owner[b] = t
  BY <1>2, <1>3, TopOwned
<1>5. pc'[t] = w /\ \A u \in Thread : u # t => pc'[u] = pc[u]
  BY <1>1, SMT DEF BInv, TypeInv
<1>6. UNCHANGED Content
  BY <1>2, UntouchedContent DEF bufVars
<1>7. CASE w = "use"
  <2>1. /\ block[b] \in Block /\ User[block[b]] = NoThread
        /\ User' = [User EXCEPT ![block[b]] = t]
    BY <1>2, <1>3, <1>4, <1>5, <1>7, UsersMove DEF bufVars
  <2>2. QED
    BY <1>6, <2>1 DEF S!Open
<1>8. CASE w # "use"
  <2>1. \A u \in Thread : pc'[u] = "use" <=> pc[u] = "use"
    BY <1>2, <1>5, <1>8
  <2>2. QED
    BY <1>2, <1>6, <2>1, SameUses DEF bufVars
<1>9. QED
  BY <1>7, <1>8

LEMMA ReleaseCloses ==
  ASSUME BInv, NEW t \in Thread, Release(t)
  PROVE  \E k \in Block : S!Close(k)
<1>1. PICK w \in {"write", "unlock"} :
        /\ pc[t] = "use" /\ pc' = [pc EXCEPT ![t] = w]
        /\ UNCHANGED <<bufVars, held, queue, card, disk, panic>>
  BY DEF Release, At, Go
<1>2. PICK b \in Buf : b = Top(t)
  BY <1>1, TopOwned
<1>3. b \in Range(held[t]) /\ owner[b] = t
  BY <1>1, <1>2, TopOwned
<1>4. pc'[t] = w /\ w # "use" /\ \A u \in Thread : u # t => pc'[u] = pc[u]
  BY <1>1, SMT DEF BInv, TypeInv
<1>5. UNCHANGED Content
  BY <1>1, UntouchedContent DEF bufVars
<1>6. block[b] \in Block /\ User' = [User EXCEPT ![block[b]] = NoThread]
  BY <1>1, <1>2, <1>3, <1>4, UsersMove DEF bufVars
<1>7. QED
  BY <1>5, <1>6 DEF S!Close

LEMMA OtherStepsKeep ==
  ASSUME BInv,
         \/ Ready \/ UNCHANGED vars
         \/ \E t \in Thread : Request(t) \/ Interrupt(t) \/ Unlock(t)
  PROVE  UNCHANGED <<Content, User>>
<1>1. UNCHANGED <<cache, block, valid, data, held, disk>>
  BY DEF Ready, Request, Stop, Interrupt, Unlock, vars, bufVars
<1>2. UNCHANGED Content
  BY <1>1, UntouchedContent
<1>3. \A u \in Thread : pc'[u] = "use" <=> pc[u] = "use"
  <2>1. CASE UNCHANGED pc
    BY <2>1
  <2>2. CASE \E t \in Thread, w \in Place \ {"use"} : pc[t] # "use" /\ pc' = [pc EXCEPT ![t] = w]
    BY <2>2, SMT DEF BInv, TypeInv
  <2>3. ASSUME NEW t \in Thread, Request(t) \/ Interrupt(t) \/ Unlock(t)
        PROVE  \/ UNCHANGED pc
               \/ \E w \in Place \ {"use"} : pc[t] # "use" /\ pc' = [pc EXCEPT ![t] = w]
    BY <2>3 DEF Request, Stop, Interrupt, Unlock, At, Go, Place, Sleeping
  <2>4. QED
    BY <2>1, <2>2, <2>3 DEF Ready, vars
<1>4. QED
  BY <1>1, <1>2, <1>3, SameUses

\* A step of the buffer cache is one of BlockStore, or nothing to it.
LEMMA BlocksStep ==
  BInv /\ [Next]_vars => [S!Next]_<<Content, User>>
<1> SUFFICES ASSUME BInv, [Next]_vars PROVE S!Next \/ UNCHANGED <<Content, User>>
  OBVIOUS
<1>1. CASE \/ Ready \/ UNCHANGED vars
           \/ \E t \in Thread : Request(t) \/ Interrupt(t) \/ Unlock(t)
  BY <1>1, OtherStepsKeep
<1>2. CASE SdIrq
  BY <1>2, SdIrqKeeps
<1>3. ASSUME NEW t \in Thread, NEW k \in Block, Get(t, k)
      PROVE  UNCHANGED <<Content, User>>
  BY <1>3, GetKeeps
<1>4. ASSUME NEW t \in Thread, Put(t)
      PROVE  UNCHANGED <<Content, User>>
  BY <1>4, PutKeeps
<1>5. ASSUME NEW t \in Thread, Lock(t) \/ Continue(t)
      PROVE  S!Next \/ UNCHANGED <<Content, User>>
  <2>1. UNCHANGED <<Content, User>> \/ \E k \in Block : S!Open(t, k)
    BY <1>5, LockOpens, ContinueOpens
  <2>2. QED
    BY <2>1 DEF S!Next
<1>6. ASSUME NEW t \in Thread, NEW v \in Value, Modify(t, v)
      PROVE  S!Next
  <2>1. \E k \in Block : S!Write(k, v)
    BY <1>6, ModifyWrites
  <2>2. QED
    BY <2>1 DEF S!Next
<1>7. ASSUME NEW t \in Thread, Release(t)
      PROVE  S!Next
  <2>1. \E k \in Block : S!Close(k)
    BY <1>7, ReleaseCloses
  <2>2. QED
    BY <2>1 DEF S!Next
<1>8. QED
  BY <1>1, <1>2, <1>3, <1>4, <1>5, <1>6, <1>7 DEF Next

LEMMA BlocksInit ==
  Init => S!Init
<1> SUFFICES ASSUME Init PROVE S!Init
  OBVIOUS
<1>1. Range(<<>>) = {}
  BY SMT DEF Range
<1>2. \A k : Holding(k) = {}
  BY <1>1 DEF Init, Holding
<1>3. \A t \in Thread : Range(held[t]) = {}
  BY <1>1 DEF Init
<1>4. \A k : UsersOf(k) = {}
  BY <1>3 DEF UsersOf, Uses
<1>5. \A k \in Block : disk[k] = Blank
  BY DEF Init
<1>6. Content = [k \in Block |-> Blank]
  <2>1. ASSUME NEW k \in Block PROVE ContentOf(Holding(k), data, disk[k]) = Blank
    BY <1>2, <1>5 DEF ContentOf
  <2>2. QED
    BY <2>1, Mapping
<1>7. User = [k \in Block |-> NoThread]
  BY <1>4, Mapping, Choices
<1>8. QED
  BY <1>6, <1>7 DEF S!Init

\* The buffer cache implements BlockStore: a block has one user at a time and
\* changes only when its user writes to it, whatever buf_get() reuses and
\* whenever the card finishes a transfer.
THEOREM BuffersBlocksAreKept ==
  Spec => BlocksAreKept
BY BInvInit, BInvInductive, BlocksInit, BlocksStep, PTL DEF Spec, BlocksAreKept, S!Spec
=============================================================================
