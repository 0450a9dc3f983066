-------------------------------- MODULE Page --------------------------------
(***************************************************************************)
(* The page allocator: kernel/mm/page.c.  A block is known by the number of *)
(* its first page.  page_free_list[o] is a sequence of blocks; its bitmap,  *)
(* which changes with the list, is the set of the blocks in it.  Operations *)
(* map one state of the allocator to the next and say what the loops of the *)
(* code compute; each runs with page_lock held.                             *)
(***************************************************************************)
EXTENDS Naturals, Sequences, FiniteSets, SequencesExt

CONSTANTS PageCount,      \* page_count
          PageOrderMax,   \* PAGE_ORDER_MAX
          Image           \* the pages of the kernel image, never free

ASSUME PageAssumption ==
  /\ PageCount \in Nat /\ PageOrderMax \in Nat
  /\ PageCount % (2 ^ PageOrderMax) = 0
  /\ Image \subseteq 0 .. PageCount - 1

PageNo == 0 .. PageCount - 1
Order == 0 .. PageOrderMax

VARIABLES pool,      \* the allocator: see EmptyPool
          released   \* the page that page_free_region() has reached at boot

\* page_free_list, page_free_count, ref_count of the pages, and whether memory
\* was exhausted, which ends in panic().
EmptyPool ==
  [free |-> [o \in Order |-> <<>>], count |-> 0,
   ref |-> [p \in PageNo |-> 0], oom |-> FALSE]

\* page_buddy()
Buddy(b, o) == IF (b \div 2 ^ o) % 2 = 0 THEN b + 2 ^ o ELSE b - 2 ^ o

\* The block of order o that page b is in.
Base(b, o) == b - (b % (2 ^ o))

\* The lists page_alloc_block() can take a block from, and the one it does.
Sources(m, order) == {o \in order .. PageOrderMax : m.free[o] # <<>>}
Source(m, order) == CHOOSE o \in Sources(m, order) : \A k \in Sources(m, order) : o <= k

\* The block page_alloc_block() returns: the last part of the one it splits.
Taken(m, order) ==
  LET o == Source(m, order) IN Head(m.free[o]) + 2 ^ o - 2 ^ order

\* page_alloc_block(): the lower halves go to the lists of their orders.
AllocBlock(m, order) ==
  LET o == Source(m, order)
      half(k) == Head(m.free[o]) + 2 ^ o - 2 ^ (k + 1)
  IN IF Sources(m, order) = {} THEN [m EXCEPT !.oom = TRUE]
     ELSE [m EXCEPT
             !.count = @ - 2 ^ order,
             !.free = [k \in Order |-> IF k = o THEN Tail(@[k])
                                       ELSE IF k \in order .. o - 1 THEN <<half(k)>> \o @[k]
                                       ELSE @[k]]]

\* Mutant: the block is freed without a look at its buddy.
CombinedNever(m, b, order) == order

\* The order page_free_block() reaches by combining the block with its buddies.
Combined(m, b, order) ==
  LET ends == {o \in order .. PageOrderMax :
                 o = PageOrderMax \/ Buddy(Base(b, o), o) \notin Range(m.free[o])}
  IN CHOOSE o \in ends : \A k \in ends : o <= k

\* page_free_block()
FreeBlock(m, b, order) ==
  LET top == Combined(m, b, order) IN
  [m EXCEPT
     !.count = @ + 2 ^ order,
     !.free = [k \in Order |->
                 IF k = top THEN <<Base(b, k)>> \o @[k]
                 ELSE IF k \in order .. top - 1 THEN Remove(@[k], Buddy(Base(b, k), k))
                 ELSE @[k]]]

\* A reference to a block is added; the last one that goes frees it.
GetPage(m, b) == [m EXCEPT !.ref[b] = @ + 1]
PutPage(m, b, order) ==
  LET less == [m EXCEPT !.ref[b] = @ - 1]
  IN IF less.ref[b] = 0 THEN FreeBlock(less, b, order) ELSE less
-----------------------------------------------------------------------------
(* page_free_region() at boot, block by block.                              *)

PageInit == pool = EmptyPool /\ released = 0

\* The order of the largest block at p that is aligned and free of the image.
RegionOrder(p) ==
  LET fits == {o \in Order : p % (2 ^ o) = 0 /\ p .. p + 2 ^ o - 1 \subseteq PageNo \ Image}
  IN CHOOSE o \in fits : \A k \in fits : o >= k

FreeRegion ==
  /\ released < PageCount
  /\ \/ released \in Image /\ released' = released + 1 /\ UNCHANGED pool
     \/ /\ released \notin Image
        /\ pool' = FreeBlock(pool, released, RegionOrder(released))
        /\ released' = released + 2 ^ RegionOrder(released)

Booted == released = PageCount
-----------------------------------------------------------------------------
(* The invariant of the allocator.                                          *)

PagesOf(b, o) == b .. b + 2 ^ o - 1
FreeBlocks(o) == Range(pool.free[o])
FreePages == UNION {UNION {PagesOf(b, o) : b \in FreeBlocks(o)} : o \in Order}

\* Free blocks are aligned, none is left next to a free buddy that it could be
\* combined with, and they do not overlap, so that page_free_count counts their
\* pages; a page is either free, without a reference, or one of those in use.
BuddiesAgree(used) ==
  LET pages == FreePages IN
  /\ \A o \in Order : \A b \in FreeBlocks(o) :
       b % (2 ^ o) = 0 /\ (o < PageOrderMax => Buddy(b, o) \notin FreeBlocks(o))
  /\ Cardinality(pages) = MapThenSumSet(LAMBDA o : Len(pool.free[o]) * 2 ^ o, Order)
  /\ pool.count = Cardinality(pages)
  /\ pages \cap used = {} /\ \A p \in pages : pool.ref[p] = 0
  /\ pages \union used = {p \in PageNo \ Image : p < released}
=============================================================================
