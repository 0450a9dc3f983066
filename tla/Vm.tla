---------------------------------- MODULE Vm ----------------------------------
(***************************************************************************)
(* User memory: kernel/mm/vm.c and kernel/process/vmspace.c, on the page     *)
(* allocator and with the page tables of kernel/arch/arm/mm/arch_vm.c.       *)
(*                                                                         *)
(* A step is what the code does with vm_lock held, for one page, together    *)
(* with what concerns only the space itself before and after.  Addresses are *)
(* counted in pages, and one second-level table serves a whole space.        *)
(* page_alloc_one() does not return NULL: it panics.                         *)
(***************************************************************************)
EXTENDS Page

CONSTANTS Space,       \* VMSpace objects
          KernelBase,  \* VIRT_KERNEL_BASE; user pages are 1 .. KernelBase - 1
          Value,       \* what programs store in a page, which is 0 at first
          Requests,    \* what programs map: [addr, n, flags], addr 0 for any
          PgtabOrder,  \* PGTAB_ORDER
          NoPage, NoSpace, Unmapped

ASSUME VmAssumption ==
  /\ KernelBase \in Nat \ {0} /\ PgtabOrder \in Order /\ NoPage \notin PageNo
  /\ NoSpace \notin Space /\ Unmapped \notin Value \union {0}
  /\ Requests \subseteq [addr : Nat, n : Nat, flags : {"rw", "ro"}]

Address == 1 .. KernelBase - 1

VARIABLES
  status,   \* "none", "live", "clone" (being built by fork) or "dying"
  root,     \* vm->pgtab: the first page of its block
  table,    \* the page of the second-level table
  pte,      \* its entries: the page, and "rw", "ro" or "cow"
  areas,    \* vm->areas, in order
  op,       \* what the process is at: the pages it has still to go through
  data,     \* what the pages of user memory hold
  panic     \* panic()

vmVars == <<pool, released, status, root, table, pte, areas, op, data, panic>>

NoPte == [page |-> NoPage, flags |-> "ro"]
Idle == [kind |-> "none", todo |-> <<>>, start |-> 0, n |-> 0, flags |-> "ro", dst |-> NoSpace]

Init ==
  /\ PageInit
  /\ status = [s \in Space |-> "none"]
  /\ root = [s \in Space |-> NoPage]
  /\ table = [s \in Space |-> NoPage]
  /\ pte = [s \in Space |-> [va \in Address |-> NoPte]]
  /\ areas = [s \in Space |-> <<>>]
  /\ op = [s \in Space |-> Idle]
  /\ data = [p \in PageNo |-> 0]
  /\ panic = "none"

Boot == FreeRegion /\ UNCHANGED <<status, root, table, pte, areas, op, data, panic>>
-----------------------------------------------------------------------------
(* One page.  The operators map what a step changes to what it becomes.     *)

World == [pool |-> pool, table |-> table, pte |-> pte, data |-> data]

\* arch_vm_lookup() with alloc: the table is allocated when it is first needed.
Lookup(w, s) ==
  LET t == Taken(w.pool, 0) IN
  IF w.table[s] # NoPage THEN w
  ELSE IF Sources(w.pool, 0) = {} THEN [w EXCEPT !.pool.oom = TRUE]
  ELSE [w EXCEPT !.pool = GetPage(AllocBlock(@, 0), t), !.table[s] = t]

\* vm_page_remove(); what a page holds is forgotten when it is freed, as it is
\* cleared before it is used again.
RemovePage(w, s, va) ==
  LET p == w.pte[s][va].page IN
  IF p = NoPage THEN w
  ELSE [w EXCEPT !.pool = PutPage(@, p, 0),
                 !.pte[s][va] = NoPte,
                 !.data[p] = IF w.pool.ref[p] = 1 THEN 0 ELSE @]

\* Mutant: the previous mapping is overwritten.
InsertPageOver(w, s, p, va, flags) ==
  [Lookup(w, s) EXCEPT !.pool = GetPage(@, p), !.pte[s][va] = [page |-> p, flags |-> flags]]

\* vm_page_insert(): the reference comes before the previous mapping goes.
InsertPage(w, s, p, va, flags) ==
  LET with == [Lookup(w, s) EXCEPT !.pool = GetPage(@, p)]
  IN [RemovePage(with, s, va) EXCEPT !.pte[s][va] = [page |-> p, flags |-> flags]]

\* page_alloc_one(PAGE_ALLOC_ZERO) and vm_page_insert() of the page, holding v.
InsertNew(w, s, va, flags, v) ==
  LET p == Taken(w.pool, 0) IN
  IF Sources(w.pool, 0) = {} THEN [w EXCEPT !.pool.oom = TRUE]
  ELSE InsertPage([w EXCEPT !.pool = AllocBlock(@, 0), !.data[p] = v], s, p, va, flags)

\* Mutant: the copy is not filled.
PageCowBlank(w, s, va) ==
  LET p == w.pte[s][va].page IN
  IF w.pool.ref[p] = 1 THEN InsertPage(w, s, p, va, "rw") ELSE InsertNew(w, s, va, "rw", 0)

\* vm_page_cow()
PageCow(w, s, va) ==
  LET p == w.pte[s][va].page IN
  IF w.pool.ref[p] = 1 THEN InsertPage(w, s, p, va, "rw")
  ELSE InsertNew(w, s, va, "rw", w.data[p])

\* vm_page_lookup_cow()
LookupCow(w, s, va) == IF w.pte[s][va].flags = "cow" THEN PageCow(w, s, va) ELSE w

\* The step ends, or the kernel does.
Become(w) ==
  IF w.pool.oom
  THEN panic' = "out of memory" /\ UNCHANGED <<pool, table, pte, data>>
  ELSE /\ pool' = w.pool
       /\ table' = w.table
       /\ pte' = w.pte
       /\ data' = w.data
       /\ UNCHANGED panic

Runs == Booted /\ panic = "none"

At(s, kind) == Runs /\ op[s].kind = kind
Calls(s) == At(s, "none") /\ status[s] = "live"
-----------------------------------------------------------------------------
(* vmspace_map()                                                            *)

End(a) == a.start + a.length

\* The address that is free from va on; i is the area it was compared with.
FirstFit(as, va, n) ==
  LET fit[i \in 1 .. Len(as) + 1] ==
        IF i = 1 THEN [va |-> va, found |-> FALSE]
        ELSE LET f == fit[i - 1] IN
             IF f.found \/ f.va + n <= as[i - 1].start THEN [f EXCEPT !.found = TRUE]
             ELSE IF f.va < End(as[i - 1]) THEN [f EXCEPT !.va = End(as[i - 1])]
             ELSE f
  IN fit[Len(as) + 1].va

\* Mutant: neighbours are combined whatever their flags are.
WithAreaAnyFlags(as, a) ==
  LET before == SelectSeq(as, LAMBDA x : x.start < a.start)
      after == SelectSeq(as, LAMBDA x : x.start > a.start)
  IN IF before # <<>> /\ End(Last(before)) = a.start
     THEN Front(before) \o <<[Last(before) EXCEPT !.length = @ + a.length]>> \o after
     ELSE before \o <<a>> \o after

\* The rest of vmspace_map(): the areas with a new one, which is combined with
\* the one before it, the one after it, or both.  An area that is combined
\* with the one after it only keeps its length.
WithArea(as, a) ==
  LET before == SelectSeq(as, LAMBDA x : x.start < a.start)
      after == SelectSeq(as, LAMBDA x : x.start > a.start)
      prev == before # <<>> /\ End(Last(before)) = a.start /\ Last(before).flags = a.flags
      next == after # <<>> /\ Head(after).start = End(a) /\ Head(after).flags = a.flags
  IN CASE prev /\ next ->
            Front(before) \o <<[Last(before) EXCEPT !.length = @ + Head(after).length + a.length]>>
                          \o Tail(after)
       [] prev /\ ~next -> Front(before) \o <<[Last(before) EXCEPT !.length = @ + a.length]>> \o after
       [] ~prev /\ next -> before \o <<[Head(after) EXCEPT !.start = a.start]>> \o Tail(after)
       [] OTHER -> before \o <<a>> \o after

\* vm_user_alloc(): one page of what o says, and the area with the last one.
MapPage(s, o) ==
  /\ Become(InsertNew(World, s, Head(o.todo), o.flags, 0))
  /\ IF Len(o.todo) > 1
     THEN op' = [op EXCEPT ![s] = [o EXCEPT !.todo = Tail(@)]] /\ UNCHANGED areas
     ELSE /\ op' = [op EXCEPT ![s] = Idle]
          /\ areas' = [areas EXCEPT ![s] =
               WithArea(@, [start |-> o.start, length |-> o.n, flags |-> o.flags])]
  /\ UNCHANGED <<released, status, root>>

\* vmspace_map(); a failure changes nothing.
Map(s, r) ==
  LET va == FirstFit(areas[s], IF r.addr = 0 THEN 1 ELSE r.addr, r.n) IN
  /\ Calls(s)
  /\ r.n > 0 /\ va + r.n <= KernelBase
  /\ MapPage(s, [Idle EXCEPT !.kind = "map", !.start = va, !.n = r.n, !.flags = r.flags,
                             !.todo = [i \in 1 .. r.n |-> va + i - 1]])

MapMore(s) == At(s, "map") /\ MapPage(s, op[s])
-----------------------------------------------------------------------------
(* Access to memory.                                                        *)

\* A store in user mode; without permission it faults.
UserStore(s, va, v) ==
  /\ Calls(s)
  /\ pte[s][va].page # NoPage /\ pte[s][va].flags = "rw"
  /\ data' = [data EXCEPT ![pte[s][va].page] = v]
  /\ UNCHANGED <<pool, released, status, root, table, pte, areas, op, panic>>

\* vm_handle_fault(), and vm_user_check_buf() for a page.
HandleFault(s, va) ==
  /\ Calls(s)
  /\ pte[s][va].flags = "cow"
  /\ Become(PageCow(World, s, va))
  /\ UNCHANGED <<released, status, root, areas, op>>

\* vm_copy_out() and vm_clear() for a page the caller has found writable.
CopyOut(s, va, v) ==
  LET w == LookupCow(World, s, va) IN
  /\ Calls(s)
  /\ pte[s][va].page # NoPage /\ pte[s][va].flags # "ro"
  /\ Become([w EXCEPT !.data[w.pte[s][va].page] = v])
  /\ UNCHANGED <<released, status, root, areas, op>>
-----------------------------------------------------------------------------
(* Spaces.                                                                  *)

AreaPages(as) ==
  FlattenSeq([i \in DOMAIN as |-> [j \in 1 .. as[i].length |-> as[i].start + j - 1]])

\* vm_space_create() with arch_vm_create()
Created(w) ==
  IF Sources(w.pool, PgtabOrder) = {} THEN [w EXCEPT !.pool.oom = TRUE]
  ELSE [w EXCEPT !.pool = GetPage(AllocBlock(@, PgtabOrder), Taken(@, PgtabOrder))]

NewRoot(d) ==
  root' = [root EXCEPT ![d] = IF Sources(pool, PgtabOrder) = {} THEN NoPage
                              ELSE Taken(pool, PgtabOrder)]

\* exec: a space with nothing in it.
Create(d) ==
  /\ Runs /\ status[d] = "none"
  /\ Become(Created(World))
  /\ NewRoot(d)
  /\ status' = [status EXCEPT ![d] = "live"]
  /\ UNCHANGED <<released, areas, op>>

\* The child runs when there are no pages left to share.
CloneRest(s, d, todo) ==
  /\ status' = [status EXCEPT ![d] = IF todo = <<>> THEN "live" ELSE "clone"]
  /\ op' = [op EXCEPT ![s] = IF todo = <<>> THEN Idle
                             ELSE [Idle EXCEPT !.kind = "clone", !.dst = d, !.todo = todo]]

\* vm_space_clone() for fork: the areas are copied, ...
Clone(s, d) ==
  /\ Calls(s) /\ status[d] = "none"
  /\ Become(Created(World))
  /\ NewRoot(d)
  /\ areas' = [areas EXCEPT ![d] = areas[s]]
  /\ CloneRest(s, d, AreaPages(areas[s]))
  /\ UNCHANGED released

\* ... and the pages are shared, one at a time: vm_user_clone().
SharePage(w, s, d, va) ==
  LET e == w.pte[s][va]
  IN IF e.flags = "rw"
     THEN InsertPage(InsertPage(w, s, e.page, va, "cow"), d, e.page, va, "cow")
     ELSE InsertPage(w, d, e.page, va, e.flags)

ClonePage(s) ==
  /\ At(s, "clone")
  /\ Become(SharePage(World, s, op[s].dst, Head(op[s].todo)))
  /\ CloneRest(s, op[s].dst, Tail(op[s].todo))
  /\ UNCHANGED <<released, root, areas>>

\* vm_space_destroy(): the pages of the areas, ...
FreePage(s, todo) ==
  /\ Become(IF todo = <<>> THEN World ELSE RemovePage(World, s, Head(todo)))
  /\ op' = [op EXCEPT ![s] = [Idle EXCEPT !.kind = "free",
                                          !.todo = IF todo = <<>> THEN <<>> ELSE Tail(todo)]]
  /\ UNCHANGED <<released, root>>

Destroy(s) ==
  /\ Calls(s)
  /\ status' = [status EXCEPT ![s] = "dying"]
  /\ areas' = [areas EXCEPT ![s] = <<>>]
  /\ FreePage(s, AreaPages(areas[s]))

DestroyMore(s) ==
  /\ At(s, "free") /\ op[s].todo # <<>>
  /\ FreePage(s, op[s].todo)
  /\ UNCHANGED <<status, areas>>

\* ... and the tables, which must be empty by then: arch_vm_destroy().
FreeTables(s) ==
  LET without == IF table[s] = NoPage THEN pool ELSE PutPage(pool, table[s], 0) IN
  /\ At(s, "free") /\ op[s].todo = <<>>
  /\ IF \E va \in Address : pte[s][va].page # NoPage
     THEN panic' = "pte still in use" /\ UNCHANGED <<pool, status, root, table, op>>
     ELSE /\ pool' = PutPage(without, root[s], PgtabOrder)
          /\ status' = [status EXCEPT ![s] = "none"]
          /\ root' = [root EXCEPT ![s] = NoPage]
          /\ table' = [table EXCEPT ![s] = NoPage]
          /\ op' = [op EXCEPT ![s] = Idle]
          /\ UNCHANGED panic
  /\ UNCHANGED <<released, pte, areas, data>>

Next ==
  \/ Boot
  \/ \E s \in Space :
       \/ Create(s) \/ Destroy(s) \/ DestroyMore(s) \/ FreeTables(s)
       \/ \E d \in Space \ {s} : Clone(s, d)
       \/ ClonePage(s)
       \/ \E r \in Requests : Map(s, r)
       \/ MapMore(s)
       \/ \E va \in Address :
            \/ HandleFault(s, va)
            \/ \E v \in Value : UserStore(s, va, v) \/ CopyOut(s, va, v)

Spec == Init /\ [][Next]_vmVars
-----------------------------------------------------------------------------
(* Properties.                                                              *)

Entries(p) == {x \in Space \X Address : pte[x[1]][x[2]].page = p}

\* The pages of tables and of user memory.
Used ==
  UNION {PagesOf(root[s], PgtabOrder) : s \in {s \in Space : root[s] # NoPage}}
    \union (({table[s] : s \in Space} \union {pte[s][va].page : s \in Space, va \in Address})
             \ {NoPage})

Fine == panic = "none"

\* The free lists stay those of a buddy allocator through every order of
\* allocations and frees, and no page is lost or in use twice.
PagesAgree == Fine => BuddiesAgree(Used)

\* The reference count of a page of user memory is the number of entries that
\* map it, also while a fork is half done and others fault on the pages.
RefCountsExact ==
  Fine => \A s \in Space : \A va \in Address :
            LET p == pte[s][va].page
            IN p # NoPage => pool.ref[p] = Cardinality(Entries(p))

\* The areas of a space describe what is mapped and how, so that fork copies
\* all of it and exit frees all of it: arch_vm_destroy() finds no entry left,
\* and the only way to panic is to run out of memory.
AreasAgree ==
  /\ panic # "pte still in use"
  /\ \A s \in Space : Calls(s) =>
       /\ \A i \in 1 .. Len(areas[s]) - 1 : End(areas[s][i]) <= areas[s][i + 1].start
       /\ Range(AreaPages(areas[s])) = {va \in Address : pte[s][va].page # NoPage}
       /\ \A a \in Range(areas[s]) : \A va \in a.start .. End(a) - 1 :
            (a.flags = "ro") = (pte[s][va].flags = "ro")

\* Copy-on-write is not visible: the spaces behave as private memories, which
\* fork copies at once.
Seen == [s \in Space |-> [va \in Address |->
           IF status[s] = "live" /\ pte[s][va].page # NoPage
           THEN data[pte[s][va].page] ELSE Unmapped]]

P == INSTANCE PrivateMemory WITH mem <- Seen

MemoryIsPrivate == P!Spec
=============================================================================
