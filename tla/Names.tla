------------------------------- MODULE Names -------------------------------
(***************************************************************************)
(* Paths and inodes: the tree of path nodes (fs/path.c), the inode cache    *)
(* (fs/inode.c), the system calls that walk and change them (fs/fs.c,       *)
(* fs/inode.c), and the directory entries, link counts and inode numbers    *)
(* of the ext2 file system below them (fs/ext2.c, fs/ext2_inode_alloc.c).   *)
(*                                                                          *)
(* A process in a system call has in todo[p] the steps it still has to      *)
(* take, the first one first.  A step is what the code does in one section  *)
(* of fs_path_lock or inode_cache.lock, or from k_mutex_lock() to the       *)
(* k_mutex_unlock() of an inode or node that is not kept locked meanwhile.  *)
(* Each step names the references to nodes and inodes that it owns.         *)
(***************************************************************************)
EXTENDS Integers, FiniteSets, Sequences, SequencesExt, FiniteSetsExt

CONSTANTS
  Proc,              \* the processes that make system calls
  NoProc,            \* the owner of a free mutex
  Node,              \* the objects of fs_path_pool
  NoNode,            \* NULL
  Root,              \* fs_root
  INODE_CACHE_SIZE,  \* the entries of inode_cache.buf
  MaxIno,            \* the inodes of the disk: the bound on files
  Names,             \* the names of directory entries
  NoName,            \* the name of an unused path node
  Calls,             \* the system calls made: [sys, from, path, mode]
  LINK_MAX           \* the largest link count (limits.h)

Slot == 1 .. INODE_CACHE_SIZE
Ino == 1 .. MaxIno
RootIno == 1
Modes == {"rw", "r"}
Systems == {"open", "creat", "mkdir", "unlink", "rmdir", "chmod", "chdir"}

ASSUME NamesAssumption ==
  /\ Root \in Node /\ NoNode \notin Node /\ NoProc \notin Proc
  /\ INODE_CACHE_SIZE \in Nat \ {0} /\ MaxIno \in Nat \ {0} /\ LINK_MAX \in Nat
  /\ IsFiniteSet(Proc) /\ IsFiniteSet(Node)
  /\ Calls \subseteq [sys : Systems, from : {"/", "."}, path : Seq(Names), mode : Modes]
  /\ \A call \in Calls : call.path = <<>> =>
       call.from = "/" /\ call.sys \in {"open", "chmod", "chdir"}

VARIABLES
  node,    \* the path nodes
  inode,   \* the inode cache: inode_cache.buf
  cache,   \* the order of the list inode_cache.head
  disk,    \* the inodes on disk
  entry,   \* the entries of each directory: 0 where there is none
  todo,    \* what each process still has to do in its system call
  file,    \* the path node of the file each process has open
  cwd,     \* process->cwd
  panic    \* the kernel has stopped

vars == <<node, inode, cache, disk, entry, todo, file, cwd, panic>>

Step(op, nodes, slots, call, rest) ==
  [op |-> op, nodes |-> nodes, slots |-> slots, call |-> call, rest |-> rest]

NoCall == [sys |-> "none", from |-> "/", path |-> <<>>, mode |-> "rw"]
PutNode(n) == Step("put_node", <<n>>, <<>>, NoCall, <<>>)
PutInode(s) == Step("put_inode", <<>>, <<s>>, NoCall, <<>>)
PutFound(n) == IF n = NoNode THEN <<>> ELSE <<PutNode(n)>>

Blank == [type |-> "free", nlink |-> 0, mode |-> "rw"]
NoEntries == [x \in Names |-> 0]
Fresh == [ref |-> 0, ino |-> 0, valid |-> FALSE, owner |-> NoProc]
Pooled == [live |-> FALSE, ref |-> 0, parent |-> NoNode, name |-> NoName,
           inode |-> 0, kids |-> <<>>, owner |-> NoProc]

(* fs_inode_cache_init(), fs_init() and ext2_mount(): the root directory is *)
(* the only inode in use, and its node is its own parent.  Each process has *)
(* it as its current directory.                                            *)
Init ==
  /\ node = [n \in Node |->
       IF n = Root THEN [Pooled EXCEPT !.live = TRUE, !.ref = 2 + Cardinality(Proc),
                                       !.parent = Root, !.inode = INODE_CACHE_SIZE]
                   ELSE Pooled]
  /\ inode = [s \in Slot |->
       IF s = INODE_CACHE_SIZE THEN [Fresh EXCEPT !.ref = 1, !.ino = RootIno] ELSE Fresh]
  /\ cache = [k \in Slot |-> k]
  /\ disk = [i \in Ino |->
       IF i = RootIno THEN [type |-> "dir", nlink |-> 2, mode |-> "rw"] ELSE Blank]
  /\ entry = [i \in Ino |-> NoEntries]
  /\ todo = [p \in Proc |-> <<>>]
  /\ file = [p \in Proc |-> NoNode]
  /\ cwd = [p \in Proc |-> Root]
  /\ panic = FALSE

-----------------------------------------------------------------------------
(* The inode cache.                                                        *)

Matches(ino) == {s \in Slot : inode[s].ino = ino /\ inode[s].ref > 0}

(* Mutant: the search of the list begins with the second entry.            *)
EmptyButFirst == {k \in DOMAIN cache \ {1} : inode[cache[k]].ref = 0}

Empty == {k \in DOMAIN cache : inode[cache[k]].ref = 0}

(* The entry fs_inode_get() returns: the one in use for the number, or else *)
(* the unused one that is last in the list.                                *)
Chosen(ino) == IF Matches(ino) # {} THEN CHOOSE s \in Matches(ino) : TRUE
               ELSE cache[Max(Empty)]
OutOfInodes(ino) == Matches(ino) = {} /\ Empty = {}

(* The cache with one more reference to the inode with the number.         *)
Got(in, ino) ==
  LET s == Chosen(ino)
  IN IF Matches(ino) # {} THEN [in EXCEPT ![s].ref = @ + 1]
     ELSE [in EXCEPT ![s] = [Fresh EXCEPT !.ref = 1, !.ino = ino]]

Free(s) == inode[s].owner = NoProc

(* fs_path_inode() and fs_inode_lock(): one more reference, and the fields  *)
(* are read from the disk.                                                 *)
Referred(in, s) == [in EXCEPT ![s].ref = @ + 1, ![s].valid = TRUE]

(* The last part of fs_inode_put().                                        *)
Forgotten(s) ==
  /\ inode' = [inode EXCEPT ![s] = IF @.ref = 1 THEN [Fresh EXCEPT !.owner = inode[s].owner]
                                   ELSE [@ EXCEPT !.ref = @ - 1]]
  /\ cache' = IF inode[s].ref = 1 THEN <<s>> \o SelectSeq(cache, LAMBDA t : t # s)
              ELSE cache

-----------------------------------------------------------------------------
(* Steps.                                                                   *)

At(p, op) == ~panic /\ todo[p] # <<>> /\ Head(todo[p]).op = op
Now(p) == Head(todo[p])

(* The process goes on with these steps instead of the one it has done.    *)
Then(p, steps) == todo' = [todo EXCEPT ![p] = steps \o Tail(@)]

(* The second half of fs_inode_put(), after the mutex has been released.   *)
Forget(p) ==
  /\ At(p, "forget")
  /\ Forgotten(Now(p).slots[1])
  /\ Then(p, <<>>)
  /\ UNCHANGED <<node, disk, entry, file, cwd, panic>>

Unlinked(s) == inode[s].valid /\ disk[inode[s].ino].nlink = 0

(* fs_inode_put() of an inode that has links: the count is not read.       *)
PutLinked(p) ==
  LET s == Now(p).slots[1] IN
  /\ At(p, "put_inode") /\ Free(s)
  /\ ~Unlinked(s)
  /\ Forgotten(s)
  /\ Then(p, <<>>)
  /\ UNCHANGED <<node, disk, entry, file, cwd, panic>>

(* Mutant: an inode without links is deleted by whoever returns it.        *)
AnyUser(s) == TRUE

LastUser(s) == inode[s].ref = 1

(* fs_inode_put() of an inode without links: the last user deletes it.     *)
PutUnlinked(p) ==
  LET s == Now(p).slots[1]
      i == inode[s].ino
  IN /\ At(p, "put_inode") /\ Free(s)
     /\ Unlinked(s)
     /\ IF LastUser(s)
        THEN /\ disk' = [disk EXCEPT ![i] = Blank]
             /\ entry' = [entry EXCEPT ![i] = NoEntries]
             /\ inode' = [inode EXCEPT ![s].valid = FALSE]
        ELSE UNCHANGED <<disk, entry, inode>>
     /\ Then(p, <<[Now(p) EXCEPT !.op = "forget"]>>)
     /\ UNCHANGED <<node, cache, file, cwd, panic>>

(* fs_inode_unlock() of a directory kept locked while fs_create() returns   *)
(* the inode that has the name.                                            *)
Unlock(p) ==
  LET s == Now(p).slots[1] IN
  /\ At(p, "unlock")
  /\ inode' = [inode EXCEPT ![s].owner = NoProc]
  /\ Then(p, <<PutInode(s)>>)
  /\ UNCHANGED <<node, cache, disk, entry, file, cwd, panic>>

-----------------------------------------------------------------------------
(* Path nodes.                                                             *)

(* fs_path_node_create(): the new node n is first among its siblings, with  *)
(* a reference for the list and one for the caller.                        *)
Linked(n, x, s, parent) ==
  [node EXCEPT ![n] = [@ EXCEPT !.live = TRUE, !.ref = 2, !.parent = parent,
                                !.name = x, !.inode = s],
               ![parent].ref = @ + 1,
               ![parent].kids = <<n>> \o @]

InPool == {n \in Node : ~node[n].live}

Without(s, n) == SelectSeq(s, LAMBDA m : m # n)

(* fs_path_remove().                                                       *)
Removed(n) ==
  LET q == node[n].parent IN
  IF q = NoNode THEN [node EXCEPT ![n].ref = @ - 1]
  ELSE [node EXCEPT ![q].ref = @ - 1, ![q].kids = Without(@, n),
                    ![n].ref = @ - 1, ![n].parent = NoNode]

(* Mutant: a node that only its parent's list refers to counts as used.    *)
UnusedUnlisted(nd, n) == nd[n].ref < 1

(* The loop of fs_path_put() at node n of nodes nd: an unused node leaves   *)
(* the list of its parent, and its inode is returned before it is freed.   *)
Unused(nd, n) == nd[n].ref < 2 /\ ~(nd[n].ref = 1 /\ nd[n].parent = NoNode)

Dropped(p, nd, n) ==
  IF Unused(nd, n)
  THEN LET q == nd[n].parent
           out == IF q = NoNode THEN nd
                  ELSE [nd EXCEPT ![q].kids = Without(@, n), ![n].ref = @ - 1]
       IN /\ node' = [out EXCEPT ![n].inode = 0]
          /\ Then(p, <<PutInode(nd[n].inode), Step("free", <<n>>, <<>>, NoCall, <<>>)>>)
  ELSE node' = nd /\ Then(p, <<>>)

(* fs_path_put().                                                          *)
Put(p) ==
  LET n == Now(p).nodes[1]
      nd == [node EXCEPT ![n].ref = @ - 1]
  IN /\ At(p, "put_node")
     /\ panic' = (nd[n].ref = 0 /\ nd[n].parent # NoNode)
     /\ Dropped(p, nd, n)
     /\ UNCHANGED <<inode, cache, disk, entry, file, cwd>>

(* The end of the loop's body: the node goes back to the pool, its parent   *)
(* has one reference less and is looked at next.                           *)
FreeNode(p) ==
  LET n == Now(p).nodes[1]
      q == node[n].parent
      nd == [node EXCEPT ![n].live = FALSE, ![n].parent = NoNode, ![n].name = NoName]
  IN /\ At(p, "free")
     /\ IF q = NoNode THEN node' = nd /\ Then(p, <<>>) /\ UNCHANGED panic
        ELSE LET up == [nd EXCEPT ![q].ref = @ - 1]
             IN /\ Dropped(p, up, q)
                /\ panic' = (up[q].ref < 1 /\ up[q].parent # NoNode)
     /\ UNCHANGED <<inode, cache, disk, entry, file, cwd>>

-----------------------------------------------------------------------------
(* fs_path_lookup_at().                                                    *)

(* What a system call does with the node and the parent it has looked up.   *)
(* fs_create() only wants the parent; fs_unlink() and fs_rmdir() want both; *)
(* fs_open(), fs_chmod() and fs_chdir() only the node.                     *)
Found(call, parent, n) ==
  CASE call.sys \in {"create", "mkdir"} ->
         PutFound(n) \o <<Step("create", <<parent>>, <<>>, call, <<>>)>>
    [] call.sys \in {"unlink", "rmdir"} ->
         IF n = NoNode THEN <<PutNode(parent)>>
         ELSE <<Step("lock_two", <<parent, n>>, <<>>, call, <<>>)>>
    [] OTHER ->
         <<PutNode(parent)>> \o
         (IF n # NoNode THEN <<Step(call.sys, <<n>>, <<>>, call, <<>>)>>
          ELSE IF call.sys = "creat"
               THEN <<Step("lookup", <<>>, <<>>, [call EXCEPT !.sys = "create"], <<>>)>>
               ELSE <<>>)

(* Mutant: the parent of the last iteration is not returned.               *)
WalkedKeeping(call, rest, parent, n) ==
  IF rest = <<>> THEN Found(call, parent, n)
  ELSE IF n = NoNode THEN <<PutNode(parent)>>
  ELSE <<Step("walk", <<n>>, <<>>, call, rest)>>

(* The next iteration, or what follows the last one.                       *)
Walked(call, rest, parent, n) ==
  IF rest = <<>> THEN Found(call, parent, n)
  ELSE <<PutNode(parent)>> \o
       (IF n = NoNode THEN <<>> ELSE <<Step("walk", <<n>>, <<>>, call, rest)>>)

(* Where the search for an absolute or for a relative path starts.         *)
Start(p, call) == IF call.from = "/" THEN Root ELSE cwd[p]

(* A system call begins; fs_lookup() does not search for "/".  A process    *)
(* has at most one file open.                                              *)
Call(p, call) ==
  LET n == Start(p, call) IN
  /\ ~panic /\ todo[p] = <<>>
  /\ call.sys \in {"open", "creat"} => file[p] = NoNode
  /\ node' = [node EXCEPT ![n].ref = @ + 1]
  /\ todo' = [todo EXCEPT ![p] = <<Step(IF call.path = <<>> THEN call.sys ELSE "walk",
                                        <<n>>, <<>>, call, call.path)>>]
  /\ UNCHANGED <<inode, cache, disk, entry, file, cwd, panic>>

(* fs_open() searches again when it creates the file.                      *)
Lookup(p) ==
  LET call == Now(p).call
      n == Start(p, call)
  IN
  /\ At(p, "lookup")
  /\ node' = [node EXCEPT ![n].ref = @ + 1]
  /\ Then(p, <<Step("walk", <<n>>, <<>>, call, call.path)>>)
  /\ UNCHANGED <<inode, cache, disk, entry, file, cwd, panic>>

BadReference(n) == node[n].ref = 1 /\ node[n].parent # NoNode

Cached(n, x) == SelectSeq(node[n].kids, LAMBDA c : node[c].name = x)

(* fs_path_lookup_cached() with the node locked: a node in the list is      *)
(* taken at once; otherwise the node stays locked.                         *)
Walk(p) ==
  LET s == Now(p)
      n == s.nodes[1]
      hits == Cached(n, Head(s.rest))
  IN /\ At(p, "walk")
     /\ node[n].owner = NoProc
     /\ panic' = BadReference(n)
     /\ IF hits # <<>>
        THEN /\ node' = [node EXCEPT ![Head(hits)].ref = @ + 1]
             /\ Then(p, Walked(s.call, Tail(s.rest), n, Head(hits)))
        ELSE /\ node' = [node EXCEPT ![n].owner = p]
             /\ Then(p, <<[s EXCEPT !.op = "search"]>>)
     /\ UNCHANGED <<inode, cache, disk, entry, file, cwd>>

(* fs_inode_lookup_locked(): the directory is searched under its mutex, and *)
(* the inode of the entry found is taken from the cache.                   *)
Search(p) ==
  LET s == Now(p)
      d == node[s.nodes[1]].inode
      i == inode[d].ino
      found == entry[i][Head(s.rest)]
  IN /\ At(p, "search") /\ Free(d)
     /\ \/ /\ disk[i].type # "dir"
           /\ inode' = Referred(inode, d)
           /\ Then(p, <<PutInode(d), [s EXCEPT !.op = "fail"]>>)
           /\ UNCHANGED panic
        \/ /\ disk[i].type = "dir" /\ found = 0
           /\ inode' = Referred(inode, d)
           /\ Then(p, <<PutInode(d), [s EXCEPT !.op = "enter"]>>)
           /\ UNCHANGED panic
        \/ /\ disk[i].type = "dir" /\ found # 0
           /\ panic' = OutOfInodes(found)
           /\ inode' = IF panic' THEN inode ELSE Referred(Got(inode, found), d)
           /\ Then(p, IF panic' THEN <<>>
                      ELSE <<PutInode(d), [s EXCEPT !.op = "enter", !.slots = <<Chosen(found)>>]>>)
     /\ UNCHANGED <<node, cache, disk, entry, file, cwd>>

(* The node for what was found is made, and the parent is unlocked.  The    *)
(* pool does not run out: see NeverPanics.                                 *)
Enter(p) ==
  LET s == Now(p)
      q == s.nodes[1]
  IN /\ At(p, "enter")
     /\ panic' = BadReference(q)
     /\ \/ /\ s.slots = <<>>
           /\ node' = [node EXCEPT ![q].owner = NoProc]
           /\ Then(p, Walked(s.call, Tail(s.rest), q, NoNode))
        \/ \E n \in InPool :
             /\ s.slots # <<>>
             /\ node' = [Linked(n, Head(s.rest), s.slots[1], q) EXCEPT ![q].owner = NoProc]
             /\ Then(p, Walked(s.call, Tail(s.rest), q, n))
     /\ UNCHANGED <<inode, cache, disk, entry, file, cwd>>

(* A component of the path is not a directory.                             *)
Fail(p) ==
  LET q == Now(p).nodes[1] IN
  /\ At(p, "fail")
  /\ node' = [node EXCEPT ![q].owner = NoProc]
  /\ panic' = BadReference(q)
  /\ Then(p, <<PutNode(q)>>)
  /\ UNCHANGED <<inode, cache, disk, entry, file, cwd>>

-----------------------------------------------------------------------------
(* fs_open() and fs_close().                                               *)

(* fs_open() with the inode locked.  A directory is not opened for writing; *)
(* a file without S_IWUSR is refused only after the node has been stored in *)
(* the file, so that both fs_open() and file_put() return the node.        *)
Opened(p, n, d) ==
  LET i == inode[d].ino
      writing == Now(p).op # "open"
      refusals == CASE writing /\ disk[i].type = "dir" -> 1
                    [] writing /\ disk[i].type # "dir" /\ disk[i].mode = "r" -> 2
                    [] OTHER -> 0
  IN /\ Then(p, <<PutInode(d)>> \o [k \in 1 .. refusals |-> PutNode(n)])
     /\ file' = IF refusals = 0 THEN [file EXCEPT ![p] = n] ELSE file

(* The file has a node: its inode is locked and looked at.                 *)
Open(p) ==
  LET n == Now(p).nodes[1]
      d == node[n].inode
  IN /\ At(p, "open") \/ At(p, "creat")
     /\ Free(d)
     /\ inode' = Referred(inode, d)
     /\ Opened(p, n, d)
     /\ UNCHANGED <<node, cache, disk, entry, cwd, panic>>

(* The same for the file fs_create() has made, and left locked.            *)
OpenNew(p) ==
  LET n == Now(p).nodes[1]
      d == node[n].inode
  IN /\ At(p, "open_new")
     /\ inode' = [Referred(inode, d) EXCEPT ![d].owner = NoProc]
     /\ Opened(p, n, d)
     /\ UNCHANGED <<node, cache, disk, entry, cwd, panic>>

Close(p) ==
  /\ ~panic /\ todo[p] = <<>> /\ file[p] # NoNode
  /\ todo' = [todo EXCEPT ![p] = <<PutNode(file[p])>>]
  /\ file' = [file EXCEPT ![p] = NoNode]
  /\ UNCHANGED <<node, inode, cache, disk, entry, cwd, panic>>

(* fs_read(), fs_write(), fs_getdents(), fs_fstat() and the other operations *)
(* on an open file: the inode is locked, used and returned.                *)
Use(p) ==
  LET d == node[file[p]].inode IN
  /\ ~panic /\ todo[p] = <<>> /\ file[p] # NoNode
  /\ Free(d)
  /\ inode' = Referred(inode, d)
  /\ todo' = [todo EXCEPT ![p] = <<PutInode(d)>>]
  /\ UNCHANGED <<node, cache, disk, entry, file, cwd, panic>>

(* fs_chmod(): the node is returned before the inode is locked.            *)
Chmod(p) ==
  LET s == Now(p)
      n == s.nodes[1]
      d == node[n].inode
  IN /\ At(p, "chmod")
     /\ inode' = [inode EXCEPT ![d].ref = @ + 1]
     /\ Then(p, <<PutNode(n), Step("change", <<>>, <<d>>, s.call, <<>>)>>)
     /\ UNCHANGED <<node, cache, disk, entry, file, cwd, panic>>

Change(p) ==
  LET d == Now(p).slots[1]
      i == inode[d].ino
  IN /\ At(p, "change") /\ Free(d)
     /\ inode' = [inode EXCEPT ![d].valid = TRUE]
     /\ disk' = [disk EXCEPT ![i].mode = Now(p).call.mode]
     /\ Then(p, <<PutInode(d)>>)
     /\ UNCHANGED <<node, cache, entry, file, cwd, panic>>

(* fs_set_pwd(): only the process itself reads its cwd.  Whichever of the   *)
(* old and the refused directory is not kept is returned.                  *)
Chdir(p) ==
  LET n == Now(p).nodes[1]
      d == node[n].inode
      dir == disk[inode[d].ino].type = "dir"
  IN /\ At(p, "chdir") /\ Free(d)
     /\ inode' = Referred(inode, d)
     /\ cwd' = IF dir THEN [cwd EXCEPT ![p] = n] ELSE cwd
     /\ Then(p, <<PutInode(d), PutNode(IF dir THEN cwd[p] ELSE n)>>)
     /\ UNCHANGED <<node, cache, disk, entry, file, panic>>

Fchdir(p) ==
  /\ ~panic /\ todo[p] = <<>> /\ file[p] # NoNode
  /\ node' = [node EXCEPT ![file[p]].ref = @ + 1]
  /\ todo' = [todo EXCEPT ![p] = <<Step("chdir", <<file[p]>>, <<>>, NoCall, <<>>)>>]
  /\ UNCHANGED <<inode, cache, disk, entry, file, cwd, panic>>

-----------------------------------------------------------------------------
(* fs_create(), with the parent directory looked up.                       *)

(* The number ext2_inode_alloc() returns: the first one that is free.      *)
FreeInos == {i \in Ino : disk[i].type = "free"}

(* The directory i cannot have one more entry.                             *)
Refused(call, i) == FreeInos = {} \/ (call.sys = "mkdir" /\ disk[i].nlink >= LINK_MAX)

(* The disk with the new inode j in the directory i: a new directory counts *)
(* twice as a link to its parent, in ext2_link() and in ext2_mkdir().      *)
Made(call, i, j) ==
  IF call.sys = "mkdir"
  THEN [disk EXCEPT ![j] = [type |-> "dir", nlink |-> 1, mode |-> call.mode],
                    ![i].nlink = @ + 2]
  ELSE [disk EXCEPT ![j] = [type |-> "file", nlink |-> 1, mode |-> call.mode]]

(* What follows fs_inode_create(): the directory is returned.              *)
CreateDone(q, d) == <<PutInode(d), PutNode(q)>>

(* The same with the directory locked until the inode c has been returned. *)
ReturnFirst(c, q, d) ==
  <<PutInode(c), Step("unlock", <<>>, <<d>>, NoCall, <<>>), PutNode(q)>>

(* The directory is locked, and the name is not created.  While an inode    *)
(* that has the name is returned, the directory stays locked.              *)
NotCreated(p) ==
  LET s == Now(p)
      q == s.nodes[1]
      d == node[q].inode
      i == inode[d].ino
      found == entry[i][Last(s.call.path)]
  IN /\ At(p, "create") /\ Free(d)
     /\ \/ /\ disk[i].type # "dir" \/ (found = 0 /\ Refused(s.call, i))
           /\ inode' = Referred(inode, d)
           /\ Then(p, CreateDone(q, d))
           /\ UNCHANGED panic
        \/ /\ disk[i].type = "dir" /\ found # 0
           /\ panic' = OutOfInodes(found)
           /\ inode' = IF panic' THEN inode
                       ELSE [Referred(Got(inode, found), d) EXCEPT ![d].owner = p]
           /\ Then(p, IF panic' THEN <<>>
                      ELSE ReturnFirst(Chosen(found), q, d))
     /\ UNCHANGED <<node, cache, disk, entry, file, cwd>>

(* The inode is made and entered in the directory.  fs_open() gets a node   *)
(* for it, with the inode locked; where no node is wanted the inode is      *)
(* returned.                                                               *)
Create(p) ==
  LET s == Now(p)
      q == s.nodes[1]
      d == node[q].inode
      i == inode[d].ino
      x == Last(s.call.path)
      j == Min(FreeInos)
      c == Chosen(j)
      in == [Referred(Got(inode, j), d) EXCEPT ![c].valid = TRUE]
  IN /\ At(p, "create") /\ Free(d)
     /\ disk[i].type = "dir" /\ entry[i][x] = 0 /\ ~Refused(s.call, i)
     /\ panic' = OutOfInodes(j)
     /\ IF panic' THEN UNCHANGED <<node, inode, disk, entry, todo>>
        ELSE /\ Free(c)
             /\ disk' = Made(s.call, i, j)
             /\ entry' = [entry EXCEPT ![i][x] = j]
             /\ \/ /\ s.call.sys = "mkdir"
                   /\ node' = node
                   /\ inode' = [in EXCEPT ![d].owner = p]
                   /\ Then(p, ReturnFirst(c, q, d))
                \/ \E n \in InPool :
                     /\ s.call.sys = "create"
                     /\ node' = Linked(n, x, c, q)
                     /\ inode' = [in EXCEPT ![c].owner = p]
                     /\ Then(p, CreateDone(q, d) \o <<Step("open_new", <<n>>, <<>>, s.call, <<>>)>>)
     /\ UNCHANGED <<cache, file, cwd>>

-----------------------------------------------------------------------------
(* fs_unlink() and fs_rmdir(), with the node and its parent looked up.     *)

(* fs_inode_lock_two(): the inode with the lower address first.            *)
LockTwo(p) ==
  LET s == Now(p)
      d == node[s.nodes[1]].inode
      t == node[s.nodes[2]].inode
      low == Min({d, t})
  IN /\ At(p, "lock_two") /\ Free(low)
     /\ inode' = [inode EXCEPT ![d].ref = @ + 1, ![t].ref = @ + 1,
                               ![low].owner = p, ![low].valid = TRUE]
     /\ Then(p, <<[s EXCEPT !.op = "unlink", !.slots = <<d, t>>]>>)
     /\ UNCHANGED <<node, cache, disk, entry, file, cwd, panic>>

(* The entry of the directory i that ext2_unlink() removes: the first one   *)
(* with the number.                                                        *)
Entries(i, j) == {x \in Names : entry[i][x] = j}

Removable(call, i, j) ==
  /\ disk[i].type = "dir"
  /\ IF call.sys = "rmdir" THEN disk[j].type = "dir" /\ entry[j] = NoEntries
     ELSE disk[j].type # "dir"
  /\ Entries(i, j) # {}

(* Mutant: the inode of the directory is not returned.                     *)
UnlinkDoneOnce(s) == <<PutInode(s.slots[2]), PutNode(s.nodes[1]), PutNode(s.nodes[2])>>

UnlinkDone(s) == <<PutInode(s.slots[2]), PutInode(s.slots[1]),
                   PutNode(s.nodes[1]), PutNode(s.nodes[2])>>

Unlink(p) ==
  LET s == Now(p)
      d == s.slots[1]
      t == s.slots[2]
      i == inode[d].ino
      j == inode[t].ino
      x == CHOOSE y \in Entries(i, j) : TRUE
  IN /\ At(p, "unlink") /\ Free(Max({d, t}))
     /\ inode' = [inode EXCEPT ![Min({d, t})].owner = NoProc, ![Max({d, t})].valid = TRUE]
     /\ Then(p, UnlinkDone(s))
     /\ \/ /\ ~Removable(s.call, i, j)
           /\ UNCHANGED <<node, disk, entry>>
        \/ /\ Removable(s.call, i, j)
           /\ entry' = [entry EXCEPT ![i][x] = 0]
           /\ disk' = [disk EXCEPT ![j].nlink = @ - 1,
                                   ![i].nlink = IF s.call.sys = "rmdir" THEN @ - 1 ELSE @]
           /\ node' = Removed(s.nodes[2])
     /\ UNCHANGED <<cache, file, cwd, panic>>

-----------------------------------------------------------------------------
Next ==
  \E p \in Proc :
    \/ \E call \in Calls : Call(p, call)
    \/ Close(p)
    \/ Lookup(p) \/ Walk(p) \/ Search(p) \/ Enter(p) \/ Fail(p)
    \/ Open(p) \/ OpenNew(p) \/ Chmod(p) \/ Change(p)
    \/ Use(p) \/ Chdir(p) \/ Fchdir(p)
    \/ NotCreated(p) \/ Create(p) \/ LockTwo(p) \/ Unlink(p)
    \/ Put(p) \/ FreeNode(p)
    \/ PutLinked(p) \/ PutUnlinked(p) \/ Forget(p) \/ Unlock(p)

Spec == Init /\ [][Next]_vars

-----------------------------------------------------------------------------
(* Properties.                                                             *)

TypeOK ==
  /\ node \in [Node -> [live : BOOLEAN, ref : Nat, parent : Node \cup {NoNode},
                        name : Names \cup {NoName}, inode : Slot \cup {0},
                        kids : Seq(Node), owner : Proc \cup {NoProc}]]
  /\ inode \in [Slot -> [ref : Nat, ino : Ino \cup {0}, valid : BOOLEAN,
                         owner : Proc \cup {NoProc}]]
  /\ Len(cache) = INODE_CACHE_SIZE /\ ToSet(cache) = Slot
  /\ disk \in [Ino -> [type : {"free", "dir", "file"}, nlink : Nat, mode : Modes]]
  /\ entry \in [Ino -> [Names -> Ino \cup {0}]]
  /\ file \in [Proc -> Node \cup {NoNode}] /\ cwd \in [Proc -> Node]
  /\ panic \in BOOLEAN

(* The steps that own a reference to a node, other than the one being       *)
(* freed, or to an inode.  None owns two references to one.                *)
NodeOwners(n) ==
  UNION {{<<p, k>> : k \in {i \in DOMAIN todo[p] : todo[p][i].op # "free"
                                                   /\ n \in ToSet(todo[p][i].nodes)}} : p \in Proc}
InodeOwners(s) ==
  UNION {{<<p, k>> : k \in {i \in DOMAIN todo[p] : s \in ToSet(todo[p][i].slots)}} : p \in Proc}

(* The tree of path nodes stays exact whatever calls overlap.  A node in a  *)
(* list names its parent, which is live; a node in the pool is as its       *)
(* constructor left it; and the reference count of a node counts the steps  *)
(* under way, the open files and the current directories that hold it, its  *)
(* children, and the list of its parent (fs_root and the root's own parent  *)
(* pointer are two more).  A count too high keeps nodes and their inodes    *)
(* for ever, one too low frees a node in use (path.c: fs_path_put() frees   *)
(* below two).                                                             *)
TreeAgrees ==
  /\ TypeOK
  /\ \A n \in Node : node[n].live /\ node[n].parent # NoNode => node[node[n].parent].live
  /\ \A n \in Node : \A c \in ToSet(node[n].kids) : node[c].live /\ node[c].parent = n
  /\ \A n \in InPool : node[n] = Pooled
  /\ \A n \in Node :
       node[n].ref =
         Cardinality(NodeOwners(n)) + Cardinality({p \in Proc : file[p] = n})
         + Cardinality({c \in Node \ {Root} : node[c].live /\ node[c].parent = n})
         + (IF \E q \in Node : n \in ToSet(node[q].kids) THEN 1 ELSE 0)
         + Cardinality({p \in Proc : cwd[p] = n}) + (IF n = Root THEN 2 ELSE 0)

(* Inode counts are exact too: the path nodes that name the inode and the   *)
(* steps under way that hold it (inode.c: fs_inode_put() deletes the file   *)
(* when it reads a count of one).                                          *)
InodeCountsExact ==
  \A s \in Slot :
    inode[s].ref = Cardinality({n \in Node : node[n].live /\ node[n].inode = s})
                   + Cardinality(InodeOwners(s))

(* No file in use is deleted under its user, and no number is used again    *)
(* for another file while it is: the nodes of open files, of processes on   *)
(* their way and of the cached tree all have an inode on the disk, entries  *)
(* of directories never name a free inode or one without links, and two     *)
(* entries of the inode cache in use never stand for one number.  The last  *)
(* check and the release of the reference are two steps in fs_inode_put(). *)
FilesAreKept ==
  /\ \A i \in Ino, x \in Names : entry[i][x] # 0 =>
       disk[i].type = "dir" /\ disk[entry[i][x]].type # "free" /\ disk[entry[i][x]].nlink > 0
  /\ \A n \in Node : node[n].live /\ node[n].inode # 0 =>
       disk[inode[node[n].inode].ino].type # "free"
  /\ \A p \in Proc : \A k \in DOMAIN todo[p] : \A j \in DOMAIN todo[p][k].slots :
       todo[p][k].op # "forget" => disk[inode[todo[p][k].slots[j]].ino].type # "free"
  /\ \A s, t \in Slot : s # t /\ inode[s].ref > 0 /\ inode[t].ref > 0 =>
       inode[s].ino # inode[t].ino

(* None of the checks that stop the kernel fires: "path in bad state", "bad *)
(* path node reference", "out of inodes" and the assertion of fs_path_put();*)
(* and k_object_pool_get(), which panics when memory runs out, always finds *)
(* one of the few nodes there are, so that the bound on them hides nothing. *)
WantsNode(p) == \/ At(p, "enter") /\ Now(p).slots # <<>>
                \/ At(p, "create") /\ Now(p).call.sys = "create" /\ FreeInos # {}
NeverPanics == ~panic /\ \A p \in Proc : WantsNode(p) => InPool # {}

Idle == \A p \in Proc : todo[p] = <<>> /\ file[p] = NoNode /\ cwd[p] = Root

(* Once nobody is in a system call, no file is open and everybody is in the *)
(* root directory, the tree is back to the root: no other node and no other *)
(* entry of the inode cache is left.                                       *)
NothingLeaks ==
  Idle =>
    /\ \A n \in Node \ {Root} : ~node[n].live
    /\ \A s \in Slot : inode[s].ref > 0 => inode[s].ino = RootIno

-----------------------------------------------------------------------------
(* What the code does not keep.  TLC refutes each of these (see README).   *)

(* inode.c: "If the link count reaches zero, delete inode from the          *)
(* filesystem before returning it to the cache".                           *)
UnlinkedAreDeleted ==
  Idle => \A i \in Ino \ {RootIno} : disk[i].type # "free" => disk[i].nlink > 0

(* An inode with links has an entry: no file is made in a directory that    *)
(* has been removed.                                                       *)
LinkedAreNamed ==
  Idle => \A j \in Ino \ {RootIno} : disk[j].nlink > 0 => \E i \in Ino : Entries(i, j) # {}

(* A directory's list has one node for a name.                             *)
OneNodePerName ==
  \A n \in Node, x \in Names : Len(Cached(n, x)) <= 1

(* inode.c: "Always lock inodes in a specific order to avoid deadlocks":    *)
(* somebody in a system call can always go on.                             *)
Waits(p) ==
  LET s == Now(p) IN
  CASE s.op = "walk" -> node[s.nodes[1]].owner # NoProc
    [] s.op \in {"search", "open", "creat", "create", "chdir"} -> ~Free(node[s.nodes[1]].inode)
    [] s.op = "lock_two" -> ~Free(Min({node[s.nodes[1]].inode, node[s.nodes[2]].inode}))
    [] s.op = "unlink" -> ~Free(Max({s.slots[1], s.slots[2]}))
    [] s.op \in {"put_inode", "change"} -> ~Free(s.slots[1])
    [] OTHER -> FALSE
NoCircularWait ==
  LET busy == {p \in Proc : todo[p] # <<>>}
  IN busy # {} => \E p \in busy : ~Waits(p)

=============================================================================
