-------------------------------- MODULE Files --------------------------------
(***************************************************************************)
(* Descriptors and open files: kernel/process/fd.c, kernel/fs/file.c and    *)
(* the system calls of kernel/syscall.c that use them, with pipes.          *)
(*                                                                         *)
(* A process has one thread, so that only the files and the pipes, not the  *)
(* descriptor tables, are shared.  A system call is a first step, up to the *)
(* reference it takes, the transfer of bytes, and then the file_put() calls *)
(* that are left to do, each in a step of its own.                          *)
(***************************************************************************)
EXTENDS Pipe

CONSTANTS File,      \* struct File objects of file_cache
          NoFile,    \* NULL
          OPEN_MAX,  \* descriptors of a process
          FirstProc, \* the process that is there at the start
          FlagDesc   \* the descriptors whose flags processes change

ASSUME FilesAssumption ==
  /\ NoFile \notin File
  /\ OPEN_MAX \in Nat \ {0}
  /\ FirstProc \in Proc
  /\ FlagDesc \subseteq 0 .. OPEN_MAX - 1

VARIABLES
  fd,     \* fd[p][n].file and .cloexec
  file,   \* file[f]: the object's fields; live: taken from the cache
  proc,   \* proc[p]: "none", "active", or "exiting" in process_destroy()
  todo    \* todo[p]: what is left of the system call that p is in

vars == <<pipeVars, fd, file, proc, todo>>

Desc == 0 .. OPEN_MAX - 1
NoDesc == [file |-> NoFile, cloexec |-> FALSE]
Unused == [live |-> FALSE, ref_count |-> 0, type |-> "none", pipe |-> NoPipe, mode |-> "none"]

Init ==
  /\ PipeInit
  /\ fd = [p \in Proc |-> [n \in Desc |-> NoDesc]]
  /\ file = [f \in File |-> Unused]
  /\ proc = [p \in Proc |-> IF p = FirstProc THEN "active" ELSE "none"]
  /\ todo = [p \in Proc |-> <<>>]

\* p executes user code.
User(p) == proc[p] = "active" /\ todo[p] = <<>> /\ io[p].op = "none"

ToPut(f) == [do |-> "put", file |-> f]

Then(p, work) == todo' = [todo EXCEPT ![p] = work]

\* file_dup(), k times.
Dup(files, f, k) == [files EXCEPT ![f].ref_count = @ + k]

FreeDesc(p, start) == {n \in Desc : n >= start /\ fd[p][n].file = NoFile}

\* file_alloc() and the fields the caller sets.
Alloc(type, x, mode) ==
  [live |-> TRUE, ref_count |-> 1, type |-> type, pipe |-> x, mode |-> mode]

\* sys_open(): the descriptor table may be full.
SysOpen(p, f) ==
  /\ User(p)
  /\ ~file[f].live
  /\ LET opened == [file EXCEPT ![f] = Alloc("inode", NoPipe, "both")]
         free == FreeDesc(p, 0)
     IN IF free = {}
        THEN file' = opened /\ UNCHANGED fd
        ELSE /\ file' = Dup(opened, f, 1)
             /\ fd' = [fd EXCEPT ![p][Min(free)] = [file |-> f, cloexec |-> FALSE]]
  /\ Then(p, <<ToPut(f)>>)
  /\ UNCHANGED <<pipeVars, proc>>

\* sys_pipe(): when there is no descriptor for the write end, the one for the
\* read end stays.
SysPipe(p, r, w, x) ==
  /\ User(p)
  /\ r # w /\ ~file[r].live /\ ~file[w].live
  /\ ~pipe[x].live
  /\ pipe' = [pipe EXCEPT ![x] = Opened(TRUE)]
  /\ LET free == FreeDesc(p, 0)
         n == Min(free)
         opened == [file EXCEPT ![r] = Alloc("pipe", x, "read"), ![w] = Alloc("pipe", x, "write")]
     IN CASE free = {} -> file' = opened /\ UNCHANGED fd
          [] Cardinality(free) = 1 ->
               /\ file' = Dup(opened, r, 1)
               /\ fd' = [fd EXCEPT ![p][n] = [file |-> r, cloexec |-> FALSE]]
          [] OTHER ->
               LET m == Min(free \ {n}) IN
               /\ file' = Dup(Dup(opened, r, 1), w, 1)
               /\ fd' = [fd EXCEPT ![p][n] = [file |-> r, cloexec |-> FALSE],
                                   ![p][m] = [file |-> w, cloexec |-> FALSE]]
  /\ Then(p, <<ToPut(r), ToPut(w)>>)
  /\ UNCHANGED <<io, proc>>

\* sys_read() and sys_write(): the file is looked up and kept; file_read() and
\* file_write() look at the mode it was opened with.
SysTransfer(p, n, op, buf) ==
  LET f == fd[p][n].file IN
  /\ User(p)
  /\ f # NoFile
  /\ file' = Dup(file, f, 1)
  /\ Then(p, <<ToPut(f)>>)
  /\ IF file[f].type = "pipe" /\ file[f].mode = op
     THEN Call(p, op, file[f].pipe, buf)
     ELSE UNCHANGED io
  /\ UNCHANGED <<pipe, fd, proc>>

\* sys_fcntl(F_DUPFD).
SysDup(p, n, start) ==
  LET f == fd[p][n].file
      free == FreeDesc(p, start)
  IN /\ User(p)
     /\ f # NoFile
     /\ IF free = {}
        THEN file' = Dup(file, f, 1) /\ UNCHANGED fd
        ELSE /\ file' = Dup(file, f, 2)
             /\ fd' = [fd EXCEPT ![p][Min(free)] = [file |-> f, cloexec |-> FALSE]]
     /\ Then(p, <<ToPut(f)>>)
     /\ UNCHANGED <<pipeVars, proc>>

\* sys_fcntl(F_SETFD).
SysSetFlags(p, n, cloexec) ==
  LET f == fd[p][n].file IN
  /\ User(p)
  /\ f # NoFile
  /\ file' = Dup(file, f, 1)
  /\ fd' = [fd EXCEPT ![p][n].cloexec = cloexec]
  /\ Then(p, <<ToPut(f)>>)
  /\ UNCHANGED <<pipeVars, proc>>

\* fd_close().
SysClose(p, n) ==
  /\ User(p)
  /\ fd[p][n].file # NoFile
  /\ Then(p, <<ToPut(fd[p][n].file)>>)
  /\ fd' = [fd EXCEPT ![p][n] = NoDesc]
  /\ UNCHANGED <<pipeVars, file, proc>>

\* Closes the descriptors in ns, in order.
CloseDescs(p, ns) ==
  LET table == [i \in 1 .. OPEN_MAX |->
                  ToPut(IF i - 1 \in ns THEN fd[p][i - 1].file ELSE NoFile)]
  IN
  /\ Then(p, SelectSeq(table, LAMBDA w : w.file # NoFile))
  /\ fd' = [fd EXCEPT ![p] = [n \in Desc |-> IF n \in ns THEN NoDesc ELSE @[n]]]
  /\ UNCHANGED <<pipeVars, file>>

\* fd_close_on_exec().
SysExec(p) ==
  /\ User(p)
  /\ CloseDescs(p, {n \in Desc : fd[p][n].cloexec})
  /\ UNCHANGED proc

\* fd_close_all(), in process_destroy().
SysExit(p) ==
  /\ User(p)
  /\ CloseDescs(p, {n \in Desc : fd[p][n].file # NoFile})
  /\ proc' = [proc EXCEPT ![p] = "exiting"]

\* The end of process_destroy(); the parent frees the process.
Exited(p) ==
  /\ proc[p] = "exiting"
  /\ todo[p] = <<>>
  /\ proc' = [proc EXCEPT ![p] = "none"]
  /\ UNCHANGED <<pipeVars, fd, file, todo>>

\* Mutant: the child's descriptors are not counted.
FdCloneQuiet(p, q) ==
  /\ fd' = [fd EXCEPT ![q] = fd[p]]
  /\ UNCHANGED file

\* fd_clone().
FdClone(p, q) ==
  /\ fd' = [fd EXCEPT ![q] = fd[p]]
  /\ file' = [f \in File |-> [file[f] EXCEPT
       !.ref_count = @ + Cardinality({n \in Desc : fd[p][n].file = f})]]

\* process_copy().
SysFork(p, q) ==
  /\ User(p)
  /\ proc[q] = "none"
  /\ proc' = [proc EXCEPT ![q] = "active"]
  /\ FdClone(p, q)
  /\ UNCHANGED <<pipeVars, todo>>
-----------------------------------------------------------------------------
(* file_put()                                                               *)

Doing(p, do) == todo[p] # <<>> /\ io[p].op = "none" /\ Head(todo[p]).do = do

\* The reference being given back is the last one.
Last(f) == file[f].ref_count = 1

FilePut(p) ==
  LET f == Head(todo[p]).file IN
  /\ Doing(p, "put")
  /\ file' = [file EXCEPT ![f].ref_count = @ - 1]
  /\ Then(p, IF Last(f) THEN <<[do |-> "close", file |-> f]>> \o Tail(todo[p])
             ELSE Tail(todo[p]))
  /\ UNCHANGED <<pipeVars, fd, proc>>

\* Mutant: the ends are tested before this one is marked as closed.
NobodyLeftBefore(x) == ~pipe[x].read_open /\ ~pipe[x].write_open

\* Both ends are closed: this pipe_close() frees the pipe.
NobodyLeft(x) == ~pipe'[x].read_open /\ ~pipe'[x].write_open

\* file_put() calls pipe_close() or fs_close(), with no lock.
Close(p) ==
  LET f == Head(todo[p]).file
      x == file[f].pipe
  IN /\ Doing(p, "close")
     /\ IF file[f].type = "pipe" THEN CloseEnd(x, file[f].mode) ELSE UNCHANGED pipeVars
     /\ Then(p, <<[do |-> IF file[f].type = "pipe" /\ NobodyLeft(x) THEN "free" ELSE "drop",
                   file |-> f]>> \o Tail(todo[p]))
     /\ UNCHANGED <<fd, file, proc>>

\* The pipe and the file go back to their caches.
Drop(p) ==
  LET f == Head(todo[p]).file IN
  /\ Doing(p, "free") \/ Doing(p, "drop")
  /\ IF Head(todo[p]).do = "free" THEN Free(file[f].pipe) ELSE UNCHANGED pipeVars
  /\ file' = [file EXCEPT ![f] = Unused]
  /\ Then(p, Tail(todo[p]))
  /\ UNCHANGED <<fd, proc>>
-----------------------------------------------------------------------------
SysCall(p) ==
  \/ \E f \in File : SysOpen(p, f)
  \/ \E r, w \in File, x \in Pipes : SysPipe(p, r, w, x)
  \/ \E n \in Desc :
       \/ \E op \in {"read", "write"}, buf \in Buffers : SysTransfer(p, n, op, buf)
       \/ \E start \in Desc : SysDup(p, n, start)
       \/ n \in FlagDesc /\ \E cloexec \in BOOLEAN : SysSetFlags(p, n, cloexec)
       \/ SysClose(p, n)
  \/ SysExec(p)
  \/ SysExit(p)
  \/ \E q \in Proc : SysFork(p, q)

Finish(p) == FilePut(p) \/ Close(p) \/ Drop(p) \/ Exited(p)

Next ==
  \E p \in Proc :
    \/ SysCall(p)
    \/ (Transfer(p) \/ Interrupted(p)) /\ UNCHANGED <<fd, file, proc, todo>>
    \/ Finish(p)

Spec == Init /\ [][Next]_vars
-----------------------------------------------------------------------------
(* Properties.                                                              *)

\* Descriptors, files, processes and the work left have the types the code
\* gives them; in particular only files that were found are given back.
TypeOK ==
  /\ fd \in [Proc -> [Desc -> [file : File \union {NoFile}, cloexec : BOOLEAN]]]
  /\ file \in [File -> [live : BOOLEAN, ref_count : Nat, pipe : Pipes \union {NoPipe},
                       type : {"none", "inode", "pipe"},
                       mode : {"none", "both", "read", "write"}]]
  /\ proc \in [Proc -> {"none", "active", "exiting"}]
  /\ \A p \in Proc : todo[p] \in Seq([do : {"put", "close", "free", "drop"}, file : File])

\* The work left to do on f, by all processes.
Left(f, do) ==
  {w \in Proc \X (1 .. OPEN_MAX + 1) :
     w[2] <= Len(todo[w[1]]) /\ todo[w[1]][w[2]] = [do |-> do, file |-> f]}

\* ref_count of a file is the number of references to it: descriptors of all
\* processes and system calls that use it.
RefCountExact ==
  \A f \in File :
    file[f].ref_count = Cardinality({d \in Proc \X Desc : fd[d[1]][d[2]].file = f})
                          + Cardinality(Left(f, "put"))

\* Objects go back to their caches once, when nobody needs them any more.  A
\* file is live exactly while it is referenced or being closed, by one process;
\* the end of a pipe is open while its file is referenced; a pipe is live while
\* one of its files is, nobody is in it after that, and one process frees it.
ObjectsAgree ==
  /\ TypeOK
  /\ \A p \in Proc, n \in Desc : fd[p][n].cloexec => fd[p][n].file # NoFile
  /\ \A f \in File :
       LET closing == {do \in {"close", "free", "drop"} : Left(f, do) # {}} IN
       /\ file[f].live <=> file[f].ref_count > 0 \/ closing # {}
       /\ closing # {} => file[f].ref_count = 0
       /\ file[f].ref_count > 0 =>
            /\ file[f].mode = "read" => pipe[file[f].pipe].live /\ pipe[file[f].pipe].read_open
            /\ file[f].mode = "write" => pipe[file[f].pipe].live /\ pipe[file[f].pipe].write_open
       /\ "free" \in closing => pipe[file[f].pipe].live
  /\ \A p \in Proc : io[p].op # "none" => pipe[io[p].pipe].live
  /\ \A x \in Pipes :
       /\ Cardinality({f \in File : file[f].pipe = x /\ Left(f, "free") # {}}) <= 1
       /\ pipe[x].live =>
            \E f \in File :
              /\ file[f].live /\ file[f].pipe = x
              /\ file[f].ref_count > 0 \/ Left(f, "close") # {} \/ Left(f, "free") # {}
=============================================================================
