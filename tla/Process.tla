------------------------------ MODULE Process ------------------------------
(***************************************************************************)
(* Processes and signals: kernel/process/process.c, kernel/process/signal.c *)
(* and the way back to user mode in kernel/arch/arm/arch_trap.c.            *)
(*                                                                         *)
(* A step is what a process does between taking and releasing               *)
(* __process_lock, which protects everything here.  All process threads     *)
(* have the same priority, so that waking one does not end the step.        *)
(* Memory, descriptors and directories of a process are left out, and so    *)
(* are process groups.                                                      *)
(***************************************************************************)
EXTENDS Lists

CONSTANTS Proc,       \* struct Process objects of process_cache
          InitProc,   \* init_process
          Shell,      \* the child that init starts
          NoProc,     \* NULL
          Signal,     \* the signals that occur, among SIGKILL, SIGSTOP, ...
          Sent,       \* those that processes send
          Caught,     \* those that processes set actions for
          Action,     \* the actions they set
          Masks,      \* the signal masks they set
          SaMask,     \* sa_mask: what a handler adds to the mask
          WaitCalls,  \* how they wait: <<for one child, with WNOHANG>>
          NoCldStop,  \* the processes with SA_NOCLDSTOP
          Recycle     \* whether process_cache hands out an object again

ASSUME ProcessAssumption ==
  /\ Proc \subseteq Nat /\ {InitProc, Shell} \subseteq Proc
  /\ InitProc # Shell /\ NoProc \notin Proc
  /\ Signal \subseteq {"KILL", "STOP", "CONT", "CHLD", "TERM"} /\ "CHLD" \in Signal
  /\ Sent \subseteq Signal /\ Caught \subseteq Signal \ {"KILL", "STOP"}
  /\ Action \subseteq {"default", "ignore", "catch", "once"}
  /\ \A m \in Masks \union {SaMask} : m \subseteq Signal
  /\ WaitCalls \subseteq BOOLEAN \X BOOLEAN /\ <<FALSE, FALSE>> \in WaitCalls
  /\ NoCldStop \subseteq Proc /\ Recycle \in BOOLEAN

VARIABLES
  state,     \* process->state; "none" and "gone" in the cache
  parent,    \* process->parent
  children,  \* process->children, in order
  sigq,      \* process->signal_queue; held: signal_pending[] refers to it
  mask,      \* process->signal_mask
  action,    \* process->signal_actions
  pc,        \* where the process's thread is
  call,      \* the arguments of the system call it is in
  panic      \* panic() has stopped the kernel

vars == <<state, parent, children, sigq, mask, action, pc, call, panic>>

\* "user": in user mode.  "return": on the way to it.  "wait", "waiting": in
\* process_wait(), awake and asleep.  "suspend", "pausing", "resume": in
\* signal_suspend(), before, in and after the sleep.  "leave": about to leave the
\* kernel after a stop signal.  "stopped": the thread is suspended.  "exit",
\* "dead": before and after process_destroy().
Place == {"none", "user", "return", "wait", "waiting", "suspend", "pausing",
          "resume", "leave", "stopped", "exit", "dead"}

NoCall == [child |-> NoProc, nohang |-> FALSE, mask |-> {}]

\* init has called fork() once and goes on to wait for children.
Init ==
  /\ state = [p \in Proc |-> IF p \in {InitProc, Shell} THEN "active" ELSE "none"]
  /\ parent = [p \in Proc |-> IF p = Shell THEN InitProc ELSE NoProc]
  /\ children = [p \in Proc |-> IF p = InitProc THEN <<Shell>> ELSE <<>>]
  /\ sigq = [p \in Proc |-> <<>>]
  /\ mask = [p \in Proc |-> {}]
  /\ action = [p \in Proc |-> [s \in Signal |-> "default"]]
  /\ pc = [p \in Proc |-> IF p \in {InitProc, Shell} THEN "user" ELSE "none"]
  /\ call = [p \in Proc |-> NoCall]
  /\ panic = FALSE

\* p is linked on __process_list.
Listed(p) == state[p] \in {"active", "stopped", "zombie"}
-----------------------------------------------------------------------------
(* Generating signals.  The operators take and return what a signal can     *)
(* change, as generating one may go on to signal the parent.                *)

World == [state |-> state, sigq |-> sigq, pc |-> pc]

\* k_thread_interrupt(): only a sleep ends; process_wait() looks again.
Interrupt(w, p) ==
  [w EXCEPT !.pc[p] = CASE @ = "waiting" -> "wait"
                        [] @ = "pausing" -> "resume"
                        [] OTHER -> @]

\* k_waitqueue_wakeup_all() on the wait_queue of p.
WakeupWaiter(w, p) == [w EXCEPT !.pc[p] = IF @ = "waiting" THEN "wait" ELSE @]

\* The signal that signal_pending[] refers to.
Held(s) == [signo |-> s, held |-> TRUE]

Pending(w, p, s) == Held(s) \in Range(w.sigq[p])

\* signal_discard()
Discard(w, p, s) == [w EXCEPT !.sigq[p] = Remove(@, Held(s))]

\* signal_is_ignored()
Ignored(p, s) ==
  action[p][s] = "ignore" \/ (action[p][s] = "default" /\ s = "CHLD")

\* signal_is_blocked()
Blocked(p, s) == s \notin {"KILL", "STOP"} /\ s \in mask[p]

\* The end of signal_generate_one(): a signal that is not ignored is queued.
Queue(w, p, s) ==
  LET queued == [w EXCEPT !.sigq[p] = Append(@, Held(s))]
  IN IF Ignored(p, s) THEN w
     ELSE IF Blocked(p, s) THEN queued
     ELSE Interrupt(queued, p)

\* Mutant: SIGCHLD is taken to wake up process_wait().
NotifySignalOnly(w, p) ==
  LET q == parent[p] IN
  IF q = NoProc \/ (w.state[p] # "zombie" /\ q \in NoCldStop) THEN w
  ELSE IF Pending(w, q, "CHLD") THEN w ELSE Queue(w, q, "CHLD")

\* _signal_state_change_to_parent()
Notify(w, p) ==
  LET q == parent[p] IN
  IF q = NoProc \/ (w.state[p] # "zombie" /\ q \in NoCldStop) THEN w
  ELSE WakeupWaiter(IF Pending(w, q, "CHLD") THEN w ELSE Queue(w, q, "CHLD"), q)

\* _process_continue()
Continue(w, p) ==
  IF w.state[p] # "stopped" THEN w
  ELSE Notify(Interrupt([w EXCEPT !.state[p] = "active"], p), p)

\* Mutant: SIGCONT leaves stop signals pending.
GenerateKeeps(w, p, s) ==
  IF Pending(w, p, s) THEN w
  ELSE Queue(CASE s = "STOP" -> Discard(w, p, "CONT")
               [] s = "CONT" -> Continue(w, p)
               [] OTHER -> w, p, s)

\* signal_generate_one()
Generate(w, p, s) ==
  IF Pending(w, p, s) THEN w
  ELSE Queue(CASE s = "STOP" -> Discard(w, p, "CONT")
               [] s = "CONT" -> Continue(Discard(w, p, "STOP"), p)
               [] OTHER -> w, p, s)

\* The world becomes w, and the thread of p goes to place.
Become(w, p, place) ==
  /\ state' = w.state
  /\ sigq' = w.sigq
  /\ pc' = [w.pc EXCEPT ![p] = place]
-----------------------------------------------------------------------------
(* System calls and traps.                                                  *)

User(p) == ~panic /\ pc[p] = "user"

\* A trap without consequences here: the timer, or another system call.
Trap(p) ==
  /\ User(p)
  /\ pc' = [pc EXCEPT ![p] = "return"]
  /\ UNCHANGED <<state, parent, children, sigq, mask, action, call, panic>>

\* process_copy().  signal_clone() clears signal_pending[], not signal_queue,
\* which only the constructor of the cache initialises.
Fork(p, q) ==
  /\ User(p)
  /\ state[q] = "none" /\ \A r \in Proc : state[r] = "none" => q <= r
  /\ state' = [state EXCEPT ![q] = "active"]
  /\ parent' = [parent EXCEPT ![q] = p]
  /\ children' = [children EXCEPT ![q] = <<>>, ![p] = Append(@, q)]
  /\ sigq' = [sigq EXCEPT ![q] = [i \in DOMAIN @ |-> [@[i] EXCEPT !.held = FALSE]]]
  /\ mask' = [mask EXCEPT ![q] = mask[p]]
  /\ action' = [action EXCEPT ![q] = action[p]]
  /\ pc' = [pc EXCEPT ![p] = "return", ![q] = "user"]
  /\ UNCHANGED <<call, panic>>

\* sys_kill(): signal_generate() for one process.
Kill(p, q, s) ==
  /\ User(p)
  /\ Listed(q)
  /\ Become(Generate(World, q, s), p, "return")
  /\ UNCHANGED <<parent, children, mask, action, call, panic>>

\* signal_action_change(): ignored signals do not stay pending.
SetAction(p, s, a) ==
  /\ User(p)
  /\ action' = [action EXCEPT ![p][s] = a]
  /\ Become(IF a = "ignore" \/ (a = "default" /\ s = "CHLD")
            THEN Discard(World, p, s) ELSE World, p, "return")
  /\ UNCHANGED <<parent, children, mask, call, panic>>

\* signal_mask_change(), and signal_return() with the mask of a frame.
SetMask(p, m) ==
  /\ User(p)
  /\ mask' = [mask EXCEPT ![p] = m \ {"KILL"}]
  /\ pc' = [pc EXCEPT ![p] = "return"]
  /\ UNCHANGED <<state, parent, children, sigq, action, call, panic>>

\* The entry of process_wait(), for one child or for any (NoProc).
SysWait(p, child, nohang) ==
  /\ User(p)
  /\ call' = [call EXCEPT ![p] = [NoCall EXCEPT !.child = child, !.nohang = nohang]]
  /\ pc' = [pc EXCEPT ![p] = "wait"]
  /\ UNCHANGED <<state, parent, children, sigq, mask, action, panic>>

SysSuspend(p, m) ==
  /\ User(p)
  /\ call' = [call EXCEPT ![p] = [NoCall EXCEPT !.mask = m]]
  /\ pc' = [pc EXCEPT ![p] = "suspend"]
  /\ UNCHANGED <<state, parent, children, sigq, mask, action, panic>>

SysExit(p) ==
  /\ User(p)
  /\ pc' = [pc EXCEPT ![p] = "exit"]
  /\ UNCHANGED <<state, parent, children, sigq, mask, action, call, panic>>
-----------------------------------------------------------------------------
(* Inside the kernel.                                                       *)

Kernel(p, place) == ~panic /\ pc[p] = place

Freed == IF Recycle THEN "none" ELSE "gone"

\* The children process_wait() looks at.
Matches(p) == {c \in Range(children[p]) : call[p].child \in {NoProc, c}}

\* Mutant: only the last child is looked at.
AvailableLast(p) ==
  {c \in Matches(p) : state[c] = "zombie" /\ c = children[p][Len(children[p])]}

\* Those it can free: only zombies ever have PROCESS_STATUS_AVAILABLE.
Available(p) == {c \in Matches(p) : state[c] = "zombie"}

\* process_wait() finds a zombie, the first one, and frees it, ...
Reap(p) ==
  /\ Kernel(p, "wait")
  /\ \E c \in Available(p) :
     /\ \E k \in DOMAIN children[p] :
          children[p][k] = c /\ \A j \in 1 .. k - 1 : children[p][j] \notin Available(p)
     /\ children' = [children EXCEPT ![p] = Remove(@, c)]
     /\ state' = [state EXCEPT ![c] = Freed]
     /\ pc' = [pc EXCEPT ![p] = "return", ![c] = "none"]
  /\ call' = [call EXCEPT ![p] = NoCall]
  /\ UNCHANGED <<parent, sigq, mask, action, panic>>

\* ... has nothing to wait for, or sleeps.
WaitSleep(p) ==
  /\ Kernel(p, "wait")
  /\ Available(p) = {}
  /\ \/ /\ Matches(p) = {} \/ call[p].nohang
        /\ pc' = [pc EXCEPT ![p] = "return"]
        /\ call' = [call EXCEPT ![p] = NoCall]
     \/ /\ Matches(p) # {} /\ ~call[p].nohang
        /\ pc' = [pc EXCEPT ![p] = "waiting"]
        /\ UNCHANGED call
  /\ UNCHANGED <<state, parent, children, sigq, mask, action, panic>>

\* signal_suspend() up to the sleep; call keeps the mask to restore.
Suspend(p) ==
  /\ Kernel(p, "suspend")
  /\ mask' = [mask EXCEPT ![p] = call[p].mask \ {"KILL"}]
  /\ call' = [call EXCEPT ![p].mask = mask[p]]
  /\ pc' = [pc EXCEPT ![p] = "pausing"]
  /\ UNCHANGED <<state, parent, children, sigq, action, panic>>

Resume(p) ==
  /\ Kernel(p, "resume")
  /\ mask' = [mask EXCEPT ![p] = call[p].mask]
  /\ call' = [call EXCEPT ![p] = NoCall]
  /\ pc' = [pc EXCEPT ![p] = "return"]
  /\ UNCHANGED <<state, parent, children, sigq, action, panic>>

\* Mutant: only the living children are moved to init.
DestroyLiving(p) ==
  /\ Kernel(p, "exit")
  /\ LET living == SelectSeq(children[p], LAMBDA c : state[c] # "zombie") IN
     /\ parent' = [c \in Proc |-> IF c \in Range(living) THEN InitProc ELSE parent[c]]
     /\ children' = [children EXCEPT ![p] = <<>>, ![InitProc] = @ \o living]
  /\ Become(Notify([World EXCEPT !.state[p] = "zombie"], p), p, "dead")
  /\ UNCHANGED <<mask, action, call, panic>>

\* process_destroy(): init gets the children and is woken for zombies.
Destroy(p) ==
  /\ Kernel(p, "exit")
  /\ parent' = [c \in Proc |-> IF c \in Range(children[p]) THEN InitProc ELSE parent[c]]
  /\ children' = [children EXCEPT ![p] = <<>>, ![InitProc] = @ \o children[p]]
  /\ LET w == [World EXCEPT !.state[p] = "zombie"]
         adopted == IF \E c \in Range(children[p]) : state[c] = "zombie"
                    THEN WakeupWaiter(w, InitProc) ELSE w
     IN Become(Notify(adopted, p), p, "dead")
  /\ UNCHANGED <<mask, action, call, panic>>

\* The signals that signal_dequeue() would take, by their places in the queue.
Candidates(p) ==
  {i \in DOMAIN sigq[p] :
     /\ ~Blocked(p, sigq[p][i].signo)
     /\ state[p] = "stopped" => sigq[p][i].signo \in {"KILL", "CONT"}}

\* The first one is taken; 0 if there is none.
Deliverable(p) ==
  IF Candidates(p) = {} THEN 0
  ELSE CHOOSE i \in Candidates(p) : \A j \in Candidates(p) : i <= j

\* Takes it off the queue; signal_pending[] forgets the signal.
Dequeue(w, p, i) ==
  LET s == w.sigq[p][i].signo IN
  [w EXCEPT !.sigq[p] = [j \in DOMAIN RemoveAt(@, i) |->
     IF RemoveAt(@, i)[j].signo = s THEN [signo |-> s, held |-> FALSE]
     ELSE RemoveAt(@, i)[j]]]

\* Mutant: the state is not looked at again.
LeaveUnchecked(p) ==
  /\ Kernel(p, "leave")
  /\ pc' = [pc EXCEPT ![p] = "user"]
  /\ UNCHANGED <<state, parent, children, sigq, mask, action, call, panic>>

\* The end of trap_handle(): user mode, or k_thread_suspend() when the process
\* is still stopped.
Leave(p) ==
  /\ Kernel(p, "leave")
  /\ pc' = [pc EXCEPT ![p] = IF state[p] = "active" THEN "user" ELSE "stopped"]
  /\ UNCHANGED <<state, parent, children, sigq, mask, action, call, panic>>

\* signal_deliver_pending() with nothing to deliver.
DeliverNone(p) ==
  /\ Kernel(p, "return")
  /\ Deliverable(p) = 0
  /\ Become(World, p, "user")
  /\ UNCHANGED <<parent, children, mask, action, call, panic>>

\* signal_action_default() for the signals that end or stop the process, and
\* the one that has no effect any more; others should not be delivered.
DeliverDefault(p) ==
  LET i == Deliverable(p)
      s == sigq[p][i].signo
      w == Dequeue(World, p, i)
      stopped == IF w.state[p] = "stopped" THEN w
                 ELSE Notify([w EXCEPT !.state[p] = "stopped"], p)
  IN /\ Kernel(p, "return")
     /\ i # 0 /\ action[p][s] = "default"
     /\ CASE s \in {"KILL", "TERM"} -> Become(w, p, "exit")
          [] s = "STOP" -> Become(stopped, p, "leave")
          [] OTHER -> Become(w, p, "user")
     /\ panic' = (s = "CHLD" \/ (s = "CONT" /\ state[p] = "stopped"))
     /\ UNCHANGED <<parent, children, mask, action, call>>

\* signal_action_custom(); the frame may not fit on the user's stack.  A signal
\* that is ignored should not be delivered.
DeliverCustom(p) ==
  LET i == Deliverable(p)
      s == sigq[p][i].signo
      w == Dequeue(World, p, i)
  IN /\ Kernel(p, "return")
     /\ i # 0 /\ action[p][s] # "default"
     /\ \/ Become(w, p, "exit") /\ UNCHANGED <<mask, action>>
        \/ /\ Become(w, p, "user")
           /\ mask' = [mask EXCEPT ![p] = @ \union SaMask]
           /\ action' = [action EXCEPT ![p][s] = IF @ = "once" THEN "default" ELSE @]
     /\ panic' = (action[p][s] = "ignore")
     /\ UNCHANGED <<parent, children, call>>
-----------------------------------------------------------------------------
\* What a program may do.
Program(p) ==
  \/ \E q \in Proc : Fork(p, q)
  \/ \E child \in Range(children[p]) \union {NoProc}, nohang \in BOOLEAN :
       <<child # NoProc, nohang>> \in WaitCalls /\ SysWait(p, child, nohang)
  \/ \E q \in Proc \ {InitProc}, s \in Sent : Kill(p, q, s)
  \/ \E s \in Caught, a \in Action : SetAction(p, s, a)
  \/ \E m \in Masks : SetMask(p, m) \/ SysSuspend(p, m)
  \/ SysExit(p)

\* init: for (;;) wait(NULL).
InitProgram == SysWait(InitProc, NoProc, FALSE)

System(p) ==
  \/ p # InitProc /\ Trap(p)
  \/ Reap(p) \/ WaitSleep(p) \/ Suspend(p) \/ Resume(p) \/ Destroy(p)
  \/ DeliverNone(p) \/ DeliverDefault(p) \/ DeliverCustom(p) \/ Leave(p)

Next ==
  \/ InitProgram
  \/ \E p \in Proc \ {InitProc} : Program(p)
  \/ \E p \in Proc : System(p)

Spec == Init /\ [][Next]_vars

\* Fairness: threads get on with what they do in the kernel, the timer keeps
\* interrupting user mode, and init keeps waiting for children.
FairSpec ==
  /\ Spec
  /\ \A p \in Proc : WF_vars(System(p))
  /\ WF_vars(InitProgram)
-----------------------------------------------------------------------------
(* Properties.                                                              *)

\* Everything has the type the code gives it; a thread is over when its process
\* is a zombie, and zombies have no children left.
TypeOK ==
  /\ state \in [Proc -> {"none", "gone", "active", "stopped", "zombie"}]
  /\ parent \in [Proc -> Proc \union {NoProc}]
  /\ children \in [Proc -> Seq(Proc)]
  /\ sigq \in [Proc -> Seq([signo : Signal, held : BOOLEAN])]
  /\ mask \in [Proc -> SUBSET Signal]
  /\ action \in [Proc -> [Signal -> {"default", "ignore", "catch", "once"}]]
  /\ pc \in [Proc -> Place]
  /\ call \in [Proc -> [child : Proc \union {NoProc}, nohang : BOOLEAN,
                        mask : SUBSET Signal]]
  /\ panic \in BOOLEAN
  /\ \A p \in Proc : /\ state[p] = "zombie" <=> pc[p] = "dead"
                     /\ state[p] = "zombie" => children[p] = <<>>

\* The family tree survives exits, adoptions and waits in any order: every
\* process but init is a child of its parent once and of nobody else, the
\* parent is not dead, and a freed process is nobody's child.
FamilyAgrees ==
  /\ TypeOK
  /\ \A p \in Proc :
       /\ Listed(p) /\ p # InitProc =>
            parent[p] \in Proc /\ state[parent[p]] \in {"active", "stopped"}
       /\ IsInjective(children[p])
       /\ Range(children[p]) = {c \in Proc \ {InitProc} : Listed(c) /\ parent[c] = p}

\* Nobody sleeps in process_wait() next to a zombie it waits for, or waiting
\* for a child it does not have: neither an exit that races with the wait nor
\* an adoption loses the wakeup.
WaitersWait ==
  \A p \in Proc : pc[p] = "waiting" => Available(p) = {} /\ Matches(p) # {}

\* What is pending can be delivered, whoever sends signals in whatever order.
\* Each signal on the queue of a process is there once and is the one that
\* signal_pending[] refers to.  Stop signals and SIGCONT cancel each other: they
\* are never pending together, and a stopped process has no SIGCONT waiting.  No
\* pending signal is ignored, so that signal_deliver_pending() never panics on
\* one that "should not be delivered".
PendingAgrees ==
  /\ ~panic
  /\ \A p \in Proc : \A i, j \in 1 .. Len(sigq[p]) :
       sigq[p][i].held /\ (sigq[p][i].signo = sigq[p][j].signo => i = j)
  /\ \A p \in Proc : Listed(p) =>
       /\ ~(Pending(World, p, "STOP") /\ Pending(World, p, "CONT"))
       /\ state[p] = "stopped" => ~Pending(World, p, "CONT")
       /\ \A s \in Signal : Pending(World, p, s) => ~Ignored(p, s)

\* A stopped process does not get back to user mode, or to a system call,
\* before it is continued.
StoppedStaysOut ==
  \A p \in Proc : state[p] = "stopped" => pc[p] \in {"leave", "stopped"}

\* A process that has exited and whose parent is init, by birth or because its
\* parent died before or after it, is freed in the end.
OrphansReaped ==
  \A p \in Proc \ {InitProc} : state[p] = "zombie" /\ parent[p] = InitProc ~> ~Listed(p)
=============================================================================
