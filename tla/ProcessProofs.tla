--------------------------- MODULE ProcessProofs ---------------------------
(***************************************************************************)
(* Proofs about processes and signals, for any number of processes.         *)
(***************************************************************************)
EXTENDS Process, PrioQueueProofs

\* Zenon proves most leaves; those that need arithmetic, or more about functions
\* and records, cite SMT.
USE Zenon

ProcState == {"none", "gone", "active", "stopped", "zombie"}
Entry == [signo : Signal, held : BOOLEAN]

\* What World is.
WorldType ==
  [state : [Proc -> ProcState], sigq : [Proc -> Seq(Entry)], pc : [Proc -> Place]]

-----------------------------------------------------------------------------
(* Generating signals, and what it can do to other processes.               *)

\* What may happen to a process in passing: a sleep ends, a stop ends.
Nudged(v, w, p) ==
  /\ \/ w.pc[p] = v.pc[p]
     \/ v.pc[p] = "waiting" /\ w.pc[p] = "wait"
     \/ v.pc[p] = "pausing" /\ w.pc[p] = "resume"
  /\ w.state[p] = v.state[p] \/ (v.state[p] = "stopped" /\ w.state[p] = "active")

Signalled(v, w) ==
  /\ w \in WorldType
  /\ w.sigq[InitProc] = v.sigq[InitProc]
  /\ \A p \in Proc : Nudged(v, w, p)

\* Signals to init are ignored: it has default actions and only gets SIGCHLD.
InitIgnores == action[InitProc] = [s \in Signal |-> "default"]

LEMMA SignalledReflexive ==
  ASSUME NEW w \in WorldType
  PROVE  Signalled(w, w)
BY DEF Signalled, Nudged

LEMMA SignalledTransitive ==
  ASSUME NEW u, NEW v, NEW w, Signalled(u, v), Signalled(v, w)
  PROVE  Signalled(u, w)
BY SMT DEF Signalled, Nudged

LEMMA InterruptFacts ==
  ASSUME NEW w \in WorldType, NEW p \in Proc
  PROVE  LET v == Interrupt(w, p) IN
         /\ Signalled(w, v) /\ v.state = w.state /\ v.sigq = w.sigq
<1> DEFINE x == CASE w.pc[p] = "waiting" -> "wait"
                  [] w.pc[p] = "pausing" -> "resume"
                  [] OTHER -> w.pc[p]
           v == [w EXCEPT !.pc[p] = x]
<1>1. x \in Place
  BY DEF WorldType, Place
<1>2. x = w.pc[p] \/ (w.pc[p] = "waiting" /\ x = "wait") \/ (w.pc[p] = "pausing" /\ x = "resume")
  OBVIOUS
<1>3. Interrupt(w, p) = v
  BY DEF Interrupt
<1>. HIDE DEF x
<1>4. /\ v \in WorldType /\ v.state = w.state /\ v.sigq = w.sigq
      /\ \A q \in Proc : v.pc[q] = IF q = p THEN x ELSE w.pc[q]
  BY <1>1 DEF WorldType
<1>. HIDE DEF v
<1>5. QED
  BY <1>2, <1>3, <1>4 DEF Signalled, Nudged

LEMMA WakeupFacts ==
  ASSUME NEW w \in WorldType, NEW p \in Proc
  PROVE  LET v == WakeupWaiter(w, p) IN
         /\ Signalled(w, v) /\ v.state = w.state /\ v.sigq = w.sigq
         /\ v.pc[p] # "waiting"
<1> DEFINE x == IF w.pc[p] = "waiting" THEN "wait" ELSE w.pc[p]
           v == [w EXCEPT !.pc[p] = x]
<1>1. x \in Place /\ x # "waiting" /\ (x = w.pc[p] \/ (w.pc[p] = "waiting" /\ x = "wait"))
  BY DEF WorldType, Place
<1>2. WakeupWaiter(w, p) = v
  BY DEF WakeupWaiter
<1>. HIDE DEF x
<1>3. /\ v \in WorldType /\ v.state = w.state /\ v.sigq = w.sigq
      /\ \A q \in Proc : v.pc[q] = IF q = p THEN x ELSE w.pc[q]
  BY <1>1 DEF WorldType
<1>. HIDE DEF v
<1>4. QED
  BY <1>1, <1>2, <1>3 DEF Signalled, Nudged

\* A change of the queue of one process.
LEMMA RequeueFacts ==
  ASSUME NEW w \in WorldType, NEW p \in Proc, NEW s \in Seq(Entry)
  PROVE  LET v == [w EXCEPT !.sigq[p] = s] IN
         /\ v \in WorldType /\ v.state = w.state /\ v.pc = w.pc
         /\ v.sigq = [w.sigq EXCEPT ![p] = s]
         /\ p # InitProc => Signalled(w, v)
<1> DEFINE v == [w EXCEPT !.sigq[p] = s]
<1>1. /\ v \in WorldType /\ v.state = w.state /\ v.pc = w.pc
      /\ v.sigq = [w.sigq EXCEPT ![p] = s]
  BY DEF WorldType
<1>. HIDE DEF v
<1>2. p # InitProc => v.sigq[InitProc] = w.sigq[InitProc]
  BY SMT, <1>1, ProcessAssumption DEF WorldType
<1>3. QED
  BY <1>1, <1>2 DEF Signalled, Nudged, v

\* k_list_remove() of something that need not be on the list.
LEMMA RemoveSeq ==
  ASSUME NEW S, NEW s \in Seq(S), NEW t
  PROVE  Remove(s, t) \in Seq(S)
<1>1. CASE t \in Range(s)
  <2> DEFINE k == CHOOSE i \in DOMAIN s : s[i] = t
  <2>1. k \in 1 .. Len(s)
    BY SMT, <1>1 DEF Range
  <2>. HIDE DEF k
  <2>2. RemoveAt(s, k) \in Seq(S)
    BY <2>1, RemoveAtFacts
  <2>3. QED
    BY <1>1, <2>2 DEF Remove, k
<1>2. QED
  BY <1>1 DEF Remove

LEMMA DiscardFacts ==
  ASSUME NEW w \in WorldType, NEW p \in Proc, NEW s
  PROVE  LET v == Discard(w, p, s) IN
         /\ v \in WorldType /\ v.state = w.state /\ v.pc = w.pc
         /\ v.sigq = [w.sigq EXCEPT ![p] = Remove(w.sigq[p], Held(s))]
         /\ p # InitProc => Signalled(w, v)
<1>1. Remove(w.sigq[p], Held(s)) \in Seq(Entry)
  BY RemoveSeq DEF WorldType
<1>2. QED
  BY <1>1, RequeueFacts DEF Discard

LEMMA QueueFacts ==
  ASSUME NEW w \in WorldType, NEW p \in Proc, NEW s \in Signal
  PROVE  LET v == Queue(w, p, s) IN
         /\ v \in WorldType /\ v.state = w.state
         /\ v.sigq = IF Ignored(p, s) THEN w.sigq
                     ELSE [w.sigq EXCEPT ![p] = Append(w.sigq[p], Held(s))]
         /\ Ignored(p, s) \/ p # InitProc => Signalled(w, v)
<1> DEFINE r == Append(w.sigq[p], Held(s))
           queued == [w EXCEPT !.sigq[p] = r]
<1>1. r \in Seq(Entry)
  <2>1. Held(s) \in Entry
    BY DEF Held, Entry
  <2>2. w.sigq[p] \in Seq(Entry)
    BY DEF WorldType
  <2>3. QED
    BY <2>1, <2>2, AppendFacts
<1>. HIDE DEF r
<1>2. /\ queued \in WorldType /\ queued.state = w.state
      /\ queued.sigq = [w.sigq EXCEPT ![p] = r]
      /\ p # InitProc => Signalled(w, queued)
  BY <1>1, RequeueFacts
<1>3. Queue(w, p, s) = IF Ignored(p, s) THEN w
                       ELSE IF Blocked(p, s) THEN queued ELSE Interrupt(queued, p)
  BY DEF Queue, r
<1>. HIDE DEF queued
<1>4. /\ Interrupt(queued, p) \in WorldType /\ Interrupt(queued, p).state = w.state
      /\ Interrupt(queued, p).sigq = queued.sigq
      /\ Signalled(queued, Interrupt(queued, p))
  BY <1>2, InterruptFacts DEF Signalled
<1>5. p # InitProc => Signalled(w, Interrupt(queued, p))
  BY <1>2, <1>4, SignalledTransitive
<1>6. QED
  BY <1>2, <1>3, <1>4, <1>5, SignalledReflexive DEF r

LEMMA NotifyFacts ==
  ASSUME NEW w \in WorldType, NEW p \in Proc, parent[p] \in Proc \cup {NoProc}, InitIgnores
  PROVE  LET v == Notify(w, p) IN
         /\ Signalled(w, v) /\ v.state = w.state
         /\ w.state[p] = "zombie" /\ parent[p] # NoProc => v.pc[parent[p]] # "waiting"
<1> DEFINE q == parent[p]
           u == IF Pending(w, q, "CHLD") THEN w ELSE Queue(w, q, "CHLD")
<1>1. CASE q = NoProc \/ (w.state[p] # "zombie" /\ q \in NoCldStop)
  BY <1>1, SignalledReflexive DEF Notify
<1>2. CASE ~(q = NoProc \/ (w.state[p] # "zombie" /\ q \in NoCldStop))
  <2>1. q \in Proc /\ "CHLD" \in Signal
    BY <1>2, ProcessAssumption
  <2>2. q = InitProc => Ignored(q, "CHLD")
    BY <2>1 DEF InitIgnores, Ignored
  <2>3. Signalled(w, u) /\ u.state = w.state
    BY <2>1, <2>2, QueueFacts, SignalledReflexive
  <2>4. Notify(w, p) = WakeupWaiter(u, q)
    BY <1>2 DEF Notify
  <2>. HIDE DEF u, q
  <2>5. /\ Signalled(u, WakeupWaiter(u, q)) /\ WakeupWaiter(u, q).state = w.state
        /\ WakeupWaiter(u, q).pc[q] # "waiting"
    BY <2>1, <2>3, WakeupFacts DEF Signalled
  <2>6. QED
    BY SMT, <2>3, <2>4, <2>5, SignalledTransitive DEF q
<1>3. QED
  BY <1>1, <1>2

LEMMA ContinueFacts ==
  ASSUME NEW w \in WorldType, NEW p \in Proc, parent[p] \in Proc \cup {NoProc}, InitIgnores
  PROVE  LET v == Continue(w, p) IN Signalled(w, v) /\ v.state[p] # "stopped"
<1>1. CASE w.state[p] # "stopped"
  BY <1>1, SignalledReflexive DEF Continue
<1>2. CASE w.state[p] = "stopped"
  <2> DEFINE a == [w EXCEPT !.state[p] = "active"]
             b == Interrupt(a, p)
  <2>1. /\ a \in WorldType /\ a.sigq = w.sigq /\ a.pc = w.pc
        /\ \A q \in Proc : a.state[q] = IF q = p THEN "active" ELSE w.state[q]
    BY DEF WorldType, ProcState
  <2>2. Continue(w, p) = Notify(b, p)
    BY <1>2 DEF Continue
  <2>. HIDE DEF a
  <2>3. Signalled(w, a)
    BY <1>2, <2>1 DEF Signalled, Nudged
  <2>4. Signalled(a, b) /\ b.state = a.state
    BY <2>1, InterruptFacts
  <2>. HIDE DEF b
  <2>5. Signalled(b, Notify(b, p)) /\ Notify(b, p).state = b.state
    BY <2>4, NotifyFacts DEF Signalled
  <2>6. Signalled(w, Notify(b, p))
    BY <2>3, <2>4, <2>5, SignalledTransitive
  <2>7. QED
    BY <2>1, <2>2, <2>4, <2>5, <2>6
<1>3. QED
  BY <1>1, <1>2

LEMMA GenerateFacts ==
  ASSUME NEW w \in WorldType, NEW p \in Proc \ {InitProc}, NEW s \in Signal,
         parent[p] \in Proc \cup {NoProc}, InitIgnores
  PROVE  Signalled(w, Generate(w, p, s))
<1> DEFINE u == CASE s = "STOP" -> Discard(w, p, "CONT")
                  [] s = "CONT" -> Continue(Discard(w, p, "STOP"), p)
                  [] OTHER -> w
<1>1. Signalled(w, Discard(w, p, "CONT")) /\ Signalled(w, Discard(w, p, "STOP"))
  BY DiscardFacts
<1>2. Signalled(w, Continue(Discard(w, p, "STOP"), p))
  BY ZenonT(30), <1>1, ContinueFacts, SignalledTransitive DEF Signalled
<1>3. Signalled(w, u)
  BY <1>1, <1>2, SignalledReflexive
<1>4. Generate(w, p, s) = IF Pending(w, p, s) THEN w ELSE Queue(u, p, s)
  BY DEF Generate
<1>. HIDE DEF u
<1>5. Signalled(u, Queue(u, p, s))
  BY <1>3, QueueFacts DEF Signalled
<1>6. QED
  BY <1>3, <1>4, <1>5, SignalledTransitive, SignalledReflexive

-----------------------------------------------------------------------------
(* The family tree.                                                         *)

InitRuns ==
  /\ state[InitProc] = "active"
  /\ parent[InitProc] = NoProc
  /\ pc[InitProc] \in {"user", "return", "wait", "waiting"}
  /\ sigq[InitProc] = <<>>
  /\ InitIgnores

PlacesAgree == \A p \in Proc : state[p] \in {"none", "gone"} <=> pc[p] = "none"

\* Nobody is its own parent.
NoLoops == \A p \in Proc : Listed(p) => parent[p] # p

FamilyInv ==
  FamilyAgrees /\ InitRuns /\ PlacesAgree /\ NoLoops /\ StoppedStaysOut /\ WaitersWait

LEMMA WorldTyped ==
  ASSUME TypeOK
  PROVE  /\ World \in WorldType /\ World.state = state
         /\ World.sigq = sigq /\ World.pc = pc
BY DEF TypeOK, World, WorldType, ProcState, Entry

\* What happens to p and, in passing, to the other processes, is not the birth
\* or the death of any.
LivesOn(p, w, place) ==
  /\ w \in WorldType
  /\ w.sigq[InitProc] = sigq[InitProc]
  /\ \A q \in Proc \ {p} : Nudged(World, w, q)
  /\ place \in Place \ {"none", "dead", "waiting"}
  /\ w.state[p] \in {"active", "stopped"}
  /\ w.state[p] = "stopped" => place \in {"leave", "stopped"}
  /\ p = InitProc => w.state[p] = "active" /\ place \in {"user", "return", "wait"}

LEMMA LivesOnFacts ==
  ASSUME FamilyInv, NEW p \in Proc, NEW w, NEW place, LivesOn(p, w, place),
         state[p] \in {"active", "stopped"}, Become(w, p, place)
  PROVE  /\ state' \in [Proc -> ProcState] /\ sigq' \in [Proc -> Seq(Entry)]
         /\ pc' \in [Proc -> Place]
         /\ \A q \in Proc : /\ Listed(q)' <=> Listed(q)
                            /\ state'[q] = "zombie" <=> state[q] = "zombie"
                            /\ pc'[q] = "none" <=> pc[q] = "none"
                            /\ state'[q] \in {"none", "gone"} <=> state[q] \in {"none", "gone"}
                            /\ pc'[q] = "dead" <=> pc[q] = "dead"
                            /\ pc'[q] = "waiting" => q # p /\ pc[q] = "waiting"
                            /\ state'[q] = "stopped" => pc'[q] \in {"leave", "stopped"}
         /\ state'[InitProc] = "active" /\ sigq'[InitProc] = <<>>
         /\ pc'[InitProc] \in {"user", "return", "wait", "waiting"}
<1>1. TypeOK /\ World.state = state /\ World.pc = pc
  BY WorldTyped DEF FamilyInv, FamilyAgrees
<1>2. /\ state' = w.state /\ sigq' = w.sigq /\ pc' = [w.pc EXCEPT ![p] = place]
  BY DEF Become
<1>3. /\ w.state \in [Proc -> ProcState] /\ w.sigq \in [Proc -> Seq(Entry)]
      /\ w.pc \in [Proc -> Place] /\ place \in Place
  BY DEF LivesOn, WorldType
<1>4. /\ state' \in [Proc -> ProcState] /\ sigq' \in [Proc -> Seq(Entry)]
      /\ pc' \in [Proc -> Place]
  BY <1>2, <1>3
<1>5. \A q \in Proc \ {p} : pc'[q] = w.pc[q] /\ state'[q] = w.state[q]
  BY <1>2, <1>3
<1>6. pc'[p] = place /\ state'[p] = w.state[p]
  BY <1>2, <1>3
<1>7. /\ state[p] \notin {"none", "gone", "zombie"}
      /\ pc[p] \notin {"none", "dead"}
  BY <1>1 DEF FamilyInv, PlacesAgree, TypeOK
<1>8. \A q \in Proc : /\ Listed(q)' <=> Listed(q)
                      /\ state'[q] = "zombie" <=> state[q] = "zombie"
                      /\ pc'[q] = "none" <=> pc[q] = "none"
                      /\ state'[q] \in {"none", "gone"} <=> state[q] \in {"none", "gone"}
                      /\ pc'[q] = "dead" <=> pc[q] = "dead"
                      /\ pc'[q] = "waiting" => q # p /\ pc[q] = "waiting"
  BY SMT, <1>1, <1>5, <1>6, <1>7 DEF LivesOn, Nudged, Listed
<1>9. \A q \in Proc : state'[q] = "stopped" => pc'[q] \in {"leave", "stopped"}
  BY SMT, <1>1, <1>5, <1>6 DEF LivesOn, Nudged, FamilyInv, StoppedStaysOut
<1>10. /\ state'[InitProc] = "active" /\ sigq'[InitProc] = <<>>
       /\ pc'[InitProc] \in {"user", "return", "wait", "waiting"}
  <2>1. InitProc \in Proc
    BY ProcessAssumption
  <2>2. CASE InitProc = p
    BY <1>2, <1>6, <2>2 DEF LivesOn, FamilyInv, InitRuns
  <2>3. CASE InitProc # p
    BY SMT, <1>1, <1>2, <1>5, <2>1, <2>3 DEF LivesOn, Nudged, FamilyInv, InitRuns
  <2>4. QED
    BY <2>2, <2>3
<1>11. QED
  BY <1>4, <1>8, <1>9, <1>10

LEMMA LivesOnKeepsFamily ==
  ASSUME FamilyInv, NEW p \in Proc, NEW w, NEW place, LivesOn(p, w, place),
         state[p] \in {"active", "stopped"}, Become(w, p, place),
         mask' \in [Proc -> SUBSET Signal],
         action' \in [Proc -> [Signal -> {"default", "ignore", "catch", "once"}]],
         action'[InitProc] = action[InitProc],
         call' \in [Proc -> [child : Proc \union {NoProc}, nohang : BOOLEAN,
                             mask : SUBSET Signal]],
         \A q \in Proc \ {p} : call'[q] = call[q],
         panic' \in BOOLEAN, UNCHANGED <<parent, children>>
  PROVE  FamilyInv'
<1>1. /\ state' \in [Proc -> ProcState] /\ sigq' \in [Proc -> Seq(Entry)]
      /\ pc' \in [Proc -> Place]
      /\ \A q \in Proc : /\ Listed(q)' <=> Listed(q)
                         /\ state'[q] = "zombie" <=> state[q] = "zombie"
                         /\ pc'[q] = "none" <=> pc[q] = "none"
                         /\ state'[q] \in {"none", "gone"} <=> state[q] \in {"none", "gone"}
                         /\ pc'[q] = "dead" <=> pc[q] = "dead"
                         /\ pc'[q] = "waiting" => q # p /\ pc[q] = "waiting"
                         /\ state'[q] = "stopped" => pc'[q] \in {"leave", "stopped"}
      /\ state'[InitProc] = "active" /\ sigq'[InitProc] = <<>>
      /\ pc'[InitProc] \in {"user", "return", "wait", "waiting"}
  BY LivesOnFacts
<1>2. TypeOK'
  BY <1>1 DEF FamilyInv, FamilyAgrees, TypeOK, ProcState, Entry
<1>3. FamilyAgrees'
  <2>1. \A q \in Proc : {c \in Proc \ {InitProc} : Listed(c)' /\ parent'[c] = q} =
                        {c \in Proc \ {InitProc} : Listed(c) /\ parent[c] = q}
    BY <1>1
  <2>2. \A q \in Proc : Listed(q)' /\ q # InitProc =>
          parent'[q] \in Proc /\ state'[parent'[q]] \in {"active", "stopped"}
    <3>1. \A q \in Proc : state[q] \in {"active", "stopped"} =>
                             state'[q] \in {"active", "stopped"}
      BY <1>1 DEF Listed
    <3>2. QED
      BY <1>1, <3>1 DEF FamilyInv, FamilyAgrees
  <2>3. QED
    BY <1>2, <2>1, <2>2 DEF FamilyInv, FamilyAgrees
<1>4. InitRuns' /\ PlacesAgree' /\ StoppedStaysOut'
  BY <1>1 DEF FamilyInv, InitRuns, InitIgnores, PlacesAgree, StoppedStaysOut
<1>5. NoLoops'
  BY <1>1 DEF FamilyInv, NoLoops
<1>6. WaitersWait'
  <2>1. ASSUME NEW q \in Proc, pc'[q] = "waiting"
        PROVE  Available(q)' = {} /\ Matches(q)' # {}
    <3>1. q # p /\ pc[q] = "waiting"
      BY <1>1, <2>1
    <3>2. Matches(q)' = Matches(q)
      BY <3>1 DEF Matches
    <3>3. Matches(q) \subseteq Proc
      BY RangeFacts DEF Matches, FamilyInv, FamilyAgrees, TypeOK
    <3>4. Available(q)' = Available(q)
      BY SMT, <1>1, <3>2, <3>3 DEF Available
    <3>5. QED
      BY <3>1, <3>2, <3>4 DEF FamilyInv, WaitersWait
  <2>2. QED
    BY <2>1 DEF WaitersWait
<1>7. QED
  BY <1>3, <1>4, <1>5, <1>6 DEF FamilyInv

\* The process of a thread that runs in the kernel or in user mode is active.
LEMMA RunsActive ==
  ASSUME FamilyInv, NEW p \in Proc, pc[p] \notin {"none", "dead", "leave", "stopped"}
  PROVE  state[p] = "active"
BY SMT DEF FamilyInv, FamilyAgrees, TypeOK, PlacesAgree, StoppedStaysOut

CallType == [child : Proc \union {NoProc}, nohang : BOOLEAN, mask : SUBSET Signal]

LEMMA NoCallTyped == NoCall \in CallType
BY DEF NoCall, CallType

\* The steps that signal nobody.
LEMMA MoveKeepsFamily ==
  ASSUME FamilyInv, NEW p \in Proc, NEW place \in Place \ {"none", "dead", "waiting"},
         pc[p] \notin {"none", "dead", "leave", "stopped"},
         p = InitProc => place \in {"user", "return", "wait"},
         pc' = [pc EXCEPT ![p] = place],
         mask' \in [Proc -> SUBSET Signal],
         NEW k \in CallType, call' = call \/ call' = [call EXCEPT ![p] = k],
         UNCHANGED <<state, parent, children, sigq, action, panic>>
  PROVE  FamilyInv'
<1>1. TypeOK /\ World \in WorldType /\ World.state = state /\ World.sigq = sigq
      /\ World.pc = pc
  BY WorldTyped DEF FamilyInv, FamilyAgrees
<1>2. Become(World, p, place)
  BY <1>1 DEF Become
<1>3. state[p] = "active"
  BY RunsActive
<1>4. LivesOn(p, World, place)
  BY <1>1, <1>3 DEF LivesOn, Nudged
<1>5. /\ action' \in [Proc -> [Signal -> {"default", "ignore", "catch", "once"}]]
      /\ action'[InitProc] = action[InitProc] /\ panic' \in BOOLEAN
  BY <1>1 DEF TypeOK
<1>6. call \in [Proc -> CallType]
  BY <1>1 DEF TypeOK, CallType
<1>7. call' \in [Proc -> CallType] /\ \A q \in Proc \ {p} : call'[q] = call[q]
  BY <1>6
<1>8. QED
  BY <1>2, <1>3, <1>4, <1>5, <1>7, LivesOnKeepsFamily DEF CallType

LEMMA CallSteps ==
  ASSUME FamilyInv, NEW p \in Proc,
         \/ p # InitProc /\ Trap(p)
         \/ p # InitProc /\ \E m \in Masks : SetMask(p, m) \/ SysSuspend(p, m)
         \/ \E child \in Proc \cup {NoProc}, nohang \in BOOLEAN : SysWait(p, child, nohang)
         \/ p # InitProc /\ SysExit(p)
         \/ Suspend(p) \/ Resume(p)
  PROVE  FamilyInv'
<1>1. TypeOK
  BY DEF FamilyInv, FamilyAgrees
<1>2. NoCall \in CallType /\ mask \in [Proc -> SUBSET Signal] /\ call \in [Proc -> CallType]
      /\ \A m \in Masks : m \subseteq Signal
  BY <1>1, NoCallTyped, ProcessAssumption DEF TypeOK, CallType
<1>3. CASE p # InitProc /\ Trap(p)
  BY <1>2, <1>3, MoveKeepsFamily DEF Trap, User, Place
<1>4. ASSUME p # InitProc, NEW m \in Masks, SetMask(p, m) PROVE FamilyInv'
  <2>1. mask' \in [Proc -> SUBSET Signal]
    BY <1>2, <1>4 DEF SetMask
  <2>2. QED
    BY <1>2, <1>4, <2>1, MoveKeepsFamily DEF SetMask, User, Place
<1>5. ASSUME p # InitProc, NEW m \in Masks, SysSuspend(p, m) PROVE FamilyInv'
  <2>1. [NoCall EXCEPT !.mask = m] \in CallType
    BY <1>2 DEF CallType
  <2>2. QED
    BY <1>2, <1>5, <2>1, MoveKeepsFamily DEF SysSuspend, User, Place
<1>6. ASSUME NEW child \in Proc \cup {NoProc}, NEW nohang \in BOOLEAN,
             SysWait(p, child, nohang)
      PROVE  FamilyInv'
  <2>1. [NoCall EXCEPT !.child = child, !.nohang = nohang] \in CallType
    BY <1>2 DEF CallType
  <2>2. QED
    BY <1>2, <1>6, <2>1, MoveKeepsFamily DEF SysWait, User, Place
<1>7. CASE p # InitProc /\ SysExit(p)
  BY <1>2, <1>7, MoveKeepsFamily DEF SysExit, User, Place
<1>8. CASE Suspend(p)
  <2>1. p # InitProc
    BY <1>8 DEF Suspend, Kernel, FamilyInv, InitRuns
  <2>2. mask' \in [Proc -> SUBSET Signal] /\ [call[p] EXCEPT !.mask = mask[p]] \in CallType
    BY <1>2, <1>8 DEF Suspend, CallType
  <2>3. call' = [call EXCEPT ![p] = [call[p] EXCEPT !.mask = mask[p]]]
    BY <1>8 DEF Suspend
  <2>4. QED
    BY <1>8, <2>1, <2>2, <2>3, MoveKeepsFamily DEF Suspend, Kernel, Place
<1>9. CASE Resume(p)
  <2>1. p # InitProc
    BY <1>9 DEF Resume, Kernel, FamilyInv, InitRuns
  <2>2. mask' \in [Proc -> SUBSET Signal]
    BY <1>2, <1>9 DEF Resume, CallType
  <2>3. QED
    BY <1>2, <1>9, <2>1, <2>2, MoveKeepsFamily DEF Resume, Kernel, Place
<1>10. QED
  BY <1>3, <1>4, <1>5, <1>6, <1>7, <1>8, <1>9

LEMMA LeaveKeepsFamily ==
  ASSUME FamilyInv, NEW p \in Proc, Leave(p)
  PROVE  FamilyInv'
<1> DEFINE place == IF state[p] = "active" THEN "user" ELSE "stopped"
<1>1. TypeOK /\ World \in WorldType /\ World.state = state /\ World.sigq = sigq
      /\ World.pc = pc
  BY WorldTyped DEF FamilyInv, FamilyAgrees
<1>2. pc[p] = "leave" /\ p # InitProc /\ pc' = [pc EXCEPT ![p] = place]
  BY DEF Leave, Kernel, FamilyInv, InitRuns
<1>3. Become(World, p, place)
  BY <1>1, <1>2 DEF Become, Leave
<1>4. state[p] \in {"active", "stopped"}
  BY <1>1, <1>2 DEF TypeOK, FamilyInv, PlacesAgree
<1>5. place \in Place \ {"none", "dead", "waiting"} /\ (state[p] = "stopped" => place = "stopped")
  BY DEF Place
<1>6. LivesOn(p, World, place)
  BY <1>1, <1>2, <1>4, <1>5 DEF LivesOn, Nudged
<1>7. /\ mask' \in [Proc -> SUBSET Signal] /\ panic' \in BOOLEAN
      /\ action' \in [Proc -> [Signal -> {"default", "ignore", "catch", "once"}]]
      /\ action'[InitProc] = action[InitProc]
      /\ call' \in [Proc -> CallType] /\ \A q \in Proc \ {p} : call'[q] = call[q]
      /\ UNCHANGED <<parent, children>>
  BY <1>1 DEF TypeOK, CallType, Leave
<1>. HIDE DEF place
<1>8. QED
  BY <1>3, <1>4, <1>6, <1>7, LivesOnKeepsFamily DEF CallType

\* The steps that signal other processes, or take a signal off the queue.
LEMMA SignalSteps ==
  ASSUME FamilyInv, NEW p \in Proc, NEW place \in Place \ {"none", "dead", "waiting"},
         pc[p] \notin {"none", "dead", "leave", "stopped"},
         NEW v \in WorldType, v.sigq[InitProc] = sigq[InitProc], v.pc = pc,
         \A q \in Proc \ {p} : v.state[q] = state[q],
         v.state[p] = "active" \/ (v.state[p] = "stopped" /\ place = "leave"),
         p = InitProc => v.state[p] = "active" /\ place \in {"user", "return", "wait"},
         NEW w, Signalled(v, w), Become(w, p, place),
         mask' \in [Proc -> SUBSET Signal],
         action' \in [Proc -> [Signal -> {"default", "ignore", "catch", "once"}]],
         action'[InitProc] = action[InitProc],
         panic' \in BOOLEAN, UNCHANGED <<parent, children, call>>
  PROVE  FamilyInv'
<1>1. TypeOK /\ World.state = state /\ World.sigq = sigq /\ World.pc = pc
  BY WorldTyped DEF FamilyInv, FamilyAgrees
<1>2. state[p] = "active"
  BY RunsActive
<1>3. w \in WorldType /\ w.sigq[InitProc] = sigq[InitProc] /\ \A q \in Proc : Nudged(v, w, q)
  BY DEF Signalled
<1>4. \A q \in Proc \ {p} : Nudged(World, w, q)
  BY SMT, <1>1, <1>3 DEF Nudged
<1>5. /\ w.state[p] \in {"active", "stopped"}
      /\ w.state[p] = "stopped" => place = "leave"
      /\ p = InitProc => w.state[p] = "active" /\ place \in {"user", "return", "wait"}
  BY <1>3 DEF Nudged
<1>6. LivesOn(p, w, place)
  BY <1>3, <1>4, <1>5 DEF LivesOn
<1>7. /\ call' \in [Proc -> CallType] /\ \A q \in Proc \ {p} : call'[q] = call[q]
  BY <1>1 DEF TypeOK, CallType
<1>8. QED
  BY <1>2, <1>6, <1>7, LivesOnKeepsFamily DEF CallType

LEMMA DeliverableFacts ==
  ASSUME TypeOK, NEW p \in Proc
  PROVE  /\ Deliverable(p) = 0 <=> Candidates(p) = {}
         /\ Candidates(p) # {} => /\ Deliverable(p) \in Candidates(p)
                                  /\ Deliverable(p) \in 1 .. Len(sigq[p])
<1>1. sigq[p] \in Seq(Entry)
  BY DEF TypeOK, Entry
<1>2. Candidates(p) \subseteq 1 .. Len(sigq[p]) /\ Len(sigq[p]) \in Nat
  BY SMT, <1>1 DEF Candidates
<1>3. Candidates(p) \subseteq Nat
  BY SMT, <1>2
<1>4. CASE Candidates(p) # {}
  <2>1. PICK i \in Candidates(p) : \A j \in Candidates(p) : i <= j
    BY <1>3, <1>4, NatMin
  <2>2. Deliverable(p) \in Candidates(p)
    BY <1>4, <2>1 DEF Deliverable
  <2>3. QED
    BY SMT, <1>2, <1>4, <2>2
<1>5. QED
  BY <1>4 DEF Deliverable

LEMMA DequeueFacts ==
  ASSUME NEW w \in WorldType, NEW p \in Proc, NEW i \in 1 .. Len(w.sigq[p])
  PROVE  LET v == Dequeue(w, p, i) IN
         /\ v \in WorldType /\ v.state = w.state /\ v.pc = w.pc
         /\ p # InitProc => Signalled(w, v)
<1> DEFINE r == RemoveAt(w.sigq[p], i)
           s == w.sigq[p][i].signo
           f == [j \in DOMAIN r |-> IF r[j].signo = s THEN [signo |-> s, held |-> FALSE]
                                    ELSE r[j]]
<1>1. w.sigq[p] \in Seq(Entry)
  BY DEF WorldType
<1>2. r \in Seq(Entry) /\ s \in Signal
  <2>1. r \in Seq(Entry)
    BY <1>1, RemoveAtFacts
  <2>2. w.sigq[p][i] \in Entry
    BY SMT, <1>1
  <2>3. QED
    BY <2>1, <2>2 DEF Entry
<1>3. Dequeue(w, p, i) = [w EXCEPT !.sigq[p] = f]
  BY DEF Dequeue
<1>. HIDE DEF r, s
<1>4. f \in Seq(Entry)
  <2>1. DOMAIN r = 1 .. Len(r) /\ Len(r) \in Nat /\ \A j \in 1 .. Len(r) : r[j] \in Entry
    BY SMT, <1>2
  <2>2. [signo |-> s, held |-> FALSE] \in Entry
    BY <1>2 DEF Entry
  <2>3. f \in [1 .. Len(r) -> Entry]
    BY <2>1, <2>2
  <2>. HIDE DEF f
  <2>4. QED
    BY SMT, <2>1, <2>3
<1>. HIDE DEF f
<1>5. QED
  BY SMT, <1>3, <1>4, RequeueFacts

\* Signals for init are ignored.
LEMMA InitGetsNone ==
  ASSUME FamilyInv, NEW p \in Proc, Deliverable(p) # 0
  PROVE  p # InitProc
<1>1. TypeOK
  BY DEF FamilyInv, FamilyAgrees
<1>2. Candidates(p) # {}
  BY <1>1, DeliverableFacts
<1>3. QED
  BY SMT, <1>2 DEF Candidates, FamilyInv, InitRuns

LEMMA KillKeepsFamily ==
  ASSUME FamilyInv, NEW p \in Proc \ {InitProc}, NEW q \in Proc \ {InitProc}, NEW s \in Sent,
         Kill(p, q, s)
  PROVE  FamilyInv'
<1>1. TypeOK /\ World \in WorldType /\ World.sigq = sigq /\ World.state = state
      /\ World.pc = pc
  BY WorldTyped DEF FamilyInv, FamilyAgrees
<1>2. Signalled(World, Generate(World, q, s))
  BY <1>1, GenerateFacts, ProcessAssumption DEF TypeOK, FamilyInv, InitRuns
<1>3. state[p] = "active"
  BY RunsActive DEF Kill, User
<1>4. QED
  BY <1>1, <1>2, <1>3, SignalSteps DEF Kill, User, TypeOK, Place

LEMMA SetActionKeepsFamily ==
  ASSUME FamilyInv, NEW p \in Proc \ {InitProc}, NEW s \in Caught, NEW a \in Action,
         SetAction(p, s, a)
  PROVE  FamilyInv'
<1> DEFINE w == IF a = "ignore" \/ (a = "default" /\ s = "CHLD")
                THEN Discard(World, p, s) ELSE World
<1>1. TypeOK /\ World \in WorldType /\ World.sigq = sigq /\ World.state = state
      /\ World.pc = pc
  BY WorldTyped DEF FamilyInv, FamilyAgrees
<1>2. Signalled(World, w)
  BY <1>1, DiscardFacts, SignalledReflexive
<1>3. state[p] = "active"
  BY RunsActive DEF SetAction, User
<1>4. Become(w, p, "return")
  BY DEF SetAction
<1>5. /\ action' \in [Proc -> [Signal -> {"default", "ignore", "catch", "once"}]]
      /\ action'[InitProc] = action[InitProc]
  <2>1. a \in {"default", "ignore", "catch", "once"} /\ s \in Signal
    BY ProcessAssumption
  <2>2. action \in [Proc -> [Signal -> {"default", "ignore", "catch", "once"}]]
    BY <1>1 DEF TypeOK
  <2>3. action' = [action EXCEPT ![p] = [action[p] EXCEPT ![s] = a]]
    BY DEF SetAction
  <2>4. [action[p] EXCEPT ![s] = a] \in [Signal -> {"default", "ignore", "catch", "once"}]
    BY <2>1, <2>2
  <2>5. QED
    BY SMT, <2>2, <2>3, <2>4, ProcessAssumption
<1>. HIDE DEF w
<1>6. QED
  BY <1>1, <1>2, <1>3, <1>4, <1>5, SignalSteps DEF SetAction, User, TypeOK, Place

LEMMA DeliverNoneKeepsFamily ==
  ASSUME FamilyInv, NEW p \in Proc, DeliverNone(p)
  PROVE  FamilyInv'
<1>1. TypeOK /\ World \in WorldType /\ World.sigq = sigq /\ World.state = state
      /\ World.pc = pc
  BY WorldTyped DEF FamilyInv, FamilyAgrees
<1>2. state[p] = "active"
  BY RunsActive DEF DeliverNone, Kernel
<1>3. Signalled(World, World)
  BY <1>1, SignalledReflexive
<1>4. QED
  BY <1>1, <1>2, <1>3, SignalSteps DEF DeliverNone, Kernel, TypeOK, Place

LEMMA DeliverDefaultKeepsFamily ==
  ASSUME FamilyInv, NEW p \in Proc, DeliverDefault(p)
  PROVE  FamilyInv'
<1> DEFINE i == Deliverable(p)
           s == sigq[p][i].signo
           w == Dequeue(World, p, i)
           v == [w EXCEPT !.state[p] = "stopped"]
<1>1. TypeOK /\ World \in WorldType /\ World.sigq = sigq /\ World.state = state
      /\ World.pc = pc
  BY WorldTyped DEF FamilyInv, FamilyAgrees
<1>2. pc[p] = "return" /\ i # 0 /\ UNCHANGED <<parent, children, mask, action, call>>
      /\ panic' \in BOOLEAN
  BY DEF DeliverDefault, Kernel
<1>3. state[p] = "active" /\ p # InitProc
  BY <1>2, RunsActive, InitGetsNone
<1>4. i \in 1 .. Len(sigq[p])
  BY <1>1, <1>2, DeliverableFacts
<1>5. /\ w \in WorldType /\ w.state = state /\ w.pc = pc /\ Signalled(World, w)
  BY <1>1, <1>3, <1>4, DequeueFacts
<1>6. \/ Become(w, p, "exit") \/ Become(w, p, "user")
      \/ Become(IF w.state[p] = "stopped" THEN w ELSE Notify(v, p), p, "leave")
  BY DEF DeliverDefault
<1>. HIDE DEF i, s, w
<1>7. w.sigq[InitProc] = sigq[InitProc] /\ Signalled(w, w)
  BY <1>1, <1>5, SignalledReflexive DEF Signalled
<1>8. CASE Become(w, p, "exit") \/ Become(w, p, "user")
  BY <1>1, <1>2, <1>3, <1>5, <1>7, <1>8, SignalSteps DEF TypeOK, Place
<1>9. CASE Become(IF w.state[p] = "stopped" THEN w ELSE Notify(v, p), p, "leave")
  <2>1. Become(Notify(v, p), p, "leave")
    BY <1>3, <1>5, <1>9
  <2>2. /\ v \in WorldType /\ v.sigq = w.sigq /\ v.pc = w.pc
        /\ \A q \in Proc : v.state[q] = IF q = p THEN "stopped" ELSE w.state[q]
    BY <1>5 DEF WorldType, ProcState
  <2>. HIDE DEF v
  <2>3. Signalled(v, Notify(v, p))
    BY <1>1, <2>2, NotifyFacts DEF TypeOK, FamilyInv, InitRuns
  <2>4. QED
    BY ZenonT(30), <1>1, <1>2, <1>3, <1>5, <1>7, <2>1, <2>2, <2>3, SignalSteps DEF TypeOK, Place
<1>10. QED
  BY <1>6, <1>8, <1>9

LEMMA DeliverCustomKeepsFamily ==
  ASSUME FamilyInv, NEW p \in Proc, DeliverCustom(p)
  PROVE  FamilyInv'
<1> DEFINE i == Deliverable(p)
           s == sigq[p][i].signo
           w == Dequeue(World, p, i)
<1>1. TypeOK /\ World \in WorldType /\ World.sigq = sigq /\ World.state = state
      /\ World.pc = pc
  BY WorldTyped DEF FamilyInv, FamilyAgrees
<1>2. pc[p] = "return" /\ i # 0 /\ UNCHANGED <<parent, children, call>>
      /\ panic' \in BOOLEAN
  BY DEF DeliverCustom, Kernel
<1>3. state[p] = "active" /\ p # InitProc
  BY <1>2, RunsActive, InitGetsNone
<1>4. i \in 1 .. Len(sigq[p]) /\ s \in Signal
  <2>1. i \in 1 .. Len(sigq[p])
    BY <1>1, <1>2, DeliverableFacts
  <2>2. sigq[p] \in Seq(Entry)
    BY <1>1 DEF TypeOK, Entry
  <2>3. sigq[p][i] \in Entry
    BY SMT, <2>1, <2>2
  <2>4. QED
    BY <2>1, <2>3 DEF Entry
<1>5. /\ w \in WorldType /\ w.state = state /\ w.pc = pc /\ Signalled(World, w)
  BY <1>1, <1>3, <1>4, DequeueFacts
<1>6. Become(w, p, "exit") \/ Become(w, p, "user")
  BY DEF DeliverCustom
<1>7. /\ mask' \in [Proc -> SUBSET Signal]
      /\ action' \in [Proc -> [Signal -> {"default", "ignore", "catch", "once"}]]
      /\ action'[InitProc] = action[InitProc]
  <2>1. \/ UNCHANGED <<mask, action>>
        \/ /\ mask' = [mask EXCEPT ![p] = mask[p] \union SaMask]
           /\ action' = [action EXCEPT ![p] = [action[p] EXCEPT ![s] =
                           IF action[p][s] = "once" THEN "default" ELSE action[p][s]]]
    BY DEF DeliverCustom
  <2>2. /\ mask \in [Proc -> SUBSET Signal] /\ SaMask \subseteq Signal
        /\ action \in [Proc -> [Signal -> {"default", "ignore", "catch", "once"}]]
    BY <1>1, ProcessAssumption DEF TypeOK
  <2>. HIDE DEF s
  <2>3. [action[p] EXCEPT ![s] = IF action[p][s] = "once" THEN "default" ELSE action[p][s]]
          \in [Signal -> {"default", "ignore", "catch", "once"}]
    BY <1>4, <2>2
  <2>4. mask' \in [Proc -> SUBSET Signal]
    BY SMT, <2>1, <2>2
  <2>5. /\ action' \in [Proc -> [Signal -> {"default", "ignore", "catch", "once"}]]
        /\ action'[InitProc] = action[InitProc]
    <3> DEFINE b == [action[p] EXCEPT ![s] = IF action[p][s] = "once" THEN "default"
                                             ELSE action[p][s]]
    <3>1. UNCHANGED action \/ action' = [action EXCEPT ![p] = b]
      BY <2>1
    <3>2. b \in [Signal -> {"default", "ignore", "catch", "once"}]
      BY <2>3
    <3>. HIDE DEF b
    <3>3. /\ action \in [Proc -> [Signal -> {"default", "ignore", "catch", "once"}]]
          /\ InitProc \in Proc
      BY <2>2, ProcessAssumption
    <3>4. QED
      BY <1>3, <3>1, <3>2, <3>3
  <2>6. QED
    BY <2>4, <2>5
<1>. HIDE DEF i, s, w
<1>8. w.sigq[InitProc] = sigq[InitProc] /\ Signalled(w, w)
  BY <1>1, <1>5, SignalledReflexive DEF Signalled
<1>9. QED
  BY <1>1, <1>2, <1>3, <1>5, <1>6, <1>7, <1>8, SignalSteps DEF Place

\* Lists are concatenated when init adopts the children of a process.
LEMMA ConcatFacts ==
  ASSUME NEW S, NEW s \in Seq(S), NEW t \in Seq(S)
  PROVE  /\ s \o t \in Seq(S)
         /\ Range(s \o t) = Range(s) \cup Range(t)
         /\ IsInjective(s) /\ IsInjective(t) /\ Range(s) \cap Range(t) = {}
              => IsInjective(s \o t)
<1> DEFINE r == s \o t
<1>1. /\ Len(s) \in Nat /\ Len(t) \in Nat
      /\ DOMAIN s = 1 .. Len(s) /\ DOMAIN t = 1 .. Len(t)
  BY SMT
<1>2. /\ r \in Seq(S) /\ Len(r) = Len(s) + Len(t) /\ DOMAIN r = 1 .. Len(r)
      /\ \A i \in 1 .. Len(s) + Len(t) :
           r[i] = IF i <= Len(s) THEN s[i] ELSE t[i - Len(s)]
  BY SMT
<1>. HIDE DEF r
<1>3. Range(r) = Range(s) \cup Range(t)
  <2>1. \A x \in Range(s) : x \in Range(r)
    <3>1. TAKE x \in Range(s)
    <3>2. PICK i \in 1 .. Len(s) : x = s[i]
      BY <1>1 DEF Range
    <3>3. i \in 1 .. Len(r) /\ r[i] = x
      BY SMT, <1>1, <1>2, <3>2
    <3>4. QED
      BY <1>2, <3>3 DEF Range
  <2>2. \A x \in Range(t) : x \in Range(r)
    <3>1. TAKE x \in Range(t)
    <3>2. PICK i \in 1 .. Len(t) : x = t[i]
      BY <1>1 DEF Range
    <3>3. i + Len(s) \in 1 .. Len(r) /\ r[i + Len(s)] = x
      BY SMT, <1>1, <1>2, <3>2
    <3>4. QED
      BY <1>2, <3>3 DEF Range
  <2>3. \A x \in Range(r) : x \in Range(s) \cup Range(t)
    <3>1. TAKE x \in Range(r)
    <3>2. PICK i \in 1 .. Len(r) : x = r[i]
      BY <1>2 DEF Range
    <3>3. (i \in 1 .. Len(s) /\ x = s[i]) \/ (i - Len(s) \in 1 .. Len(t) /\ x = t[i - Len(s)])
      BY SMT, <1>1, <1>2, <3>2
    <3>4. QED
      BY <1>1, <3>3 DEF Range
  <2>4. QED
    BY <2>1, <2>2, <2>3
<1>4. ASSUME IsInjective(s), IsInjective(t), Range(s) \cap Range(t) = {}
      PROVE  IsInjective(r)
  <2>1. ASSUME NEW i \in 1 .. Len(r), NEW j \in 1 .. Len(r), r[i] = r[j]
        PROVE  i = j
    <3>1. CASE i <= Len(s) /\ j <= Len(s)
      <4>1. i \in DOMAIN s /\ j \in DOMAIN s /\ s[i] = s[j]
        BY SMT, <1>1, <1>2, <2>1, <3>1
      <4>2. QED
        BY <1>4, <4>1 DEF IsInjective
    <3>2. CASE i > Len(s) /\ j > Len(s)
      <4>1. /\ i - Len(s) \in DOMAIN t /\ j - Len(s) \in DOMAIN t
            /\ t[i - Len(s)] = t[j - Len(s)]
        BY SMT, <1>1, <1>2, <2>1, <3>2
      <4>2. i - Len(s) = j - Len(s)
        BY <1>4, <4>1 DEF IsInjective
      <4>3. QED
        BY SMT, <1>1, <4>2
    <3>3. CASE i <= Len(s) /\ j > Len(s)
      <4>1. i \in DOMAIN s /\ j - Len(s) \in DOMAIN t /\ s[i] = t[j - Len(s)]
        BY SMT, <1>1, <1>2, <2>1, <3>3
      <4>2. QED
        BY <1>4, <4>1 DEF Range
    <3>4. CASE i > Len(s) /\ j <= Len(s)
      <4>1. j \in DOMAIN s /\ i - Len(s) \in DOMAIN t /\ s[j] = t[i - Len(s)]
        BY SMT, <1>1, <1>2, <2>1, <3>4
      <4>2. QED
        BY <1>4, <4>1 DEF Range
    <3>5. QED
      BY SMT, <1>1, <1>2, <3>1, <3>2, <3>3, <3>4
  <2>2. QED
    BY <1>2, <2>1 DEF IsInjective
<1>5. QED
  BY <1>2, <1>3, <1>4 DEF r

LEMMA WaitSleepKeepsFamily ==
  ASSUME FamilyInv, NEW p \in Proc, WaitSleep(p)
  PROVE  FamilyInv'
<1>1. TypeOK /\ pc[p] = "wait"
  BY DEF FamilyInv, FamilyAgrees, WaitSleep, Kernel
<1>2. CASE pc' = [pc EXCEPT ![p] = "return"] /\ call' = [call EXCEPT ![p] = NoCall]
  BY <1>1, <1>2, NoCallTyped, MoveKeepsFamily DEF WaitSleep, Place, TypeOK
<1>3. CASE Matches(p) # {} /\ pc' = [pc EXCEPT ![p] = "waiting"] /\ UNCHANGED call
  <2>1. UNCHANGED <<state, parent, children, sigq, mask, action, panic, call>>
    BY <1>3 DEF WaitSleep
  <2>2. /\ pc' \in [Proc -> Place]
        /\ \A q \in Proc : pc'[q] = IF q = p THEN "waiting" ELSE pc[q]
    BY <1>1, <1>3 DEF TypeOK, Place
  <2>3. state[p] = "active"
    BY <1>1, RunsActive
  <2>4. TypeOK'
    BY <1>1, <2>1, <2>2 DEF TypeOK
  <2>5. FamilyAgrees'
    BY <2>1, <2>4 DEF FamilyInv, FamilyAgrees, Listed
  <2>6. InitRuns'
    BY <2>1, <2>2, ProcessAssumption DEF FamilyInv, InitRuns, InitIgnores
  <2>7. PlacesAgree' /\ NoLoops' /\ StoppedStaysOut'
    BY <1>1, <2>1, <2>2, <2>3
       DEF FamilyInv, PlacesAgree, NoLoops, StoppedStaysOut, Listed
  <2>8. WaitersWait'
    <3>1. \A q \in Proc : Available(q)' = Available(q) /\ Matches(q)' = Matches(q)
      BY <2>1 DEF Available, Matches
    <3>2. Available(p) = {} /\ Matches(p) # {}
      BY <1>3 DEF WaitSleep
    <3>3. QED
      BY <2>2, <3>1, <3>2 DEF FamilyInv, WaitersWait
  <2>9. QED
    BY <2>5, <2>6, <2>7, <2>8 DEF FamilyInv
<1>4. QED
  BY <1>2, <1>3 DEF WaitSleep

LEMMA ReapKeepsFamily ==
  ASSUME FamilyInv, NEW p \in Proc, Reap(p)
  PROVE  FamilyInv'
<1>1. TypeOK /\ pc[p] = "wait"
  BY DEF FamilyInv, FamilyAgrees, Reap, Kernel
<1>2. PICK c \in Available(p) :
        /\ children' = [children EXCEPT ![p] = Remove(children[p], c)]
        /\ state' = [state EXCEPT ![c] = Freed]
        /\ pc' = [pc EXCEPT ![p] = "return", ![c] = "none"]
  BY DEF Reap
<1>3. call' = [call EXCEPT ![p] = NoCall] /\ UNCHANGED <<parent, sigq, mask, action, panic>>
  BY DEF Reap
<1>4. /\ c \in Range(children[p]) /\ state[c] = "zombie"
      /\ c \in Proc \ {InitProc} /\ parent[c] = p
  BY <1>2 DEF Available, Matches, FamilyInv, FamilyAgrees
<1>5. state[p] = "active" /\ p # c
  BY <1>1, <1>4, RunsActive
<1>6. /\ state' \in [Proc -> ProcState] /\ pc' \in [Proc -> Place]
      /\ \A q \in Proc : state'[q] = IF q = c THEN Freed ELSE state[q]
      /\ \A q \in Proc : pc'[q] = IF q = c THEN "none" ELSE IF q = p THEN "return" ELSE pc[q]
  BY <1>1, <1>2, <1>4, <1>5 DEF TypeOK, Place, ProcState, Freed
<1>7. Freed \in {"none", "gone"}
  BY DEF Freed
<1>8. \A q \in Proc : Listed(q)' <=> Listed(q) /\ q # c
  BY <1>6, <1>7 DEF Listed
<1>9. /\ children' \in [Proc -> Seq(Proc)]
      /\ \A q \in Proc : /\ IsInjective(children'[q])
                         /\ Range(children'[q]) = Range(children[q]) \ {c}
                         /\ children[q] = <<>> => children'[q] = <<>>
  <2>1. children \in [Proc -> Seq(Proc)] /\ \A q \in Proc : IsInjective(children[q])
    BY <1>1 DEF TypeOK, FamilyInv, FamilyAgrees
  <2>2. /\ Remove(children[p], c) \in Seq(Proc) /\ IsInjective(Remove(children[p], c))
        /\ Range(Remove(children[p], c)) = Range(children[p]) \ {c}
    BY <2>1, RemoveFacts
  <2>3. \A q \in Proc \ {p} : c \notin Range(children[q])
    BY SMT, <1>4 DEF FamilyInv, FamilyAgrees
  <2>4. children[p] # <<>>
    BY SMT, <1>4 DEF Range
  <2>5. QED
    BY <1>2, <2>1, <2>2, <2>3, <2>4
<1>10. call' \in [Proc -> CallType] /\ \A q \in Proc \ {p} : call'[q] = call[q]
  <2>1. call \in [Proc -> CallType]
    BY <1>1 DEF TypeOK, CallType
  <2>2. QED
    BY <1>3, <2>1, NoCallTyped
<1>11. TypeOK'
  BY ZenonT(30), <1>1, <1>3, <1>5, <1>6, <1>7, <1>9, <1>10 DEF TypeOK, ProcState, CallType
<1>12. FamilyAgrees'
  <2>1. \A q \in Proc : Listed(q)' /\ q # InitProc =>
          parent'[q] \in Proc /\ state'[parent'[q]] \in {"active", "stopped"}
    BY <1>3, <1>4, <1>6, <1>8 DEF FamilyInv, FamilyAgrees
  <2>2. \A q \in Proc : Range(children'[q]) =
          {d \in Proc \ {InitProc} : Listed(d)' /\ parent'[d] = q}
    BY SMT, <1>3, <1>8, <1>9 DEF FamilyInv, FamilyAgrees
  <2>3. QED
    BY <1>9, <1>11, <2>1, <2>2 DEF FamilyAgrees
<1>13. InitRuns'
  BY <1>3, <1>4, <1>6, ProcessAssumption DEF FamilyInv, InitRuns, InitIgnores
<1>14. PlacesAgree' /\ StoppedStaysOut'
  BY <1>5, <1>6, <1>7 DEF FamilyInv, PlacesAgree, StoppedStaysOut
<1>15. NoLoops'
  BY <1>3, <1>8 DEF FamilyInv, NoLoops
<1>16. WaitersWait'
  <2>1. ASSUME NEW q \in Proc, pc'[q] = "waiting"
        PROVE  Available(q)' = {} /\ Matches(q)' # {}
    <3>1. q # p /\ q # c /\ pc[q] = "waiting"
      BY <1>6, <2>1
    <3>2. c \notin Range(children[q])
      BY <1>4, <3>1 DEF FamilyInv, FamilyAgrees
    <3>3. Matches(q)' = Matches(q)
      BY <1>9, <1>10, <3>1, <3>2 DEF Matches
    <3>4. \A d \in Matches(q) : d \in Proc /\ state'[d] = state[d]
      BY <1>6, <3>2 DEF Matches, FamilyInv, FamilyAgrees
    <3>5. Available(q)' = Available(q)
      BY <3>3, <3>4 DEF Available
    <3>6. QED
      BY <3>1, <3>3, <3>5 DEF FamilyInv, WaitersWait
  <2>2. QED
    BY <2>1 DEF WaitersWait
<1>17. QED
  BY <1>12, <1>13, <1>14, <1>15, <1>16 DEF FamilyInv

LEMMA ForkKeepsFamily ==
  ASSUME FamilyInv, NEW p \in Proc \ {InitProc}, NEW q \in Proc, Fork(p, q)
  PROVE  FamilyInv'
<1>1. TypeOK /\ pc[p] = "user" /\ state[q] = "none"
  BY DEF FamilyInv, FamilyAgrees, Fork, User
<1>2. state[p] = "active" /\ q # p /\ q # InitProc /\ InitProc \in Proc
  BY <1>1, RunsActive, ProcessAssumption DEF FamilyInv, InitRuns
<1>3. /\ state' \in [Proc -> ProcState] /\ pc' \in [Proc -> Place]
      /\ parent' \in [Proc -> Proc \cup {NoProc}]
      /\ \A r \in Proc : state'[r] = IF r = q THEN "active" ELSE state[r]
      /\ \A r \in Proc : parent'[r] = IF r = q THEN p ELSE parent[r]
      /\ \A r \in Proc : pc'[r] = IF r = p THEN "return" ELSE IF r = q THEN "user" ELSE pc[r]
  BY <1>1, <1>2 DEF Fork, TypeOK, Place, ProcState
<1>4. \A r \in Proc : Listed(r)' <=> Listed(r) \/ r = q
  BY <1>1, <1>3 DEF Listed
<1>5. ~Listed(q) /\ \A r \in Proc : q \notin Range(children[r])
  BY SMT, <1>1 DEF Listed, FamilyInv, FamilyAgrees
<1>6. \A r \in Proc \ {InitProc} : Listed(r) => parent[r] # q
  BY <1>1 DEF FamilyInv, FamilyAgrees
<1>7. Range(children[q]) = {}
  BY <1>6 DEF FamilyInv, FamilyAgrees
<1>8. /\ children' \in [Proc -> Seq(Proc)]
      /\ \A r \in Proc : /\ IsInjective(children'[r])
                         /\ Range(children'[r]) =
                              Range(children[r]) \cup (IF r = p THEN {q} ELSE {})
                         /\ r # p /\ children[r] = <<>> => children'[r] = <<>>
  <2>1. children \in [Proc -> Seq(Proc)] /\ \A r \in Proc : IsInjective(children[r])
    BY <1>1 DEF TypeOK, FamilyInv, FamilyAgrees
  <2>2. /\ Append(children[p], q) \in Seq(Proc) /\ IsInjective(Append(children[p], q))
        /\ Range(Append(children[p], q)) = Range(children[p]) \cup {q}
    BY SMT, <1>5, <2>1, AppendFacts
  <2>3. IsInjective(<<>>) /\ <<>> \in Seq(Proc) /\ Range(<<>>) = {}
    BY SMT DEF IsInjective, Range
  <2>4. /\ children' \in [Proc -> Seq(Proc)]
        /\ \A r \in Proc : children'[r] = IF r = p THEN Append(children[p], q)
                                          ELSE IF r = q THEN <<>> ELSE children[r]
    BY <1>2, <2>1, <2>2, <2>3 DEF Fork
  <2>5. QED
    BY <1>2, <1>7, <2>1, <2>2, <2>3, <2>4
<1>9. /\ sigq' \in [Proc -> Seq(Entry)] /\ sigq'[InitProc] = sigq[InitProc]
  <2> DEFINE f == [i \in DOMAIN sigq[q] |-> [sigq[q][i] EXCEPT !.held = FALSE]]
  <2>1. sigq \in [Proc -> Seq(Entry)]
    BY <1>1 DEF TypeOK, Entry
  <2>2. f \in Seq(Entry)
    <3>1. DOMAIN sigq[q] = 1 .. Len(sigq[q]) /\ Len(sigq[q]) \in Nat
          /\ \A i \in 1 .. Len(sigq[q]) : sigq[q][i] \in Entry
      BY SMT, <2>1
    <3>2. \A e \in Entry : [e EXCEPT !.held = FALSE] \in Entry
      BY DEF Entry
    <3>3. f \in [1 .. Len(sigq[q]) -> Entry]
      BY <3>1, <3>2
    <3>. HIDE DEF f
    <3>4. QED
      BY SMT, <3>1, <3>3
  <2>3. sigq' = [sigq EXCEPT ![q] = f]
    BY DEF Fork
  <2>. HIDE DEF f
  <2>4. QED
    BY <1>2, <2>1, <2>2, <2>3
<1>10. /\ mask' \in [Proc -> SUBSET Signal] /\ UNCHANGED <<call, panic>>
       /\ action' \in [Proc -> [Signal -> {"default", "ignore", "catch", "once"}]]
       /\ action'[InitProc] = action[InitProc]
  <2>1. mask' \in [Proc -> SUBSET Signal] /\ UNCHANGED <<call, panic>>
    BY <1>1 DEF Fork, TypeOK
  <2>2. /\ action \in [Proc -> [Signal -> {"default", "ignore", "catch", "once"}]]
        /\ action' = [action EXCEPT ![q] = action[p]]
    BY <1>1 DEF Fork, TypeOK
  <2>3. QED
    BY <1>2, <2>1, <2>2
<1>11. TypeOK'
  BY <1>1, <1>2, <1>3, <1>8, <1>9, <1>10 DEF TypeOK, ProcState, Entry
<1>12. FamilyAgrees'
  <2>1. \A r \in Proc : Listed(r)' /\ r # InitProc =>
          parent'[r] \in Proc /\ state'[parent'[r]] \in {"active", "stopped"}
    BY SMT, <1>2, <1>3, <1>4, <1>6 DEF FamilyInv, FamilyAgrees
  <2>2. \A r \in Proc : Range(children'[r]) =
          {d \in Proc \ {InitProc} : Listed(d)' /\ parent'[d] = r}
    <3>1. TAKE r \in Proc
    <3>2. Range(children[r]) = {d \in Proc \ {InitProc} : Listed(d) /\ parent[d] = r}
      BY DEF FamilyInv, FamilyAgrees
    <3>3. \A d \in Proc \ {InitProc} : Listed(d)' /\ parent'[d] = r <=>
             (Listed(d) /\ parent[d] = r) \/ (d = q /\ r = p)
      BY <1>3, <1>4, <1>5
    <3>4. Range(children'[r]) = {d \in Proc : d \in Range(children[r]) \/ (d = q /\ r = p)}
      BY <1>8, <3>2
    <3>5. QED
      BY <1>2, <3>2, <3>3, <3>4
  <2>3. QED
    BY <1>8, <1>11, <2>1, <2>2 DEF FamilyAgrees
<1>13. InitRuns'
  BY <1>2, <1>3, <1>9, <1>10 DEF FamilyInv, InitRuns, InitIgnores
<1>14. PlacesAgree' /\ StoppedStaysOut'
  BY <1>2, <1>3 DEF FamilyInv, PlacesAgree, StoppedStaysOut
<1>15. NoLoops'
  BY <1>2, <1>3, <1>4 DEF FamilyInv, NoLoops
<1>16. WaitersWait'
  <2>1. ASSUME NEW r \in Proc, pc'[r] = "waiting"
        PROVE  Available(r)' = {} /\ Matches(r)' # {}
    <3>1. r # p /\ r # q /\ pc[r] = "waiting"
      BY <1>3, <2>1
    <3>2. Matches(r)' = Matches(r)
      BY <1>8, <1>10, <3>1 DEF Matches
    <3>3. \A d \in Matches(r) : d \in Proc /\ state'[d] = state[d]
      BY SMT, <1>3, <1>5 DEF Matches, FamilyInv, FamilyAgrees
    <3>4. Available(r)' = Available(r)
      BY <3>2, <3>3 DEF Available
    <3>5. QED
      BY <3>1, <3>2, <3>4 DEF FamilyInv, WaitersWait
  <2>2. QED
    BY <2>1 DEF WaitersWait
<1>17. QED
  BY <1>12, <1>13, <1>14, <1>15, <1>16 DEF FamilyInv

\* process_destroy() up to the moves of the children: what it does to the states
\* and to the threads that sleep.
LEMMA DestroyFacts ==
  ASSUME FamilyInv, NEW p \in Proc, Destroy(p)
  PROVE  /\ p # InitProc /\ state[p] = "active" /\ parent[p] \in Proc \ {p}
         /\ state' \in [Proc -> ProcState] /\ sigq' \in [Proc -> Seq(Entry)]
         /\ pc' \in [Proc -> Place] /\ sigq'[InitProc] = sigq[InitProc]
         /\ state'[p] = "zombie" /\ pc'[p] = "dead"
         /\ \A q \in Proc \ {p} :
              /\ state'[q] = state[q]
              /\ \/ pc'[q] = pc[q]
                 \/ pc[q] = "waiting" /\ pc'[q] = "wait"
                 \/ pc[q] = "pausing" /\ pc'[q] = "resume"
         /\ pc'[parent[p]] # "waiting"
         /\ (\E c \in Range(children[p]) : state[c] = "zombie") => pc'[InitProc] # "waiting"
<1> DEFINE w == [World EXCEPT !.state[p] = "zombie"]
           u == IF \E c \in Range(children[p]) : state[c] = "zombie"
                THEN WakeupWaiter(w, InitProc) ELSE w
           v == Notify(u, p)
<1>1. /\ TypeOK /\ World \in WorldType /\ World.state = state /\ World.sigq = sigq
      /\ World.pc = pc /\ InitProc \in Proc
  BY WorldTyped, ProcessAssumption DEF FamilyInv, FamilyAgrees
<1>2. pc[p] = "exit" /\ Become(v, p, "dead")
  BY DEF Destroy, Kernel
<1>3. p # InitProc /\ state[p] = "active"
  BY <1>2, RunsActive DEF FamilyInv, InitRuns
<1>4. parent[p] \in Proc \ {p}
  BY <1>3 DEF FamilyInv, FamilyAgrees, NoLoops, Listed
<1>5. /\ w \in WorldType /\ w.sigq = sigq /\ w.pc = pc
      /\ \A q \in Proc : w.state[q] = IF q = p THEN "zombie" ELSE state[q]
  BY <1>1 DEF WorldType, ProcState
<1>. HIDE DEF w
<1>6. /\ Signalled(w, u) /\ u.state = w.state
      /\ (\E c \in Range(children[p]) : state[c] = "zombie") => u.pc[InitProc] # "waiting"
  BY <1>1, <1>5, WakeupFacts, SignalledReflexive
<1>. HIDE DEF u
<1>7. u \in WorldType /\ u.state[p] = "zombie" /\ parent[p] # NoProc
  BY <1>4, <1>5, <1>6, ProcessAssumption DEF Signalled
<1>8. Signalled(u, v) /\ v.state = u.state /\ v.pc[parent[p]] # "waiting"
  BY <1>4, <1>7, NotifyFacts DEF FamilyInv, InitRuns
<1>. HIDE DEF v
<1>9. Signalled(w, v)
  BY <1>6, <1>8, SignalledTransitive
<1>10. /\ v.state \in [Proc -> ProcState] /\ v.sigq \in [Proc -> Seq(Entry)]
       /\ v.pc \in [Proc -> Place] /\ "dead" \in Place
  BY <1>8 DEF Signalled, WorldType, Place
<1>11. /\ state' = v.state /\ sigq' = v.sigq /\ pc' = [v.pc EXCEPT ![p] = "dead"]
  BY <1>2 DEF Become
<1>12. /\ state' \in [Proc -> ProcState] /\ sigq' \in [Proc -> Seq(Entry)]
       /\ pc' \in [Proc -> Place] /\ state'[p] = "zombie" /\ pc'[p] = "dead"
       /\ sigq'[InitProc] = sigq[InitProc]
       /\ \A q \in Proc \ {p} : pc'[q] = v.pc[q] /\ state'[q] = state[q]
  BY <1>5, <1>6, <1>8, <1>9, <1>10, <1>11 DEF Signalled
<1>13. \A q \in Proc : \/ v.pc[q] = pc[q]
                       \/ pc[q] = "waiting" /\ v.pc[q] = "wait"
                       \/ pc[q] = "pausing" /\ v.pc[q] = "resume"
  BY <1>5, <1>9 DEF Signalled, Nudged
<1>14. (\E c \in Range(children[p]) : state[c] = "zombie") => v.pc[InitProc] # "waiting"
  BY <1>1, <1>6, <1>8 DEF Signalled, Nudged
<1>15. QED
  BY ZenonT(30), <1>1, <1>3, <1>4, <1>8, <1>12, <1>13, <1>14

LEMMA DestroyKeepsFamily ==
  ASSUME FamilyInv, NEW p \in Proc, Destroy(p)
  PROVE  FamilyInv'
<1>1. TypeOK /\ InitProc \in Proc /\ NoProc \notin Proc
  BY ProcessAssumption DEF FamilyInv, FamilyAgrees
<1>2. /\ p # InitProc /\ state[p] = "active" /\ parent[p] \in Proc \ {p}
      /\ state' \in [Proc -> ProcState] /\ sigq' \in [Proc -> Seq(Entry)]
      /\ pc' \in [Proc -> Place] /\ sigq'[InitProc] = sigq[InitProc]
      /\ state'[p] = "zombie" /\ pc'[p] = "dead"
      /\ \A q \in Proc \ {p} :
           /\ state'[q] = state[q]
           /\ \/ pc'[q] = pc[q]
              \/ pc[q] = "waiting" /\ pc'[q] = "wait"
              \/ pc[q] = "pausing" /\ pc'[q] = "resume"
      /\ pc'[parent[p]] # "waiting"
      /\ (\E c \in Range(children[p]) : state[c] = "zombie") => pc'[InitProc] # "waiting"
  BY DestroyFacts
<1>3. UNCHANGED <<mask, action, call, panic>>
  BY DEF Destroy
<1>4. \A q \in Proc : Listed(q)' <=> Listed(q)
  BY <1>2 DEF Listed
<1>5. /\ parent' \in [Proc -> Proc \cup {NoProc}]
      /\ \A c \in Proc : parent'[c] = IF c \in Range(children[p]) THEN InitProc ELSE parent[c]
  BY <1>1 DEF Destroy, TypeOK
<1>6. \A q \in Proc : Range(children[q]) =
                        {c \in Proc \ {InitProc} : Listed(c) /\ parent[c] = q}
  BY DEF FamilyInv, FamilyAgrees
<1>7. /\ children' \in [Proc -> Seq(Proc)]
      /\ \A q \in Proc : IsInjective(children'[q])
      /\ \A q \in Proc \ {p, InitProc} : children'[q] = children[q]
      /\ children'[p] = <<>> /\ Range(children'[p]) = {}
      /\ Range(children'[InitProc]) = Range(children[InitProc]) \cup Range(children[p])
  <2>1. children \in [Proc -> Seq(Proc)] /\ \A q \in Proc : IsInjective(children[q])
    BY <1>1 DEF TypeOK, FamilyInv, FamilyAgrees
  <2>2. Range(children[InitProc]) \cap Range(children[p]) = {}
    <3>1. /\ \A c \in Range(children[InitProc]) : parent[c] = InitProc
          /\ \A c \in Range(children[p]) : parent[c] = p
      BY <1>1, <1>6
    <3>2. QED
      BY SMT, <1>2, <3>1
  <2>3. /\ children[InitProc] \o children[p] \in Seq(Proc)
        /\ IsInjective(children[InitProc] \o children[p])
        /\ Range(children[InitProc] \o children[p]) =
             Range(children[InitProc]) \cup Range(children[p])
    BY SMT, <1>1, <2>1, <2>2, ConcatFacts
  <2>4. IsInjective(<<>>) /\ <<>> \in Seq(Proc) /\ Range(<<>>) = {}
    BY SMT DEF IsInjective, Range
  <2>5. children' = [children EXCEPT ![p] = <<>>,
                                     ![InitProc] = children[InitProc] \o children[p]]
    BY <1>2, <2>1 DEF Destroy
  <2>. QED
    BY <1>1, <1>2, <2>1, <2>3, <2>4, <2>5
<1>8. TypeOK'
  <2>1. \A q \in Proc : state'[q] = "zombie" <=> pc'[q] = "dead"
    BY <1>1, <1>2 DEF TypeOK
  <2>2. \A q \in Proc : state'[q] = "zombie" => children'[q] = <<>>
    BY <1>1, <1>2, <1>7 DEF TypeOK, FamilyInv, InitRuns
  <2>3. QED
    BY <1>1, <1>2, <1>3, <1>5, <1>7, <2>1, <2>2 DEF TypeOK, ProcState, Entry
<1>9. FamilyAgrees'
  <2>1. \A q \in Proc : Listed(q)' /\ q # InitProc =>
          parent'[q] \in Proc /\ state'[parent'[q]] \in {"active", "stopped"}
    <3>1. TAKE q \in Proc
    <3>2. HAVE Listed(q)' /\ q # InitProc
    <3>3. CASE q \in Range(children[p])
      BY <1>1, <1>2, <1>5, <3>3 DEF FamilyInv, InitRuns
    <3>4. CASE q \notin Range(children[p])
      <4>1. parent[q] # p /\ parent'[q] = parent[q]
        BY <1>4, <1>5, <1>6, <3>2, <3>4
      <4>2. parent[q] \in Proc /\ state[parent[q]] \in {"active", "stopped"}
        BY <1>4, <3>2 DEF FamilyInv, FamilyAgrees
      <4>3. QED
        BY <1>2, <4>1, <4>2
    <3>5. QED
      BY <3>3, <3>4
  <2>2. \A q \in Proc : Range(children'[q]) =
          {d \in Proc \ {InitProc} : Listed(d)' /\ parent'[d] = q}
    <3>1. \A d \in Proc \ {InitProc} : Listed(d)' /\ parent'[d] = p <=> FALSE
      BY <1>2, <1>4, <1>5, <1>6
    <3>2. \A d \in Proc \ {InitProc} : Listed(d)' /\ parent'[d] = InitProc <=>
             d \in Range(children[InitProc]) \cup Range(children[p])
      BY <1>1, <1>4, <1>5, <1>6
    <3>3. \A q \in Proc \ {p, InitProc} : \A d \in Proc \ {InitProc} :
             Listed(d)' /\ parent'[d] = q <=> d \in Range(children[q])
      BY SMT, <1>4, <1>5, <1>6
    <3>4. \A q \in Proc : Range(children[q]) \subseteq Proc \ {InitProc}
      BY <1>6
    <3>5. TAKE q \in Proc
    <3>6. CASE q = p
      BY <1>7, <3>1, <3>6
    <3>7. CASE q = InitProc
      BY <1>7, <3>2, <3>4, <3>7
    <3>8. CASE q \notin {p, InitProc}
      BY ZenonT(30), <1>7, <3>3, <3>4, <3>8
    <3>9. QED
      BY <3>6, <3>7, <3>8
  <2>3. QED
    BY <1>7, <1>8, <2>1, <2>2 DEF FamilyAgrees
<1>10. InitRuns'
  <2>1. InitProc \notin Range(children[p])
    BY <1>6
  <2>2. QED
    BY <1>1, <1>2, <1>3, <1>5, <2>1 DEF FamilyInv, InitRuns, InitIgnores
<1>11. PlacesAgree' /\ StoppedStaysOut'
  BY <1>2 DEF FamilyInv, PlacesAgree, StoppedStaysOut
<1>12. NoLoops'
  BY <1>4, <1>5, <1>6 DEF FamilyInv, NoLoops
<1>13. WaitersWait'
  <2>1. ASSUME NEW q \in Proc, pc'[q] = "waiting"
        PROVE  Available(q)' = {} /\ Matches(q)' # {}
    <3>1. q # p /\ q # parent[p] /\ pc[q] = "waiting"
      BY <1>2, <2>1
    <3>2. Available(q) = {} /\ Matches(q) # {}
      BY <3>1 DEF FamilyInv, WaitersWait
    <3>3. \A c \in Range(children[q]) : c \in Proc \ {p} /\ state'[c] = state[c]
      BY SMT, <1>2, <1>6, <3>1
    <3>4. CASE q # InitProc
      <4>1. Matches(q)' = Matches(q)
        BY <1>3, <1>7, <3>1, <3>4 DEF Matches
      <4>2. \A c \in Matches(q) : state'[c] = state[c]
        BY <3>3 DEF Matches
      <4>3. Available(q)' = Available(q)
        BY <4>1, <4>2 DEF Available
      <4>4. QED
        BY <3>2, <4>1, <4>3
    <3>5. CASE q = InitProc
      <4>1. \A c \in Range(children[p]) : state[c] # "zombie"
        BY <1>2, <2>1, <3>5
      <4>2. \A c \in Range(children[p]) : c \in Proc \ {p} /\ state'[c] = state[c]
        BY SMT, <1>2, <1>6 DEF FamilyInv, NoLoops
      <4>3. Range(children[q])' = Range(children[q]) \cup Range(children[p])
        BY <1>7, <3>5
      <4>4. \A c : c \in Matches(q)' <=> c \in Range(children[q]) \cup Range(children[p])
                                         /\ call[q].child \in {NoProc, c}
        BY <1>3, <4>3 DEF Matches
      <4>5. \A c \in Available(q)' : c \in Available(q)
        BY <3>3, <4>1, <4>2, <4>4 DEF Available, Matches
      <4>6. Matches(q) \subseteq Matches(q)'
        BY <4>4 DEF Matches
      <4>7. QED
        BY <3>2, <4>5, <4>6
    <3>6. QED
      BY <3>4, <3>5
  <2>2. QED
    BY <2>1 DEF WaitersWait
<1>14. QED
  BY <1>9, <1>10, <1>11, <1>12, <1>13 DEF FamilyInv

LEMMA FamilyStep ==
  ASSUME FamilyInv, [Next]_vars
  PROVE  FamilyInv'
<1>1. CASE InitProgram
  <2>1. \E child \in Proc \cup {NoProc}, nohang \in BOOLEAN : SysWait(InitProc, child, nohang)
    BY <1>1 DEF InitProgram
  <2>2. QED
    BY <2>1, CallSteps, ProcessAssumption
<1>2. ASSUME NEW p \in Proc \ {InitProc}, Program(p) PROVE FamilyInv'
  <2>1. ASSUME NEW q \in Proc, Fork(p, q) PROVE FamilyInv'
    BY <2>1, ForkKeepsFamily
  <2>2. ASSUME NEW child \in Range(children[p]) \union {NoProc}, NEW nohang \in BOOLEAN,
               SysWait(p, child, nohang)
        PROVE  FamilyInv'
    <3>1. child \in Proc \union {NoProc}
      BY <2>2 DEF FamilyInv, FamilyAgrees
    <3>2. QED
      BY <2>2, <3>1, CallSteps
  <2>3. ASSUME NEW q \in Proc \ {InitProc}, NEW s \in Sent, Kill(p, q, s) PROVE FamilyInv'
    BY <2>3, KillKeepsFamily
  <2>4. ASSUME NEW s \in Caught, NEW a \in Action, SetAction(p, s, a) PROVE FamilyInv'
    BY <2>4, SetActionKeepsFamily
  <2>5. CASE \E m \in Masks : SetMask(p, m) \/ SysSuspend(p, m)
    BY <2>5, CallSteps
  <2>6. CASE SysExit(p)
    BY <2>6, CallSteps
  <2>7. QED
    BY <1>2, <2>1, <2>2, <2>3, <2>4, <2>5, <2>6 DEF Program
<1>3. ASSUME NEW p \in Proc, System(p) PROVE FamilyInv'
  BY <1>3, CallSteps, ReapKeepsFamily, WaitSleepKeepsFamily, DestroyKeepsFamily,
     DeliverNoneKeepsFamily, DeliverDefaultKeepsFamily, DeliverCustomKeepsFamily,
     LeaveKeepsFamily DEF System
<1>4. CASE UNCHANGED vars
  <2>1. \A q \in Proc : Available(q)' = Available(q) /\ Matches(q)' = Matches(q)
    BY <1>4 DEF vars, Available, Matches
  <2>2. \A q \in Proc : Listed(q)' = Listed(q)
    BY <1>4 DEF vars, Listed
  <2>3. TypeOK'
    BY <1>4 DEF vars, TypeOK, FamilyInv, FamilyAgrees
  <2>4. FamilyAgrees'
    BY <1>4, <2>2, <2>3 DEF vars, FamilyInv, FamilyAgrees
  <2>5. QED
    BY SMT, <1>4, <2>1, <2>2, <2>4 DEF vars, FamilyInv, InitRuns, InitIgnores, PlacesAgree,
       NoLoops, StoppedStaysOut, WaitersWait
<1>5. QED
  BY <1>1, <1>2, <1>3, <1>4 DEF Next

LEMMA FamilyInit ==
  ASSUME Init
  PROVE  FamilyInv
<1>1. {InitProc, Shell} \subseteq Proc /\ InitProc # Shell /\ NoProc \notin Proc
  BY ProcessAssumption
<1>2. IsInjective(<<>>) /\ Range(<<>>) = {} /\ IsInjective(<<Shell>>)
      /\ Range(<<Shell>>) = {Shell}
  BY SMT DEF IsInjective, Range
<1>3. TypeOK
  <2>1. <<>> \in Seq(Proc) /\ <<Shell>> \in Seq(Proc) /\ <<>> \in Seq(Entry)
    BY SMT, <1>1
  <2>2. children \in [Proc -> Seq(Proc)] /\ sigq \in [Proc -> Seq(Entry)]
        /\ \A p \in Proc \ {InitProc} : children[p] = <<>>
    BY <2>1 DEF Init
  <2>3. call \in [Proc -> CallType]
    BY NoCallTyped DEF Init
  <2>4. /\ state \in [Proc -> ProcState] /\ pc \in [Proc -> Place]
        /\ \A p \in Proc : state[p] # "zombie" /\ pc[p] # "dead"
    BY DEF Init, ProcState, Place
  <2>5. /\ parent \in [Proc -> Proc \union {NoProc}] /\ mask \in [Proc -> SUBSET Signal]
        /\ panic \in BOOLEAN
        /\ action \in [Proc -> [Signal -> {"default", "ignore", "catch", "once"}]]
    BY <1>1 DEF Init
  <2>6. QED
    BY <2>2, <2>3, <2>4, <2>5 DEF TypeOK, ProcState, Entry, CallType
<1>4. FamilyAgrees
  BY <1>1, <1>2, <1>3 DEF Init, FamilyAgrees, Listed
<1>5. InitRuns /\ PlacesAgree /\ NoLoops /\ StoppedStaysOut /\ WaitersWait
  BY <1>1 DEF Init, InitRuns, InitIgnores, PlacesAgree, NoLoops, StoppedStaysOut, WaitersWait,
     Listed
<1>6. QED
  BY <1>4, <1>5 DEF FamilyInv

LEMMA FamilyAlways == Spec => []FamilyInv
BY FamilyInit, FamilyStep, PTL DEF Spec

\* The family tree is well formed whatever order processes fork, exit, are adopted
\* and are waited for in: every process but init is the child of one parent, which
\* is alive, and is linked on its list once.
THEOREM ProcessFamilyAgrees == Spec => []FamilyAgrees
<1>1. FamilyInv => FamilyAgrees
  BY DEF FamilyInv
<1>2. QED
  BY <1>1, FamilyAlways, PTL

\* Neither an exit nor an adoption loses the wakeup of a process that sleeps in
\* process_wait(): it has a child to wait for and none of them is a zombie.
THEOREM ProcessWaitersWait == Spec => []WaitersWait
<1>1. FamilyInv => WaitersWait
  BY DEF FamilyInv
<1>2. QED
  BY <1>1, FamilyAlways, PTL

\* A stopped process runs neither user code nor a system call.
THEOREM ProcessStoppedStaysOut == Spec => []StoppedStaysOut
<1>1. FamilyInv => StoppedStaysOut
  BY DEF FamilyInv
<1>2. QED
  BY <1>1, FamilyAlways, PTL
-----------------------------------------------------------------------------
(* Pending signals, as long as process_cache never hands out an object again. *)

\* The queue of p holds every signal at most once, all of them referred to by
\* signal_pending[]; that of a process that does not exist yet is empty.
QueueOK(w, p) ==
  /\ IsInjective(w.sigq[p])
  /\ Range(w.sigq[p]) \subseteq {Held(s) : s \in Signal}
  /\ w.state[p] = "none" => w.sigq[p] = <<>>

\* Stop signals and SIGCONT exclude each other.
StopOK(w, p) ==
  /\ ~(Pending(w, p, "STOP") /\ Pending(w, p, "CONT"))
  /\ w.state[p] = "stopped" => ~Pending(w, p, "CONT")

\* Nothing pending is ignored.
HeedOK(w, p) == \A s \in Signal : Pending(w, p, s) => ~Ignored(p, s)

SignalsOK(w) == \A p \in Proc : QueueOK(w, p) /\ StopOK(w, p) /\ HeedOK(w, p)

PendingInv == FamilyInv /\ ~panic /\ SignalsOK(World)

LEMMA HeldInjective ==
  ASSUME NEW s, NEW t, Held(s) = Held(t)
  PROVE  s = t
<1>1. Held(s).signo = s /\ Held(t).signo = t
  BY DEF Held
<1>2. QED
  BY <1>1

\* Threads that move leave signals alone.
LEMMA SameSignals ==
  ASSUME NEW w, NEW v, SignalsOK(w), v.state = w.state, v.sigq = w.sigq
  PROVE  SignalsOK(v)
BY DEF SignalsOK, QueueOK, StopOK, HeedOK, Pending

LEMMA DiscardOK ==
  ASSUME NEW w \in WorldType, SignalsOK(w), NEW p \in Proc, NEW s
  PROVE  LET v == Discard(w, p, s) IN
         /\ v \in WorldType /\ SignalsOK(v) /\ v.state = w.state
         /\ \A q \in Proc : \A t : Pending(v, q, t) <=> Pending(w, q, t) /\ (q # p \/ t # s)
<1> DEFINE v == Discard(w, p, s)
           r == Remove(w.sigq[p], Held(s))
<1>1. v \in WorldType /\ v.state = w.state /\ v.sigq = [w.sigq EXCEPT ![p] = r]
  BY SMT, DiscardFacts
<1>2. w.sigq \in [Proc -> Seq(Entry)]
  BY DEF WorldType
<1>3. IsInjective(w.sigq[p]) /\ w.sigq[p] \in Seq(Entry)
  BY <1>2 DEF SignalsOK, QueueOK
<1>4. IsInjective(r) /\ Range(r) = Range(w.sigq[p]) \ {Held(s)}
  BY <1>3, RemoveFacts
<1>5. w.sigq[p] = <<>> => r = <<>>
  BY SMT DEF Remove, Range
<1>. HIDE DEF v, r
<1>6. \A q \in Proc : v.sigq[q] = IF q = p THEN r ELSE w.sigq[q]
  BY <1>1, <1>2
<1>7. \A q \in Proc : \A t : Pending(v, q, t) <=> Pending(w, q, t) /\ (q # p \/ t # s)
  BY <1>4, <1>6, HeldInjective DEF Pending
<1>8. \A q \in Proc : QueueOK(v, q)
  BY <1>1, <1>4, <1>5, <1>6 DEF SignalsOK, QueueOK
<1>9. \A q \in Proc : StopOK(v, q) /\ HeedOK(v, q)
  BY <1>1, <1>7 DEF SignalsOK, StopOK, HeedOK
<1>10. QED
  BY <1>1, <1>7, <1>8, <1>9 DEF SignalsOK, v

LEMMA QueueKeepsOK ==
  ASSUME NEW w \in WorldType, SignalsOK(w), NEW p \in Proc, NEW s \in Signal,
         w.state[p] # "none", ~Pending(w, p, s),
         s = "STOP" => ~Pending(w, p, "CONT"),
         s = "CONT" => ~Pending(w, p, "STOP") /\ w.state[p] # "stopped"
  PROVE  LET v == Queue(w, p, s) IN
         /\ v \in WorldType /\ SignalsOK(v) /\ v.state = w.state
         /\ \A q \in Proc : \A t : t # s => (Pending(v, q, t) <=> Pending(w, q, t))
<1> DEFINE v == Queue(w, p, s)
           r == Append(w.sigq[p], Held(s))
<1>1. /\ v \in WorldType /\ v.state = w.state
      /\ v.sigq = IF Ignored(p, s) THEN w.sigq ELSE [w.sigq EXCEPT ![p] = r]
  BY QueueFacts
<1>2. w.sigq \in [Proc -> Seq(Entry)]
  BY DEF WorldType
<1>3. IsInjective(w.sigq[p]) /\ Held(s) \notin Range(w.sigq[p])
      /\ w.sigq[p] \in Seq(Entry) /\ Held(s) \in Entry
  BY <1>2 DEF SignalsOK, QueueOK, Pending, Held, Entry
<1>4. IsInjective(r) /\ Range(r) = Range(w.sigq[p]) \cup {Held(s)}
  BY SMT, <1>3, AppendFacts
<1>. HIDE DEF v, r
<1>5. CASE Ignored(p, s)
  <2>1. v.sigq = w.sigq
    BY <1>1, <1>5
  <2>2. SignalsOK(v)
    BY <1>1, <2>1, SameSignals
  <2>3. QED
    BY <1>1, <2>1, <2>2 DEF Pending, v
<1>6. CASE ~Ignored(p, s)
  <2>1. \A q \in Proc : v.sigq[q] = IF q = p THEN r ELSE w.sigq[q]
    BY <1>1, <1>2, <1>6
  <2>2. \A q \in Proc : \A t : Pending(v, q, t) <=> Pending(w, q, t) \/ (q = p /\ t = s)
    BY <1>4, <2>1, HeldInjective DEF Pending
  <2>3. \A q \in Proc : QueueOK(v, q)
    BY SMT, <1>1, <1>4, <2>1 DEF SignalsOK, QueueOK
  <2>4. \A q \in Proc : StopOK(v, q)
    BY SMT, <1>1, <2>2 DEF SignalsOK, StopOK
  <2>5. \A q \in Proc : HeedOK(v, q)
    BY <1>6, <2>2 DEF SignalsOK, HeedOK
  <2>6. QED
    BY <1>1, <2>2, <2>3, <2>4, <2>5 DEF SignalsOK, v
<1>7. QED
  BY <1>5, <1>6

LEMMA NotifyOK ==
  ASSUME NEW w \in WorldType, SignalsOK(w), NEW p \in Proc,
         parent[p] \in Proc => w.state[parent[p]] # "none",
         parent[p] \in Proc \cup {NoProc}
  PROVE  LET v == Notify(w, p) IN
         /\ v \in WorldType /\ SignalsOK(v) /\ v.state = w.state
         /\ \A q \in Proc : \A t : t # "CHLD" => (Pending(v, q, t) <=> Pending(w, q, t))
<1> DEFINE q == parent[p]
           u == IF Pending(w, q, "CHLD") THEN w ELSE Queue(w, q, "CHLD")
<1>1. CASE q = NoProc \/ (w.state[p] # "zombie" /\ q \in NoCldStop)
  BY <1>1 DEF Notify
<1>2. CASE ~(q = NoProc \/ (w.state[p] # "zombie" /\ q \in NoCldStop))
  <2>1. q \in Proc /\ "CHLD" \in Signal /\ w.state[q] # "none"
    BY <1>2, ProcessAssumption
  <2>2. /\ u \in WorldType /\ SignalsOK(u) /\ u.state = w.state
        /\ \A r \in Proc : \A t : t # "CHLD" => (Pending(u, r, t) <=> Pending(w, r, t))
    BY <2>1, QueueKeepsOK
  <2>3. Notify(w, p) = WakeupWaiter(u, q)
    BY <1>2 DEF Notify
  <2>. HIDE DEF u, q
  <2>4. /\ WakeupWaiter(u, q) \in WorldType /\ WakeupWaiter(u, q).state = u.state
        /\ WakeupWaiter(u, q).sigq = u.sigq
    BY <2>1, <2>2, WakeupFacts DEF Signalled
  <2>5. SignalsOK(WakeupWaiter(u, q))
    BY <2>2, <2>4, SameSignals
  <2>6. QED
    BY <2>2, <2>3, <2>4, <2>5 DEF Pending
<1>3. QED
  BY <1>1, <1>2

LEMMA ContinueOK ==
  ASSUME NEW w \in WorldType, SignalsOK(w), NEW p \in Proc,
         parent[p] \in Proc => w.state[parent[p]] # "none",
         parent[p] \in Proc \cup {NoProc}
  PROVE  LET v == Continue(w, p) IN
         /\ v \in WorldType /\ SignalsOK(v) /\ v.state[p] # "stopped"
         /\ \A q \in Proc : v.state[q] = "none" <=> w.state[q] = "none"
         /\ \A q \in Proc : \A t : t # "CHLD" => (Pending(v, q, t) <=> Pending(w, q, t))
<1>1. CASE w.state[p] # "stopped"
  BY <1>1 DEF Continue
<1>2. CASE w.state[p] = "stopped"
  <2> DEFINE a == [w EXCEPT !.state[p] = "active"]
             b == Interrupt(a, p)
  <2>1. /\ a \in WorldType /\ a.sigq = w.sigq /\ a.pc = w.pc
        /\ \A q \in Proc : a.state[q] = IF q = p THEN "active" ELSE w.state[q]
    BY DEF WorldType, ProcState
  <2>2. Continue(w, p) = Notify(b, p)
    BY <1>2 DEF Continue
  <2>. HIDE DEF a
  <2>3. \A q \in Proc : \A t : Pending(a, q, t) <=> Pending(w, q, t)
    BY <2>1 DEF Pending
  <2>4. SignalsOK(a)
    BY <1>2, <2>1, <2>3 DEF SignalsOK, QueueOK, StopOK, HeedOK
  <2>5. b \in WorldType /\ b.state = a.state /\ b.sigq = a.sigq
    BY <2>1, InterruptFacts DEF Signalled
  <2>. HIDE DEF b
  <2>6. SignalsOK(b) /\ \A q \in Proc : \A t : Pending(b, q, t) <=> Pending(w, q, t)
    BY <2>3, <2>4, <2>5, SameSignals DEF Pending
  <2>7. parent[p] \in Proc => b.state[parent[p]] # "none"
    BY <2>1, <2>5
  <2>8. /\ Notify(b, p) \in WorldType /\ SignalsOK(Notify(b, p))
        /\ Notify(b, p).state = b.state
        /\ \A q \in Proc : \A t : t # "CHLD" => (Pending(Notify(b, p), q, t) <=> Pending(b, q, t))
    BY <2>5, <2>6, <2>7, NotifyOK
  <2>9. /\ b.state[p] # "stopped"
        /\ \A q \in Proc : b.state[q] = "none" <=> w.state[q] = "none"
    BY <1>2, <2>1, <2>5
  <2>10. QED
    BY <2>2, <2>6, <2>8, <2>9
<1>3. QED
  BY <1>1, <1>2

LEMMA GenerateOK ==
  ASSUME NEW w \in WorldType, SignalsOK(w), NEW p \in Proc, NEW s \in Signal,
         w.state[p] # "none",
         parent[p] \in Proc => w.state[parent[p]] # "none",
         parent[p] \in Proc \cup {NoProc}
  PROVE  Generate(w, p, s) \in WorldType /\ SignalsOK(Generate(w, p, s))
<1> DEFINE d == Discard(w, p, "STOP")
           c == Discard(w, p, "CONT")
           k == Continue(d, p)
<1>1. CASE Pending(w, p, s)
  BY <1>1 DEF Generate
<1>2. CASE ~Pending(w, p, s) /\ s = "STOP"
  <2>1. Generate(w, p, s) = Queue(c, p, s)
    BY <1>2 DEF Generate
  <2>2. /\ c \in WorldType /\ SignalsOK(c) /\ c.state = w.state
        /\ ~Pending(c, p, s) /\ ~Pending(c, p, "CONT")
    BY <1>2, DiscardOK
  <2>. HIDE DEF c
  <2>3. QED
    BY SMT, <1>2, <2>1, <2>2, QueueKeepsOK
<1>3. CASE ~Pending(w, p, s) /\ s = "CONT"
  <2>1. Generate(w, p, s) = Queue(k, p, s)
    BY <1>3 DEF Generate
  <2>2. /\ d \in WorldType /\ SignalsOK(d) /\ d.state = w.state
        /\ ~Pending(d, p, s) /\ ~Pending(d, p, "STOP")
    BY <1>3, DiscardOK
  <2>. HIDE DEF d
  <2>3. /\ k \in WorldType /\ SignalsOK(k) /\ k.state[p] # "stopped" /\ k.state[p] # "none"
        /\ ~Pending(k, p, s) /\ ~Pending(k, p, "STOP")
    BY SMT, <1>3, <2>2, ContinueOK
  <2>. HIDE DEF k
  <2>4. QED
    BY SMT, <1>3, <2>1, <2>3, QueueKeepsOK
<1>4. CASE ~Pending(w, p, s) /\ s \notin {"STOP", "CONT"}
  <2>1. Generate(w, p, s) = Queue(w, p, s)
    BY <1>4 DEF Generate
  <2>2. QED
    BY SMT, <1>4, <2>1, QueueKeepsOK
<1>5. QED
  BY <1>1, <1>2, <1>3, <1>4

\* What signal_dequeue() takes is what signal_pending[] refers to.
LEMMA DequeueOK ==
  ASSUME NEW w \in WorldType, SignalsOK(w), NEW p \in Proc, NEW i \in 1 .. Len(w.sigq[p])
  PROVE  LET s == w.sigq[p][i].signo IN
         s \in Signal /\ Pending(w, p, s) /\ Dequeue(w, p, i) = Discard(w, p, s)
<1> DEFINE q == w.sigq[p]
           s == q[i].signo
           r == RemoveAt(q, i)
           f == [j \in DOMAIN r |-> IF r[j].signo = s THEN [signo |-> s, held |-> FALSE]
                                    ELSE r[j]]
<1>1. /\ q \in Seq(Entry) /\ IsInjective(q) /\ DOMAIN q = 1 .. Len(q)
      /\ Range(q) \subseteq {Held(x) : x \in Signal}
  <2>1. q \in Seq(Entry)
    BY DEF WorldType
  <2>2. IsInjective(q) /\ Range(q) \subseteq {Held(x) : x \in Signal}
    BY DEF SignalsOK, QueueOK
  <2>3. QED
    BY SMT, <2>1, <2>2
<1>2. Dequeue(w, p, i) = [w EXCEPT !.sigq[p] = f]
  BY DEF Dequeue
<1>3. Discard(w, p, s) = [w EXCEPT !.sigq[p] = Remove(q, Held(s))]
  BY DEF Discard
<1>4. q[i] \in Range(q)
  BY <1>1 DEF Range
<1>5. PICK x \in Signal : q[i] = Held(x)
  BY <1>1, <1>4
<1>6. s = x
  BY SMT, <1>5 DEF Held
<1>7. Remove(q, Held(s)) = r
  <2> DEFINE k == CHOOSE j \in DOMAIN q : q[j] = Held(s)
  <2>1. k \in DOMAIN q /\ q[k] = Held(s)
    BY <1>1, <1>5, <1>6
  <2>. HIDE DEF k
  <2>2. k = i
    BY <1>1, <1>5, <1>6, <2>1 DEF IsInjective
  <2>3. QED
    BY <1>4, <1>5, <1>6, <2>2 DEF Remove, k
<1>8. r \in Seq(Entry) /\ Range(r) = Range(q) \ {Held(s)}
  BY SMT, <1>1, <1>7, RemoveFacts
<1>. HIDE DEF r
<1>9. \A j \in DOMAIN r : r[j].signo # s
  <2>1. TAKE j \in DOMAIN r
  <2>2. r[j] \in Range(r)
    BY DEF Range
  <2>3. PICK y \in Signal : r[j] = Held(y)
    BY <1>1, <1>8, <2>2
  <2>4. y # s /\ Held(y).signo = y
    BY <1>8, <2>2, <2>3 DEF Held
  <2>5. QED
    BY <2>3, <2>4
<1>10. f = r
  BY SMT, <1>8, <1>9
<1>. HIDE DEF f, q
<1>11. QED
  BY <1>2, <1>3, <1>4, <1>5, <1>6, <1>7, <1>10 DEF Pending, q

\* The signals of w are the next ones, and the action for one may change.
LEMMA ActionOK ==
  ASSUME NEW w, SignalsOK(w), state' = w.state, sigq' = w.sigq,
         NEW p, NEW s,
         \A q \in Proc, t \in Signal : q # p \/ t # s => action'[q][t] = action[q][t],
         Pending(w, p, s) => ~Ignored(p, s)'
  PROVE  SignalsOK(World)'
<1>1. World'.state = w.state /\ World'.sigq = w.sigq
  BY DEF World
<1>2. \A q \in Proc, t \in Signal : q # p \/ t # s => (Ignored(q, t)' <=> Ignored(q, t))
  BY DEF Ignored
<1>3. \A q \in Proc : \A t : Pending(World, q, t)' <=> Pending(w, q, t)
  BY <1>1 DEF Pending
<1>4. \A q \in Proc : QueueOK(World, q)' /\ StopOK(World, q)'
  BY <1>1, <1>3 DEF SignalsOK, QueueOK, StopOK
<1>5. \A q \in Proc : HeedOK(World, q)'
  BY <1>2, <1>3 DEF SignalsOK, HeedOK
<1>6. QED
  BY <1>4, <1>5 DEF SignalsOK

LEMMA BecomeOK ==
  ASSUME NEW w, SignalsOK(w), state' = w.state, sigq' = w.sigq, action' = action
  PROVE  SignalsOK(World)'
<1>1. World'.state = w.state /\ World'.sigq = w.sigq
  BY DEF World
<1>2. QED
  BY <1>1 DEF SignalsOK, QueueOK, StopOK, HeedOK, Pending, Ignored

LEMMA ProgramPending ==
  ASSUME PendingInv, NEW p \in Proc \ {InitProc}, Program(p), ~(\E q \in Proc : Fork(p, q))
  PROVE  SignalsOK(World)' /\ ~panic'
<1>1. /\ FamilyInv /\ ~panic /\ SignalsOK(World) /\ TypeOK /\ World \in WorldType
      /\ World.state = state /\ World.sigq = sigq
  BY WorldTyped DEF PendingInv, FamilyInv, FamilyAgrees
<1>2. ASSUME NEW q \in Proc \ {InitProc}, NEW s \in Sent, Kill(p, q, s)
      PROVE  SignalsOK(World)' /\ ~panic'
  <2>1. /\ state[q] # "none" /\ s \in Signal
        /\ parent[q] \in Proc /\ state[parent[q]] # "none"
    BY <1>1, <1>2, ProcessAssumption DEF Kill, Listed, FamilyInv, FamilyAgrees
  <2>2. SignalsOK(Generate(World, q, s))
    BY <1>1, <2>1, GenerateOK
  <2>3. /\ state' = Generate(World, q, s).state /\ sigq' = Generate(World, q, s).sigq
        /\ UNCHANGED <<action, panic>>
    BY <1>2 DEF Kill, Become
  <2>4. QED
    BY <1>1, <2>2, <2>3, BecomeOK
<1>3. ASSUME NEW s \in Caught, NEW a \in Action, SetAction(p, s, a)
      PROVE  SignalsOK(World)' /\ ~panic'
  <2> DEFINE ignores == a = "ignore" \/ (a = "default" /\ s = "CHLD")
             w == IF ignores THEN Discard(World, p, s) ELSE World
  <2>1. s \in Signal /\ SignalsOK(w) /\ (ignores => ~Pending(w, p, s))
    BY <1>1, DiscardOK, ProcessAssumption
  <2>2. state' = w.state /\ sigq' = w.sigq /\ action' = [action EXCEPT ![p][s] = a]
        /\ ~panic'
    BY <1>1, <1>3 DEF SetAction, Become
  <2>. HIDE DEF w
  <2>3. /\ \A q \in Proc, t \in Signal : q # p \/ t # s => action'[q][t] = action[q][t]
        /\ action'[p][s] = a
    <3>1. /\ action \in [Proc -> [Signal -> {"default", "ignore", "catch", "once"}]]
          /\ action' = [action EXCEPT ![p] = [action[p] EXCEPT ![s] = a]]
      BY <1>1, <2>2 DEF TypeOK
    <3>2. QED
      BY <2>1, <3>1
  <2>4. ~ignores => ~Ignored(p, s)'
    BY <2>3 DEF Ignored
  <2>. HIDE DEF ignores
  <2>5. QED
    BY SMT, <2>1, <2>2, <2>3, <2>4, ActionOK
<1>4. CASE UNCHANGED <<state, sigq, action, panic>>
  BY <1>1, <1>4, BecomeOK
<1>5. QED
  BY <1>2, <1>3, <1>4 DEF Program, SysWait, SetMask, SysSuspend, SysExit

LEMMA ForkPending ==
  ASSUME PendingInv, NEW p \in Proc \ {InitProc}, NEW q \in Proc, Fork(p, q)
  PROVE  SignalsOK(World)' /\ ~panic'
<1>1. /\ FamilyInv /\ ~panic /\ SignalsOK(World) /\ TypeOK
      /\ World.state = state /\ World.sigq = sigq
  BY WorldTyped DEF PendingInv, FamilyInv, FamilyAgrees
<1>2. state[q] = "none" /\ sigq[q] = <<>> /\ ~panic'
  BY <1>1 DEF Fork, SignalsOK, QueueOK
<1>3. /\ state' = [state EXCEPT ![q] = "active"]
      /\ sigq' = [sigq EXCEPT ![q] = <<>>]
      /\ action' = [action EXCEPT ![q] = action[p]]
  <2>1. [i \in DOMAIN sigq[q] |-> [sigq[q][i] EXCEPT !.held = FALSE]] = <<>>
    BY SMT, <1>2
  <2>2. QED
    BY <2>1 DEF Fork
<1>4. /\ state \in [Proc -> ProcState] /\ sigq \in [Proc -> Seq(Entry)]
      /\ action \in [Proc -> [Signal -> {"default", "ignore", "catch", "once"}]]
  BY <1>1 DEF TypeOK, ProcState, Entry
<1>5. World'.state = state' /\ World'.sigq = sigq'
  BY DEF World
<1>6. /\ World'.sigq[q] = <<>> /\ World'.state[q] = "active"
      /\ \A r \in Proc \ {q} : /\ World'.sigq[r] = World.sigq[r]
                               /\ World'.state[r] = World.state[r]
                               /\ action'[r] = action[r]
  BY <1>1, <1>3, <1>4, <1>5
<1>7. \A r \in Proc \ {q} : QueueOK(World, r)' /\ StopOK(World, r)' /\ HeedOK(World, r)'
  BY <1>1, <1>6 DEF SignalsOK, QueueOK, StopOK, HeedOK, Pending, Ignored
<1>8. QueueOK(World, q)' /\ StopOK(World, q)' /\ HeedOK(World, q)'
  <2>1. IsInjective(<<>>) /\ Range(<<>>) = {}
    BY SMT DEF IsInjective, Range
  <2>2. \A t : ~Pending(World, q, t)'
    BY <1>6, <2>1 DEF Pending
  <2>3. QED
    BY <1>6, <2>1, <2>2 DEF QueueOK, StopOK, HeedOK
<1>9. QED
  BY <1>2, <1>7, <1>8 DEF SignalsOK

LEMMA ReapPending ==
  ASSUME PendingInv, Recycle = FALSE, NEW p \in Proc, Reap(p)
  PROVE  SignalsOK(World)' /\ ~panic'
<1>1. /\ FamilyInv /\ ~panic /\ SignalsOK(World) /\ TypeOK
      /\ World.state = state /\ World.sigq = sigq
  BY WorldTyped DEF PendingInv, FamilyInv, FamilyAgrees
<1>2. PICK c \in Available(p) : state' = [state EXCEPT ![c] = "gone"]
  BY DEF Reap, Freed
<1>3. UNCHANGED <<sigq, action, panic>>
  BY DEF Reap
<1>4. World'.state = state' /\ World'.sigq = sigq
  BY <1>3 DEF World
<1>5. \A q \in Proc : state'[q] = state[q] \/ state'[q] = "gone"
  BY <1>1, <1>2 DEF TypeOK
<1>6. QED
  BY <1>1, <1>3, <1>4, <1>5 DEF SignalsOK, QueueOK, StopOK, HeedOK, Pending, Ignored

LEMMA DestroyPending ==
  ASSUME PendingInv, NEW p \in Proc, Destroy(p)
  PROVE  SignalsOK(World)' /\ ~panic'
<1> DEFINE w == [World EXCEPT !.state[p] = "zombie"]
           u == IF \E c \in Range(children[p]) : state[c] = "zombie"
                THEN WakeupWaiter(w, InitProc) ELSE w
           v == Notify(u, p)
<1>1. /\ FamilyInv /\ ~panic /\ SignalsOK(World) /\ TypeOK /\ World \in WorldType
      /\ World.state = state /\ World.sigq = sigq /\ InitProc \in Proc
  BY WorldTyped, ProcessAssumption DEF PendingInv, FamilyInv, FamilyAgrees
<1>2. Become(v, p, "dead") /\ UNCHANGED <<action, panic>>
  BY DEF Destroy
<1>3. p # InitProc /\ state[p] = "active" /\ parent[p] \in Proc \ {p}
  BY <1>1, DestroyFacts
<1>4. state[parent[p]] # "none"
  BY <1>1, <1>3 DEF FamilyInv, FamilyAgrees, Listed
<1>5. /\ w \in WorldType /\ w.sigq = sigq
      /\ \A q \in Proc : w.state[q] = IF q = p THEN "zombie" ELSE state[q]
  BY <1>1 DEF WorldType, ProcState
<1>. HIDE DEF w
<1>6. SignalsOK(w)
  BY <1>1, <1>5 DEF SignalsOK, QueueOK, StopOK, HeedOK, Pending
<1>7. u \in WorldType /\ u.state = w.state /\ u.sigq = w.sigq
  BY <1>1, <1>5, WakeupFacts DEF Signalled
<1>. HIDE DEF u
<1>8. SignalsOK(u) /\ u.state[parent[p]] # "none"
  BY <1>3, <1>4, <1>5, <1>6, <1>7, SameSignals
<1>9. SignalsOK(v)
  BY <1>3, <1>7, <1>8, NotifyOK
<1>. HIDE DEF v
<1>10. QED
  BY <1>1, <1>2, <1>9, BecomeOK DEF Become

LEMMA DeliverPending ==
  ASSUME PendingInv, NEW p \in Proc, DeliverDefault(p) \/ DeliverCustom(p)
  PROVE  SignalsOK(World)' /\ ~panic'
<1> DEFINE i == Deliverable(p)
           s == sigq[p][i].signo
           w == Dequeue(World, p, i)
           v == [w EXCEPT !.state[p] = "stopped"]
<1>1. /\ FamilyInv /\ ~panic /\ SignalsOK(World) /\ TypeOK /\ World \in WorldType
      /\ World.state = state /\ World.sigq = sigq
  BY WorldTyped DEF PendingInv, FamilyInv, FamilyAgrees
<1>2. pc[p] = "return" /\ i # 0
  BY DEF DeliverDefault, DeliverCustom, Kernel
<1>3. state[p] = "active" /\ p # InitProc
  BY <1>1, <1>2, RunsActive, InitGetsNone
<1>4. i \in 1 .. Len(World.sigq[p])
  BY <1>1, <1>2, DeliverableFacts
<1>5. s \in Signal /\ Pending(World, p, s) /\ w = Discard(World, p, s)
  <2>. HIDE DEF i
  <2>1. QED
    BY <1>1, <1>4, DequeueOK
<1>6. /\ w \in WorldType /\ SignalsOK(w) /\ w.state = state /\ ~Pending(w, p, s)
      /\ \A t : Pending(w, p, t) => Pending(World, p, t)
  <2>. HIDE DEF s, w
  <2>1. QED
    BY <1>1, <1>5, DiscardOK
<1>7. ~Ignored(p, s)
  BY <1>1, <1>5 DEF SignalsOK, HeedOK
<1>8. CASE DeliverDefault(p)
  <2>1. /\ UNCHANGED action /\ action[p][s] = "default"
        /\ panic' = (s = "CHLD" \/ (s = "CONT" /\ state[p] = "stopped"))
        /\ \/ Become(w, p, "exit") \/ Become(w, p, "user")
           \/ s = "STOP" /\ Become(IF w.state[p] = "stopped" THEN w ELSE Notify(v, p), p, "leave")
    BY <1>8 DEF DeliverDefault
  <2>. HIDE DEF i, s, w
  <2>2. ~panic'
    BY <1>3, <1>7, <2>1 DEF Ignored
  <2>3. CASE Become(w, p, "exit") \/ Become(w, p, "user")
    BY <1>6, <2>1, <2>2, <2>3, BecomeOK DEF Become
  <2>4. CASE s = "STOP" /\ Become(IF w.state[p] = "stopped" THEN w ELSE Notify(v, p), p, "leave")
    <3>1. Become(Notify(v, p), p, "leave")
      BY <1>3, <1>6, <2>4
    <3>2. /\ v \in WorldType /\ v.sigq = w.sigq
          /\ \A q \in Proc : v.state[q] = IF q = p THEN "stopped" ELSE state[q]
      BY <1>6 DEF WorldType, ProcState
    <3>. HIDE DEF v
    <3>3. \A q \in Proc : \A t : Pending(v, q, t) <=> Pending(w, q, t)
      BY <3>2 DEF Pending
    <3>4. ~Pending(w, p, "CONT")
      BY <1>1, <1>5, <1>6, <2>4 DEF SignalsOK, StopOK
    <3>5. SignalsOK(v)
      BY <1>3, <1>6, <3>2, <3>3, <3>4 DEF SignalsOK, QueueOK, StopOK, HeedOK
    <3>6. parent[p] \in Proc /\ state[parent[p]] # "none"
      BY <1>1, <1>3 DEF FamilyInv, FamilyAgrees, Listed
    <3>7. SignalsOK(Notify(v, p))
      BY <3>2, <3>5, <3>6, NotifyOK
    <3>8. QED
      BY <2>1, <2>2, <3>1, <3>7, BecomeOK DEF Become
  <2>5. QED
    BY <2>1, <2>3, <2>4
<1>9. CASE DeliverCustom(p)
  <2>1. /\ action' = action \/ action' = [action EXCEPT ![p] = [action[p] EXCEPT ![s] =
                                 IF action[p][s] = "once" THEN "default" ELSE action[p][s]]]
        /\ panic' = (action[p][s] = "ignore")
        /\ state' = w.state /\ sigq' = w.sigq
    BY <1>9 DEF DeliverCustom, Become
  <2>. HIDE DEF i, s, w
  <2>2. ~panic'
    BY <1>7, <2>1 DEF Ignored
  <2>3. action \in [Proc -> [Signal -> {"default", "ignore", "catch", "once"}]]
    BY <1>1 DEF TypeOK
  <2>4. \A q \in Proc, t \in Signal : q # p \/ t # s => action'[q][t] = action[q][t]
    BY SMT, <1>5, <2>1, <2>3
  <2>5. QED
    BY SMT, <1>6, <2>1, <2>2, <2>4, ActionOK
<1>10. QED
  BY <1>8, <1>9

LEMMA PendingStep ==
  ASSUME PendingInv, Recycle = FALSE, [Next]_vars
  PROVE  PendingInv'
<1>1. /\ FamilyInv /\ ~panic /\ SignalsOK(World) /\ TypeOK
      /\ World.state = state /\ World.sigq = sigq
  BY WorldTyped DEF PendingInv, FamilyInv, FamilyAgrees
<1>2. FamilyInv'
  BY <1>1, FamilyStep
<1>3. CASE UNCHANGED <<state, sigq, action, panic>>
  BY <1>1, <1>2, <1>3, BecomeOK DEF PendingInv
<1>4. ASSUME NEW p \in Proc \ {InitProc}, Program(p) PROVE PendingInv'
  BY <1>2, <1>4, ProgramPending, ForkPending DEF PendingInv
<1>5. ASSUME NEW p \in Proc, System(p) PROVE PendingInv'
  <2>1. CASE DeliverNone(p)
    <3>1. UNCHANGED <<state, sigq, action, panic>>
      BY <1>1, <2>1 DEF DeliverNone, Become
    <3>2. QED
      BY <1>3, <3>1
  <2>2. CASE Trap(p) \/ WaitSleep(p) \/ Suspend(p) \/ Resume(p) \/ Leave(p)
    BY <1>3, <2>2 DEF Trap, WaitSleep, Suspend, Resume, Leave
  <2>3. QED
    BY <1>2, <1>5, <2>1, <2>2, ReapPending, DestroyPending, DeliverPending
       DEF System, PendingInv
<1>6. QED
  BY <1>3, <1>4, <1>5 DEF Next, InitProgram, SysWait, vars

LEMMA PendingInit ==
  ASSUME Init
  PROVE  PendingInv
<1>1. FamilyInv
  BY FamilyInit
<1>2. World.state = state /\ World.sigq = sigq /\ \A p \in Proc : sigq[p] = <<>>
  BY DEF World, Init
<1>3. IsInjective(<<>>) /\ Range(<<>>) = {}
  BY SMT DEF IsInjective, Range
<1>4. \A p \in Proc : \A t : ~Pending(World, p, t)
  BY <1>2, <1>3 DEF Pending
<1>5. SignalsOK(World)
  BY <1>2, <1>3, <1>4 DEF SignalsOK, QueueOK, StopOK, HeedOK
<1>6. QED
  BY <1>1, <1>5 DEF PendingInv, Init

LEMMA PendingInvAgrees ==
  ASSUME PendingInv
  PROVE  PendingAgrees
<1>1. SignalsOK(World) /\ World.sigq = sigq /\ World.state = state /\ TypeOK
  BY WorldTyped DEF PendingInv, FamilyInv, FamilyAgrees
<1>2. ASSUME NEW p \in Proc, NEW i \in 1 .. Len(sigq[p]), NEW j \in 1 .. Len(sigq[p])
      PROVE  sigq[p][i].held /\ (sigq[p][i].signo = sigq[p][j].signo => i = j)
  <2>1. /\ sigq[p] \in Seq(Entry) /\ DOMAIN sigq[p] = 1 .. Len(sigq[p])
        /\ IsInjective(sigq[p])
        /\ Range(sigq[p]) \subseteq {Held(s) : s \in Signal}
    <3>1. sigq[p] \in Seq(Entry)
      BY <1>1 DEF TypeOK, Entry
    <3>2. IsInjective(sigq[p]) /\ Range(sigq[p]) \subseteq {Held(s) : s \in Signal}
      BY <1>1 DEF SignalsOK, QueueOK
    <3>3. QED
      BY SMT, <3>1, <3>2
  <2>2. sigq[p][i] \in Range(sigq[p]) /\ sigq[p][j] \in Range(sigq[p])
    BY <2>1 DEF Range
  <2>3. PICK s \in Signal : sigq[p][i] = Held(s)
    BY <2>1, <2>2
  <2>4. PICK t \in Signal : sigq[p][j] = Held(t)
    BY <2>1, <2>2
  <2>5. Held(s).signo = s /\ Held(t).signo = t /\ Held(s).held
    BY DEF Held
  <2>6. QED
    BY <2>1, <2>3, <2>4, <2>5 DEF IsInjective
<1>3. \A p \in Proc : /\ ~(Pending(World, p, "STOP") /\ Pending(World, p, "CONT"))
                      /\ state[p] = "stopped" => ~Pending(World, p, "CONT")
                      /\ \A s \in Signal : Pending(World, p, s) => ~Ignored(p, s)
  BY <1>1 DEF SignalsOK, StopOK, HeedOK
<1>4. ~panic
  BY DEF PendingInv
<1>5. QED
  BY <1>2, <1>3, <1>4 DEF PendingAgrees

\* As long as no process object is handed out twice (signal_clone() does not empty
\* the queue of an object that is used again), every signal on a queue is there
\* once and signal_pending[] refers to it, stop signals and SIGCONT cancel each
\* other, and no pending signal is ignored: signal_deliver_pending() never panics.
THEOREM ProcessPendingAgrees == Recycle = FALSE => (Spec => []PendingAgrees)
<1>1. SUFFICES ASSUME Recycle = FALSE
               PROVE  Spec => []PendingAgrees
  OBVIOUS
<1>2. Init => PendingInv
  BY PendingInit
<1>3. PendingInv /\ [Next]_vars => PendingInv'
  BY <1>1, PendingStep
<1>4. PendingInv => PendingAgrees
  BY PendingInvAgrees
<1>5. QED
  BY <1>2, <1>3, <1>4, PTL DEF Spec
=============================================================================
