----------------------------- MODULE Deadlines -----------------------------
(***************************************************************************)
(* What timers promise: each armed timer has a number of ticks left, ticks  *)
(* count all of them down together, and a timer's callback is called in the *)
(* tick that takes it to zero, before the next tick and at no other time.   *)
(***************************************************************************)
EXTENDS Naturals

CONSTANTS Timer,    \* the timers
          NoTimer,  \* no timer
          Never     \* ticks left of a timer that is not armed

VARIABLES left,     \* left[t]: ticks until the callback of t is called
          calling   \* the timer whose callback is being called

Init ==
  /\ left = [t \in Timer |-> Never]
  /\ calling = NoTimer

Arm(t) ==
  /\ left'[t] \in Nat \ {0}
  /\ left' = [left EXCEPT ![t] = left'[t]]
  /\ UNCHANGED calling

Disarm(t) ==
  /\ left' = [left EXCEPT ![t] = Never]
  /\ UNCHANGED calling

\* A tick waits for the callbacks that are due.
Tick ==
  /\ \A t \in Timer : left[t] # 0
  /\ left' = [t \in Timer |-> IF left[t] = Never THEN Never ELSE left[t] - 1]
  /\ calling = NoTimer
  /\ UNCHANGED calling

Expire(t) ==
  /\ left[t] = 0
  /\ calling = NoTimer
  /\ left' = [left EXCEPT ![t] = Never]
  /\ calling' = t

Return ==
  /\ calling' = NoTimer
  /\ UNCHANGED left

Next ==
  \/ Tick \/ Return
  \/ \E t \in Timer : Arm(t) \/ Disarm(t) \/ Expire(t)

Spec == Init /\ [][Next]_<<left, calling>>

=============================================================================
