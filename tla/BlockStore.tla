----------------------------- MODULE BlockStore -----------------------------
(***************************************************************************)
(* What the buffer cache promises to file systems: a block is used by one   *)
(* thread at a time, changes when its user writes to it and at no other     *)
(* time.                                                                    *)
(***************************************************************************)
CONSTANTS Thread, Block, Value, Blank, NoThread

VARIABLES content,  \* content[k]: what block k holds
          user      \* user[k]: the thread that has it

Init ==
  /\ content = [k \in Block |-> Blank]
  /\ user = [k \in Block |-> NoThread]

Open(t, k) ==
  /\ user[k] = NoThread
  /\ user' = [user EXCEPT ![k] = t]
  /\ UNCHANGED content

Write(k, v) ==
  /\ user[k] # NoThread
  /\ content' = [content EXCEPT ![k] = v]
  /\ UNCHANGED user

Close(k) ==
  /\ user' = [user EXCEPT ![k] = NoThread]
  /\ UNCHANGED content

Next ==
  \E k \in Block :
    \/ \E t \in Thread : Open(t, k)
    \/ \E v \in Value : Write(k, v)
    \/ Close(k)

Spec == Init /\ [][Next]_<<content, user>>
=============================================================================
