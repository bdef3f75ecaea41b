------------------------------ MODULE TimerQueue ------------------------------
(***************************************************************************)
(* What a timer wheel promises: a set of timers with deadlines and a       *)
(* current tick that moves past no deadline whose timer has not fired, so  *)
(* that every timer fires at exactly its deadline.                         *)
(***************************************************************************)
EXTENDS Integers

CONSTANTS Ids, NoTimer
VARIABLES now, deadline    \* deadline[id], or NoTimer

vars == <<now, deadline>>

Pending == {e \in Ids : deadline[e] # NoTimer}

Init == now = 0 /\ deadline = [e \in Ids |-> NoTimer]

Register(e) ==
  /\ deadline[e] = NoTimer
  /\ deadline'[e] \in Nat /\ deadline'[e] > now
  /\ deadline' = [deadline EXCEPT ![e] = deadline'[e]]
  /\ UNCHANGED now

Cancel(e) ==
  /\ e \in Pending
  /\ deadline' = [deadline EXCEPT ![e] = NoTimer]
  /\ UNCHANGED now

Fire(e) ==
  /\ e \in Pending /\ deadline[e] = now
  /\ deadline' = [deadline EXCEPT ![e] = NoTimer]
  /\ UNCHANGED now

Advance ==
  /\ now' \in Nat /\ now' > now
  /\ \A e \in Pending : deadline[e] > now /\ deadline[e] >= now'
  /\ UNCHANGED deadline

Next == Advance \/ \E e \in Ids : Register(e) \/ Cancel(e) \/ Fire(e)

Spec == Init /\ [][Next]_vars
=============================================================================
