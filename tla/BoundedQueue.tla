---------------------------- MODULE BoundedQueue ----------------------------
(***************************************************************************)
(* What a worker may assume of an MpscRing: a bounded FIFO queue in which  *)
(* an insertion takes its place when it is reserved, and can be taken only *)
(* once it, and hence everything reserved before it that is still queued,  *)
(* has become ready.  A take of a queue whose head is not ready finds      *)
(* nothing, even when later insertions are complete.                       *)
(***************************************************************************)
EXTENDS Naturals, Sequences

CONSTANTS
  Capacity,  \* most insertions reserved and not taken
  Items,     \* what is queued
  Nothing    \* no item

VARIABLES
  queue,     \* reserved insertions, oldest first
  out,       \* the item the consumer is being handed, or Nothing
  open       \* FALSE once the queue is dropped

vars == <<queue, out, open>>

Init == queue = <<>> /\ out = Nothing /\ open = TRUE

Reserve(v) ==
  /\ open
  /\ Len(queue) < Capacity
  /\ queue' = Append(queue, [val |-> v, ready |-> FALSE])
  /\ UNCHANGED <<out, open>>

MakeReady(i) ==
  /\ i \in 1 .. Len(queue)
  /\ ~ queue[i].ready
  /\ queue' = [queue EXCEPT ![i].ready = TRUE]
  /\ UNCHANGED <<out, open>>

Take ==
  /\ queue # <<>>
  /\ Head(queue).ready
  /\ out = Nothing
  /\ out' = Head(queue).val
  /\ queue' = Tail(queue)
  /\ UNCHANGED open

HandOver ==
  /\ out # Nothing
  /\ out' = Nothing
  /\ UNCHANGED <<queue, open>>

Close ==
  /\ open
  /\ out = Nothing
  /\ queue' = <<>>
  /\ open' = FALSE
  /\ UNCHANGED out

Next ==
  \/ \E v \in Items : Reserve(v)
  \/ \E i \in 1 .. Len(queue) : MakeReady(i)
  \/ Take
  \/ HandOver
  \/ Close

Spec == Init /\ [][Next]_vars
=============================================================================
