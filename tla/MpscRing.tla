------------------------------ MODULE MpscRing ------------------------------
(***************************************************************************)
(* The lock-free multi-producer single-consumer ring of                    *)
(* kwokka-runtime/src/sync/mpsc.rs, one step per atomic operation.  Every   *)
(* cross-worker channel of the runtime (wake inbox, steal requests,        *)
(* handoffs, settled notes, spawn/timer/reap inboxes) is such a ring.      *)
(*                                                                         *)
(* Positions are kept as naturals so that the properties can name them;    *)
(* the code only ever sees them modulo 2^64, so every comparison below is  *)
(* made on WrappingSub, which reduces modulo W.  Operations on one atomic   *)
(* are interleaved; the one Relaxed load whose staleness can be observed   *)
(* (enqueue_pos in push) may return any value at most MaxLag behind.        *)
(***************************************************************************)
EXTENDS Integers

CONSTANTS
  Producers,   \* threads that push
  Values,      \* payloads
  Uninit,      \* content of a cell that holds no value
  N,           \* slots of the ring (const generic N)
  W,           \* number of values of a position word (2^64 in the code)
  MaxLag,      \* how far a producer's copy of enqueue_pos may fall behind
  MaxPushes    \* bound on the number of claimed positions

\* N = 1 is accepted by the compile-time assertion and never instantiated:
\* with one slot a published and a freed slot carry the same sequence.
ASSUME RingAssumption ==
  /\ N \in Nat /\ N >= 2
  /\ W \in Nat /\ W % N = 0
  /\ MaxLag \in Nat /\ MaxLag >= 1
  /\ 2 * (MaxLag + N + 1) <= W
  /\ MaxPushes \in Nat
  /\ Uninit \notin Values

VARIABLES
  enqueue_pos,  \* next position a producer claimed
  dequeue_pos,  \* next position the consumer reads
  sequence,     \* per-slot sequence word
  cell,         \* per-slot payload
  pc,           \* control point of each producer in push
  pos,          \* each producer's local pos
  val,          \* the value each producer is pushing
  cpc,          \* control point of the consumer in pop
  cval,         \* the value the consumer has read
  claimed,      \* history: the value the latest claimant of each slot pushes
  alive         \* FALSE once the ring has been dropped

prodVars == <<pc, pos, val>>
consVars == <<cpc, cval>>
vars == <<enqueue_pos, dequeue_pos, sequence, cell, pc, pos, val,
          cpc, cval, claimed, alive>>

Slots == 0 .. N - 1
Slot(p) == p % N

\* usize::wrapping_sub and the half-range test on its result.
WrappingSub(a, b) == (a - b) % W
Lags(gap) == 2 * gap >= W

Init ==
  /\ enqueue_pos = 0
  /\ dequeue_pos = 0
  /\ sequence = [i \in Slots |-> i]
  /\ cell = [i \in Slots |-> Uninit]
  /\ pc = [p \in Producers |-> "idle"]
  /\ pos = [p \in Producers |-> 0]
  /\ val = [p \in Producers |-> Uninit]
  /\ cpc = "idle"
  /\ cval = Uninit
  /\ claimed = [i \in Slots |-> Uninit]
  /\ alive = TRUE

-----------------------------------------------------------------------------
(* push, lines 148-188.                                                    *)

Goto(p, label) == pc' = [pc EXCEPT ![p] = label]

\* A Relaxed load may miss recent increments.
RelaxedLoad(p) ==
  \E x \in 0 .. enqueue_pos :
    /\ enqueue_pos - x <= MaxLag
    /\ pos' = [pos EXCEPT ![p] = x]

\* push(value) is called: the first load of enqueue_pos.
PushCall(p, v) ==
  /\ alive
  /\ pc[p] = "idle"
  /\ RelaxedLoad(p)
  /\ val' = [val EXCEPT ![p] = v]
  /\ Goto(p, "loop")
  /\ UNCHANGED <<enqueue_pos, dequeue_pos, sequence, cell, cpc, cval, claimed, alive>>

PushInspect_rejectsBehind(p) ==
  /\ pc[p] = "loop"
  /\ LET gap == WrappingSub(sequence[Slot(pos[p])], pos[p]) IN
       Goto(p, IF gap = 0 THEN "cas" ELSE "rejected")
  /\ UNCHANGED <<enqueue_pos, dequeue_pos, sequence, cell, pos, val, cpc, cval, claimed, alive>>

PushInspect_ignoresFull(p) ==
  /\ pc[p] = "loop"
  /\ LET gap == WrappingSub(sequence[Slot(pos[p])], pos[p]) IN
       Goto(p, IF gap = 0 \/ Lags(gap) THEN "cas" ELSE "reload")
  /\ UNCHANGED <<enqueue_pos, dequeue_pos, sequence, cell, pos, val, cpc, cval, claimed, alive>>

\* The Acquire load of the slot's sequence and the three-way branch on the gap.
PushInspect(p) ==
  /\ pc[p] = "loop"
  /\ LET gap == WrappingSub(sequence[Slot(pos[p])], pos[p]) IN
       Goto(p, IF gap = 0 THEN "cas" ELSE IF Lags(gap) THEN "rejected" ELSE "reload")
  /\ UNCHANGED <<enqueue_pos, dequeue_pos, sequence, cell, pos, val, cpc, cval, claimed, alive>>

PushClaim_unchecked(p) ==
  /\ pc[p] = "cas"
  /\ pos[p] < MaxPushes
  /\ enqueue_pos' = pos[p] + 1
  /\ claimed' = [claimed EXCEPT ![Slot(pos[p])] = val[p]]
  /\ Goto(p, "write")
  /\ UNCHANGED <<dequeue_pos, sequence, cell, pos, val, cpc, cval, alive>>

\* The compare-exchange succeeds: the position is claimed.
PushClaim(p) ==
  /\ pc[p] = "cas"
  /\ WrappingSub(enqueue_pos, pos[p]) = 0
  /\ enqueue_pos < MaxPushes
  /\ \A q \in Producers : pc[q] \in {"loop", "cas"} => enqueue_pos + 1 - pos[q] <= MaxLag
  /\ enqueue_pos' = enqueue_pos + 1
  /\ claimed' = [claimed EXCEPT ![Slot(enqueue_pos)] = val[p]]
  /\ Goto(p, "write")
  /\ UNCHANGED <<dequeue_pos, sequence, cell, pos, val, cpc, cval, alive>>

\* It fails, spuriously (the weak variant) or because the word moved: pos = actual.
PushRetry(p) ==
  /\ pc[p] = "cas"
  /\ pos' = [pos EXCEPT ![p] = enqueue_pos]
  /\ Goto(p, "loop")
  /\ UNCHANGED <<enqueue_pos, dequeue_pos, sequence, cell, val, cpc, cval, claimed, alive>>

\* Another producer advanced past pos: load it again.
PushReload(p) ==
  /\ pc[p] = "reload"
  /\ RelaxedLoad(p)
  /\ Goto(p, "loop")
  /\ UNCHANGED <<enqueue_pos, dequeue_pos, sequence, cell, val, cpc, cval, claimed, alive>>

\* The claimed cell is written.
PushWrite(p) ==
  /\ pc[p] = "write"
  /\ cell' = [cell EXCEPT ![Slot(pos[p])] = val[p]]
  /\ Goto(p, "publish")
  /\ UNCHANGED <<enqueue_pos, dequeue_pos, sequence, pos, val, cpc, cval, claimed, alive>>

\* The Release store that publishes the slot; push returns Ok.
PushPublish(p) ==
  /\ pc[p] = "publish"
  /\ sequence' = [sequence EXCEPT ![Slot(pos[p])] = pos[p] + 1]
  /\ val' = [val EXCEPT ![p] = Uninit]
  /\ Goto(p, "idle")
  /\ UNCHANGED <<enqueue_pos, dequeue_pos, cell, pos, cpc, cval, claimed, alive>>

\* push returns Err(value).
PushErr(p) ==
  /\ pc[p] = "rejected"
  /\ val' = [val EXCEPT ![p] = Uninit]
  /\ Goto(p, "idle")
  /\ UNCHANGED <<enqueue_pos, dequeue_pos, sequence, cell, pos, cpc, cval, claimed, alive>>

-----------------------------------------------------------------------------
(* pop, lines 193-215: one consumer.                                       *)

\* The Acquire load of the head slot's sequence; a lagging one means empty.
PopInspect ==
  /\ alive
  /\ cpc = "idle"
  /\ ~ Lags(WrappingSub(sequence[Slot(dequeue_pos)], dequeue_pos + 1))
  /\ cpc' = "read"
  /\ UNCHANGED <<enqueue_pos, dequeue_pos, sequence, cell, pc, pos, val, cval, claimed, alive>>

\* assume_init_read moves the payload out of the cell.
PopRead ==
  /\ cpc = "read"
  /\ cval' = cell[Slot(dequeue_pos)]
  /\ cell' = [cell EXCEPT ![Slot(dequeue_pos)] = Uninit]
  /\ cpc' = "free"
  /\ UNCHANGED <<enqueue_pos, dequeue_pos, sequence, pc, pos, val, claimed, alive>>

PopFree_offByOne ==
  /\ cpc = "free"
  /\ sequence' = [sequence EXCEPT ![Slot(dequeue_pos)] = dequeue_pos + N - 1]
  /\ cpc' = "advance"
  /\ UNCHANGED <<enqueue_pos, dequeue_pos, cell, pc, pos, val, cval, claimed, alive>>

\* The Release store that frees the slot for position pos + N.
PopFree ==
  /\ cpc = "free"
  /\ sequence' = [sequence EXCEPT ![Slot(dequeue_pos)] = dequeue_pos + N]
  /\ cpc' = "advance"
  /\ UNCHANGED <<enqueue_pos, dequeue_pos, cell, pc, pos, val, cval, claimed, alive>>

\* The store to dequeue_pos; pop returns Some(value).
PopAdvance ==
  /\ cpc = "advance"
  /\ dequeue_pos' = dequeue_pos + 1
  /\ cval' = Uninit
  /\ cpc' = "idle"
  /\ UNCHANGED <<enqueue_pos, sequence, cell, pc, pos, val, claimed, alive>>

-----------------------------------------------------------------------------
(* Drop, lines 239-271: &mut self excludes every push and pop in progress. *)

Quiescent == cpc = "idle" /\ \A p \in Producers : pc[p] = "idle"

Drop_missesLast ==
  /\ alive
  /\ Quiescent
  /\ alive' = FALSE
  /\ cell' = [i \in Slots |->
                IF \E p \in dequeue_pos .. enqueue_pos - 2 : Slot(p) = i
                THEN Uninit ELSE cell[i]]
  /\ UNCHANGED <<enqueue_pos, dequeue_pos, sequence, pc, pos, val, cpc, cval, claimed>>

Drop ==
  /\ alive
  /\ Quiescent
  /\ alive' = FALSE
  /\ cell' = [i \in Slots |->
                IF \E p \in dequeue_pos .. enqueue_pos - 1 : Slot(p) = i
                THEN Uninit ELSE cell[i]]
  /\ UNCHANGED <<enqueue_pos, dequeue_pos, sequence, pc, pos, val, cpc, cval, claimed>>

Push(p) ==
  \/ \E v \in Values : PushCall(p, v)
  \/ PushInspect(p)
  \/ PushClaim(p)
  \/ PushRetry(p)
  \/ PushReload(p)
  \/ PushWrite(p)
  \/ PushPublish(p)
  \/ PushErr(p)

Pop == PopInspect \/ PopRead \/ PopFree \/ PopAdvance

Next == (\E p \in Producers : Push(p)) \/ Pop \/ Drop

Spec == Init /\ [][Next]_vars

-----------------------------------------------------------------------------
(* len, lines 224-228.                                                     *)

RingLen_masked == WrappingSub(enqueue_pos, dequeue_pos) % N

RingLen == WrappingSub(enqueue_pos, dequeue_pos)

\* The next position whose slot is still owed to the consumer.
Freed == IF cpc = "advance" THEN dequeue_pos + 1 ELSE dequeue_pos

Outstanding == Freed .. enqueue_pos - 1
Published(p) == sequence[Slot(p)] = p + 1

-----------------------------------------------------------------------------
(* Properties.                                                             *)

\* The variables keep their types.
TypeOK ==
  /\ enqueue_pos \in Nat /\ dequeue_pos \in Nat
  /\ sequence \in [Slots -> Nat]
  /\ cell \in [Slots -> Values \cup {Uninit}]
  /\ pc \in [Producers -> {"idle", "loop", "cas", "reload", "write", "publish", "rejected"}]
  /\ pos \in [Producers -> Nat]
  /\ val \in [Producers -> Values \cup {Uninit}]
  /\ cpc \in {"idle", "read", "free", "advance"}
  /\ cval \in Values \cup {Uninit}
  /\ claimed \in [Slots -> Values \cup {Uninit}]
  /\ alive \in BOOLEAN

\* No two threads ever touch one slot's cell at once (the two unsafe impls of
\* Send and Sync, lines 61-80): a producer about to write shares its slot with
\* no other producer and not with the consumer about to read, and the cell it
\* writes holds no value that the write would leak.
SlotExclusive ==
  \A p \in Producers : pc[p] = "write" =>
    /\ cell[Slot(pos[p])] = Uninit
    /\ ~ (cpc = "read" /\ Slot(pos[p]) = Slot(dequeue_pos))
    /\ \A q \in Producers \ {p} :
         pc[q] \in {"write", "publish"} => Slot(pos[q]) # Slot(pos[p])

\* pop reads only an initialised cell, and the value it takes for a position is
\* the one the claimant of that position pushed: values leave in claim order,
\* each exactly once.
PopsInClaimOrder ==
  /\ cpc = "read" => /\ cell[Slot(dequeue_pos)] \in Values
                     /\ cell[Slot(dequeue_pos)] = claimed[Slot(dequeue_pos)]
  /\ cpc = "free" => cval = claimed[Slot(dequeue_pos)]

\* push hands its value back only when no capacity remains: at the step that
\* decides to reject, N claimed positions are not yet freed.  A spurious
\* rejection would drop a wake, a handoff or a settled note.
RejectsOnlyWhenFull ==
  [][\A p \in Producers :
       pc[p] = "loop" /\ pc'[p] = "rejected" => enqueue_pos - Freed = N]_vars

\* len, read by the consumer between pops, never counts fewer elements than
\* pushes that completed, nor more than the capacity (its doc comment: "never
\* under-counts a completed push"): the park bracket relies on it.
LenCoversPublished ==
  cpc = "idle" =>
    /\ \A p \in dequeue_pos .. dequeue_pos + N - 1 :
         Published(p) => p < dequeue_pos + RingLen
    /\ RingLen <= N

\* Dropping the ring releases every value that was pushed and not popped, and
\* touches only initialised cells.
DropReleasesAll ==
  /\ Quiescent /\ alive => \A p \in Outstanding : cell[Slot(p)] \in Values
  /\ ~ alive => \A i \in Slots : cell[i] = Uninit

-----------------------------------------------------------------------------
(* The inductive invariant behind the properties.                          *)

Owns(p) == pc[p] \in {"write", "publish"}

\* At most N positions are claimed and not freed.
WindowInv == Freed <= enqueue_pos /\ enqueue_pos <= Freed + N

\* A claimed position is either published, holding the claimant's value until the
\* consumer moves it out, or still owned by a producer.
OutstandingInv ==
  \A x \in Outstanding :
    /\ claimed[Slot(x)] \in Values
    /\ \/ /\ sequence[Slot(x)] = x + 1
          /\ alive /\ ~ (cpc = "free" /\ x = dequeue_pos) => cell[Slot(x)] = claimed[Slot(x)]
       \/ /\ sequence[Slot(x)] = x
          /\ \E p \in Producers : Owns(p) /\ pos[p] = x

\* The rest of the window is free for the positions to come.
FreeInv ==
  \A x \in enqueue_pos .. Freed + N - 1 :
    sequence[Slot(x)] = x /\ cell[Slot(x)] = Uninit

OwnerInv ==
  \A p \in Producers : Owns(p) =>
    /\ pos[p] \in Outstanding
    /\ sequence[Slot(pos[p])] = pos[p]
    /\ claimed[Slot(pos[p])] = val[p]
    /\ cell[Slot(pos[p])] = IF pc[p] = "write" THEN Uninit ELSE val[p]
    /\ \A q \in Producers \ {p} : Owns(q) => pos[q] # pos[p]

\* A producer that saw its slot free still has room if the exchange succeeds.
LoopInv ==
  \A p \in Producers :
    /\ pc[p] # "idle" => val[p] \in Values
    /\ pc[p] \in {"loop", "cas"} => pos[p] <= enqueue_pos /\ enqueue_pos - pos[p] <= MaxLag
    /\ pc[p] = "cas" => pos[p] < Freed + N

ConsumerInv ==
  /\ cpc \in {"read", "free"} => /\ dequeue_pos < enqueue_pos
                                 /\ sequence[Slot(dequeue_pos)] = dequeue_pos + 1
  /\ cpc = "free" => /\ cell[Slot(dequeue_pos)] = Uninit
                     /\ cval = claimed[Slot(dequeue_pos)]

DroppedInv == ~ alive => Quiescent /\ \A i \in Slots : cell[i] = Uninit

\* The ring is a window of N positions, each free, owned by one producer, or
\* published: the sequence words tell which (the Vyukov invariant of new, 84-88).
RingInv ==
  /\ WindowInv /\ OutstandingInv /\ FreeInv
  /\ OwnerInv /\ LoopInv /\ ConsumerInv /\ DroppedInv

-----------------------------------------------------------------------------
(* The abstract queue the ring implements.                                 *)

AbstractQueue ==
  IF alive
  THEN [i \in 1 .. enqueue_pos - Freed |->
          [val |-> claimed[Slot(Freed + i - 1)], ready |-> Published(Freed + i - 1)]]
  ELSE <<>>

Abstract == INSTANCE BoundedQueue
  WITH Capacity <- N, Items <- Values, Nothing <- Uninit,
       queue <- AbstractQueue,
       out <- IF cpc = "advance" THEN cval ELSE Uninit,
       open <- alive

\* The ring implements a bounded FIFO queue whose insertions take effect in
\* claim order and become visible when published.
ImplementsBoundedQueue == Abstract!Spec
=============================================================================
