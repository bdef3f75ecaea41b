--------------------------- MODULE MultishotStream ---------------------------
(***************************************************************************)
(* One worker's multishot streams: one submission that posts many          *)
(* completions, kept apart from the one-word wake slot by a registry of    *)
(* slots, each with a FIFO of its own.  The accept and the receive         *)
(* registries run the same protocol on different handles (an accepted      *)
(* descriptor, a kernel-selected provided buffer) and differ in three      *)
(* places: a receive's last completion is stashed beside the FIFO,         *)
(* cancelling a receive that has already ended frees its slot at once, and *)
(* receives have a cancel ring of their own where accepts share one with   *)
(* every other future of the worker.                                       *)
(*                                                                         *)
(* Closing a descriptor and recycling a buffer are one notion here: the    *)
(* handle goes back to the pool the kernel takes handles from.             *)
(***************************************************************************)
EXTENDS Naturals, Sequences, FiniteSetsExt, SequencesExt

CONSTANTS
    Tasks,       \* task tokens, one stream at a time each
    Handles,     \* descriptors the process may have, buffers of the ring
    Depth,       \* MULTISHOT_FIFO_DEPTH
    Batch,       \* COMPLETION_BATCH
    GenMod,      \* 2^16: the generation bits a multishot sentinel carries
    Loads        \* what the streams do, and under which limits: a load has
                 \*   kind     of {"accept", "recv"}
                 \*   refuse   the ring may refuse a cancel submission
                 \*   slots    DEFAULT_MULTISHOT_CAP, DEFAULT_RECV_MULTISHOT_CAP
                 \*   others   places of the cancel ring beyond those (an accept
                 \*            load: DEFAULT_INFLIGHT_CAP); futures outside
                 \*            this registry use the ring if there are any
                 \*   starts   bound: operations started
                 \*   posts    bound: completions of one before its last

ASSUME MultishotAssumption ==
    /\ {Depth, Batch, GenMod} \subseteq Nat \ {0} /\ 0 \notin Handles
    /\ \A l \in Loads :
          /\ l.kind \in {"accept", "recv"} /\ l.refuse \in BOOLEAN
          /\ l.slots \in Nat \ {0} /\ {l.others, l.starts, l.posts} \subseteq Nat
          /\ l.kind = "recv" => l.others = 0

VARIABLES
    load,      \* the load of this execution, chosen at the start
    pc,        \* step of the worker's pass
    batch,     \* completions left in the drained batch
    slab,      \* the registry, slot by slot
    op,        \* every operation started so far
    stream,    \* the operation a task's stream drives, 0 for none
    last,      \* the last completion the task took from its stream, 0 for none
    asleep,    \* the task is suspended in next()
    alive,     \* the task's cell still holds its future
    ops,       \* in_flight_ops of the task's header
    inbox,     \* cancels queued by dropped streams, 0 for another future's
    lost,      \* operations whose cancel met a full ring
    cq,        \* the completion queue shared with the kernel
    pool,      \* handles the kernel may take, oldest first
    held       \* handles the user's code owns

vars == <<load, pc, batch, slab, op, stream, last, asleep, alive, ops, inbox,
          lost, cq, pool, held>>

Slots == 1 .. load.slots
None == <<>>

Started(o) == op[o].st # "refused"
InKernel(o) == op[o].st \in {"armed", "ending"}

-----------------------------------------------------------------------------
(* The registry. *)

\* A key carries the whole generation, a completion's sentinel its low bits.
IsLive(o) == slab[op[o].slot].occupied /\ slab[op[o].slot].gen = op[o].gen

IsSlotLive(o) ==
    /\ slab[op[o].slot].occupied
    /\ slab[op[o].slot].gen % GenMod = op[o].gen % GenMod

FreeSlots == {s \in Slots : ~slab[s].occupied}

Allocated(s, t) ==
    [slab EXCEPT ![s].occupied = TRUE, ![s].owner = t, ![s].fifo = <<>>,
                 ![s].ended = FALSE, ![s].stash = None, ![s].cancel = FALSE]

\* Every way of freeing clears the marks and the FIFO and bumps the generation.
Freed(s) ==
    [slab EXCEPT ![s].occupied = FALSE, ![s].fifo = <<>>, ![s].ended = FALSE,
                 ![s].stash = None, ![s].cancel = FALSE, ![s].gen = @ + 1]

\* The handles a sequence of completions carries.  The drain closes an accept's
\* result only when more follow; its last completion has h = 0 (KernelEnd).
HandlesOf(items) ==
    SelectSeq([i \in DOMAIN items |-> items[i].h], LAMBDA h : h # 0)

-----------------------------------------------------------------------------
Init ==
    /\ load \in Loads
    /\ pc = "tick" /\ batch = 0
    /\ slab = [s \in Slots |->
                 [occupied |-> FALSE, gen |-> 0, owner |-> 0, fifo |-> <<>>,
                  ended |-> FALSE, stash |-> None, cancel |-> FALSE]]
    /\ op = <<>> /\ inbox = <<>> /\ lost = {} /\ cq = <<>> /\ held = {}
    /\ stream = [t \in Tasks |-> 0] /\ last = [t \in Tasks |-> 0]
    /\ asleep = [t \in Tasks |-> FALSE] /\ alive = [t \in Tasks |-> TRUE]
    /\ ops = [t \in Tasks |-> 0]
    /\ pool = SetToSeq(Handles)

-----------------------------------------------------------------------------
(* The cancel drain. *)

\* The cancel's own completion carries the target's sentinel and no MORE.
CancelCqe(o) == [o |-> o, n |-> 0, more |-> FALSE, h |-> 0]

\* The operation's last completion.
LastCqe(o, h) == [o |-> o, n |-> op[o].n + 1, more |-> FALSE, h |-> h]

\* An ASYNC_CANCEL stops the operation, or finds it running and leaves it to
\* end on its own, or finds it gone.
KernelCancel(o) ==
    \/ /\ InKernel(o)
       /\ op' = [op EXCEPT ![o].st = "done", ![o].n = @ + 1]
       /\ cq' = cq \o <<LastCqe(o, 0), CancelCqe(o)>>
    \/ /\ InKernel(o)
       /\ op' = [op EXCEPT ![o].st = "ending"]
       /\ cq' = Append(cq, CancelCqe(o))
    \/ ~InKernel(o) /\ cq' = Append(cq, CancelCqe(o)) /\ UNCHANGED op

\* Best effort: a refused submission is not retried.
SubmitInternal(o) ==
    \/ KernelCancel(o)
    \/ load.refuse /\ UNCHANGED <<op, cq>>

\* What the gone stream left queued goes back to the pool.
Emptied(s) == [slab EXCEPT ![s].fifo = <<>>, ![s].stash = None]

SubmitAcceptCancel(o) ==
    LET s == op[o].slot IN
    /\ IF IsLive(o)
       THEN /\ pool' = pool \o HandlesOf(slab[s].fifo)
            /\ slab' = [Emptied(s) EXCEPT ![s].cancel = TRUE]
       ELSE UNCHANGED <<pool, slab>>
    /\ SubmitInternal(o)

SubmitRecvCancel_alwaysMarks(o) ==
    LET s == op[o].slot IN
    /\ pool' = pool \o HandlesOf(slab[s].fifo \o slab[s].stash)
    /\ slab' = [Emptied(s) EXCEPT ![s].cancel = TRUE]
    /\ SubmitInternal(o)

SubmitRecvCancel_forgetsStash(o) ==
    LET s == op[o].slot IN
    /\ pool' = pool \o HandlesOf(slab[s].fifo)
    /\ IF slab[s].ended
       THEN slab' = Freed(s) /\ UNCHANGED <<op, cq>>
       ELSE slab' = [Emptied(s) EXCEPT ![s].cancel = TRUE] /\ SubmitInternal(o)

\* An operation that has ended posts nothing more: its slot is freed here.
SubmitRecvCancel(o) ==
    LET s == op[o].slot IN
    IF IsLive(o)
    THEN /\ pool' = pool \o HandlesOf(slab[s].fifo \o slab[s].stash)
         /\ \/ /\ slab[s].ended
               /\ slab' = Freed(s)
               /\ UNCHANGED <<op, cq>>
            \/ /\ ~slab[s].ended
               /\ slab' = [Emptied(s) EXCEPT ![s].cancel = TRUE]
               /\ SubmitInternal(o)
    ELSE UNCHANGED <<pool, slab>> /\ SubmitInternal(o)

\* drain_cancels takes one entry.  Another future's goes to its own registry.
DrainCancel ==
    /\ pc = "cancels" /\ inbox # <<>>
    /\ \/ Head(inbox) = 0 /\ UNCHANGED <<slab, op, cq, pool>>
       \/ /\ Head(inbox) # 0
          /\ \/ load.kind = "accept" /\ SubmitAcceptCancel(Head(inbox))
             \/ load.kind = "recv" /\ SubmitRecvCancel(Head(inbox))
    /\ inbox' = Tail(inbox)
    /\ UNCHANGED <<pc, batch, stream, last, asleep, alive, ops, lost, held>>

\* drain_ready copies at most one batch out of the completion queue.  A pass
\* with no cancel queued comes here straight from the tick of the last one.
TakeBatch ==
    /\ pc \in {"tick", "cancels"} /\ inbox = <<>>
    /\ batch' = Min({Batch, Len(cq)})
    /\ pc' = IF cq = <<>> THEN "tick" ELSE "completions"
    /\ UNCHANGED <<slab, op, stream, last, asleep, alive, ops, inbox, lost,
                   cq, pool, held>>

-----------------------------------------------------------------------------
(* The completion drain. *)

\* Queued: the owner is woken and takes the handle.
Queue(c) ==
    LET s == op[c.o].slot IN
    /\ slab' = [slab EXCEPT ![s].fifo = Append(@, [o |-> c.o, n |-> c.n, h |-> c.h]),
                            ![s].ended = @ \/ ~c.more]
    /\ asleep' = [asleep EXCEPT ![slab[s].owner] = FALSE]
    /\ UNCHANGED pool

\* Overflowed: nobody is woken and the handle goes straight back.
Overflow(c) ==
    /\ slab' = [slab EXCEPT ![op[c.o].slot].ended = @ \/ ~c.more]
    /\ pool' = pool \o HandlesOf(<<c>>)
    /\ UNCHANGED asleep

Stash_noWake(c) ==
    /\ slab' = [slab EXCEPT ![op[c.o].slot].ended = TRUE,
                            ![op[c.o].slot].stash = <<[o |-> c.o, n |-> c.n, h |-> c.h]>>]
    /\ UNCHANGED <<pool, asleep>>

\* A receive's last completion never competes for room in the FIFO.
Stash(c) ==
    LET s == op[c.o].slot IN
    /\ slab' = [slab EXCEPT ![s].ended = TRUE,
                            ![s].stash = <<[o |-> c.o, n |-> c.n, h |-> c.h]>>]
    /\ asleep' = [asleep EXCEPT ![slab[s].owner] = FALSE]
    /\ UNCHANGED pool

HasRoom(c) == Len(slab[op[c.o].slot].fifo) < Depth

Push_terminalInFifo(c) ==
    \/ HasRoom(c) /\ Queue(c)
    \/ ~HasRoom(c) /\ Overflow(c)

Push(c) ==
    \/ load.kind = "recv" /\ ~c.more /\ Stash(c)
    \/ (load.kind = "accept" \/ c.more) /\ HasRoom(c) /\ Queue(c)
    \/ (load.kind = "accept" \/ c.more) /\ ~HasRoom(c) /\ Overflow(c)

\* The stream is gone: what still arrives goes back, the last one frees.
Discard(c) ==
    /\ pool' = pool \o HandlesOf(<<c>>)
    /\ slab' = IF c.more THEN slab ELSE Freed(op[c.o].slot)
    /\ UNCHANGED asleep

\* The sentinel names a slot since freed.
Stale(c) == pool' = pool \o HandlesOf(<<c>>) /\ UNCHANGED <<slab, asleep>>

Retire_onWakeOnly(c) ==
    LET t == slab[op[c.o].slot].owner IN
    IF IsSlotLive(c.o) /\ ~c.more /\ ~slab[op[c.o].slot].cancel /\ ops[t] > 0
    THEN [ops EXCEPT ![t] = @ - 1]
    ELSE ops

\* The last completion retires the one submission counted for the owner,
\* read before any free.
Retire(c) ==
    LET t == slab[op[c.o].slot].owner IN
    IF IsSlotLive(c.o) /\ ~c.more /\ alive[t] /\ ops[t] > 0
    THEN [ops EXCEPT ![t] = @ - 1]
    ELSE ops

DrainCompletion ==
    /\ pc = "completions"
    /\ LET c == Head(cq) IN
       /\ ops' = Retire(c)
       /\ \/ ~IsSlotLive(c.o) /\ Stale(c)
          \/ IsSlotLive(c.o) /\ slab[op[c.o].slot].cancel /\ Discard(c)
          \/ IsSlotLive(c.o) /\ ~slab[op[c.o].slot].cancel /\ Push(c)
    /\ cq' = Tail(cq) /\ batch' = batch - 1
    /\ pc' = IF batch = 1 THEN "tick" ELSE pc
    /\ UNCHANGED <<op, stream, last, alive, inbox, lost, held>>

-----------------------------------------------------------------------------
(* The tick: a task that is not asleep runs.  It drives its stream, awaits *)
(* something else (and takes no step), or drops the stream.                *)

Running(t) == pc = "tick" /\ alive[t] /\ ~asleep[t]

NewOp(t, s, state) ==
    [task |-> t, slot |-> s, gen |-> slab[s].gen, st |-> state, n |-> 0]

MayStart(t) ==
    Running(t) /\ stream[t] = 0 /\ Len(op) < load.starts /\ FreeSlots # {}

\* start_multishot.  With no slot free the stream falls back to single-shot
\* operations, which is not this registry's business.
Start(t) ==
    /\ MayStart(t)
    /\ slab' = Allocated(Min(FreeSlots), t)
    /\ op' = Append(op, NewOp(t, Min(FreeSlots), "armed"))
    /\ stream' = [stream EXCEPT ![t] = Len(op) + 1]
    /\ ops' = [ops EXCEPT ![t] = @ + 1]
    /\ UNCHANGED <<pc, batch, last, asleep, alive, inbox, lost, cq, pool, held>>

\* The ring refuses the operation: its slot is freed again, and the stream
\* falls back.
StartRefused(t) ==
    LET s == Min(FreeSlots) IN
    /\ MayStart(t)
    /\ slab' = [Freed(s) EXCEPT ![s].owner = t]
    /\ op' = Append(op, NewOp(t, s, "refused"))
    /\ UNCHANGED <<pc, batch, stream, last, asleep, alive, ops, inbox, lost, cq,
                   pool, held>>

Driving(t) == Running(t) /\ stream[t] # 0
Mine(t) == slab[op[stream[t]].slot]

\* The stream has something to hand back.
HasItem(t) == IsLive(stream[t]) /\ Mine(t).fifo # <<>>
HasTerminal(t) == IsLive(stream[t]) /\ Mine(t).fifo = <<>> /\ Mine(t).stash # None
HasEnd(t) ==
    IsLive(stream[t]) /\ Mine(t).fifo = <<>> /\ Mine(t).stash = None /\ Mine(t).ended
Ready(t) == HasItem(t) \/ HasTerminal(t) \/ HasEnd(t)

\* The user owns what next() returns.
Deliver(t, item) ==
    /\ last' = [last EXCEPT ![t] = item.n]
    /\ held' = held \cup (IF item.h = 0 THEN {} ELSE {item.h})
    /\ UNCHANGED <<pc, batch, op, stream, asleep, alive, ops, inbox, lost,
                   cq, pool>>

NextItem(t) ==
    /\ Driving(t) /\ HasItem(t)
    /\ slab' = [slab EXCEPT ![op[stream[t]].slot].fifo = Tail(@)]
    /\ Deliver(t, Head(Mine(t).fifo))

NextTerminal(t) ==
    /\ Driving(t) /\ HasTerminal(t)
    /\ slab' = [slab EXCEPT ![op[stream[t]].slot].stash = None]
    /\ Deliver(t, Mine(t).stash[1])

\* The task's stream is over.
Left(t) ==
    stream' = [stream EXCEPT ![t] = 0] /\ last' = [last EXCEPT ![t] = 0]

NextEnded(t) ==
    /\ Driving(t) /\ HasEnd(t)
    /\ slab' = Freed(op[stream[t]].slot)
    /\ Left(t)
    /\ UNCHANGED <<pc, batch, op, asleep, alive, ops, inbox, lost,
                   cq, pool, held>>

NextPending(t) ==
    /\ Driving(t) /\ ~Ready(t)
    /\ asleep' = [asleep EXCEPT ![t] = TRUE]
    /\ UNCHANGED <<pc, batch, slab, op, stream, last, alive, ops, inbox, lost, cq,
                   pool, held>>

\* The ring queues the cancel if it has room and forgets it otherwise.
PushWithin(room, o) ==
    \/ /\ Len(inbox) < room
       /\ inbox' = Append(inbox, o) /\ UNCHANGED lost
    \/ /\ Len(inbox) >= room
       /\ lost' = lost \cup {o} /\ UNCHANGED inbox

\* CancelInbox: CANCEL_INBOX_CAPACITY places, none of them reserved.
PushAcceptCancel(o) == PushWithin(load.slots + load.others, o)

\* RecvCancelInbox: one place for each slot (RECV_CANCEL_INBOX_CAPACITY).
PushRecvCancel(o) == PushWithin(load.slots, o)

PushCancel(o) ==
    \/ load.kind = "accept" /\ PushAcceptCancel(o)
    \/ load.kind = "recv" /\ PushRecvCancel(o)

\* A buffered or slotless operation of another future is dropped: its cancel
\* goes into the ring the accept streams use.
OtherCancel ==
    /\ pc = "tick" /\ load.others > 0 /\ Len(inbox) < load.slots + load.others
    /\ inbox' = Append(inbox, 0)
    /\ UNCHANGED <<pc, batch, slab, op, stream, last, asleep, alive, ops, lost,
                   cq, pool, held>>

DropStream(t) ==
    /\ Driving(t)
    /\ PushCancel(stream[t])
    /\ Left(t)
    /\ UNCHANGED <<pc, batch, slab, op, asleep, alive, ops, cq, pool,
                   held>>

\* A task cancelled while it slept is reaped at the end of the pass, which
\* drops its stream; nothing the other tasks do in the tick depends on it.
ReapTask(t) ==
    /\ pc = "tick" /\ alive[t] /\ asleep[t]
    /\ PushCancel(stream[t])
    /\ Left(t)
    /\ alive' = [alive EXCEPT ![t] = FALSE]
    /\ UNCHANGED <<pc, batch, slab, op, asleep, ops, cq, pool, held>>

\* The user closes a connection or drops a buffer's view.
Release(h) ==
    /\ pc = "tick" /\ h \in held
    /\ held' = held \ {h} /\ pool' = Append(pool, h)
    /\ UNCHANGED <<pc, batch, slab, op, stream, last, asleep, alive, ops,
                   inbox, lost, cq>>

\* The next pass begins with the cancels queued in this one.
StartPass ==
    /\ pc = "tick" /\ inbox # <<>>
    /\ pc' = "cancels"
    /\ UNCHANGED <<batch, slab, op, stream, last, asleep, alive, ops, inbox, lost,
                   cq, pool, held>>

-----------------------------------------------------------------------------
(* The kernel. *)

\* One more connection, one more chunk of bytes.
KernelPost(o) ==
    /\ InKernel(o) /\ op[o].n < load.posts /\ pool # <<>>
    /\ op' = [op EXCEPT ![o].n = @ + 1]
    /\ cq' = Append(cq, [o |-> o, n |-> op[o].n + 1, more |-> TRUE, h |-> Head(pool)])
    /\ pool' = Tail(pool)
    /\ UNCHANGED <<pc, batch, slab, stream, last, asleep, alive, ops, inbox,
                   lost, held>>

\* The operation ends: the peer closed, the handles ran out, an error.  The
\* last completion of a receive may carry a buffer, that of an accept carries
\* no descriptor.
KernelEnd(o) ==
    /\ InKernel(o)
    /\ op' = [op EXCEPT ![o].st = "done", ![o].n = @ + 1]
    /\ \/ cq' = Append(cq, LastCqe(o, 0)) /\ UNCHANGED pool
       \/ /\ load.kind = "recv" /\ pool # <<>>
          /\ cq' = Append(cq, LastCqe(o, Head(pool))) /\ pool' = Tail(pool)
    /\ UNCHANGED <<pc, batch, slab, stream, last, asleep, alive, ops, inbox,
                   lost, held>>

-----------------------------------------------------------------------------
Next ==
    /\ UNCHANGED load
    /\ \/ DrainCancel \/ TakeBatch \/ DrainCompletion \/ StartPass
       \/ OtherCancel
       \/ \E t \in Tasks :
             \/ Start(t) \/ StartRefused(t)
             \/ NextItem(t) \/ NextTerminal(t) \/ NextEnded(t) \/ NextPending(t)
             \/ DropStream(t) \/ ReapTask(t)
       \/ \E h \in Handles : Release(h)
       \/ \E o \in DOMAIN op : KernelPost(o) \/ KernelEnd(o)

Spec == Init /\ [][Next]_vars

-----------------------------------------------------------------------------
\* How often handle h occurs in a sequence of completions.
Count(h, items) == Cardinality({i \in DOMAIN items : items[i].h = h})

\* Every descriptor or provided buffer is in exactly one place: free for the
\* kernel, in a completion not yet drained, queued or stashed in one slot, or
\* owned by the user.  No overflow, stale completion, drop or cancel loses
\* one, and none is closed or recycled twice (which "would let the kernel hand
\* one region to two ops at once", drain.rs).
HandleOnce ==
    \A h \in Handles :
        1 = Cardinality({i \in DOMAIN pool : pool[i] = h})
            + Count(h, cq)
            + MapThenSumSet(LAMBDA s : Count(h, slab[s].fifo \o slab[s].stash), Slots)
            + (IF h \in held THEN 1 ELSE 0)

\* The operation an occupied slot was allocated for.
OpIn(s, o) == Started(o) /\ op[o].slot = s /\ op[o].gen = slab[s].gen

\* Every occupied slot has someone who is going to free it: its stream, a
\* queued cancel, or, once cancel-pending, an operation still in the kernel
\* or a last completion already posted; the cancel drain does not wait for a
\* completion that has been and gone.  The one exception is a slot whose cancel
\* a full ring turned away, "a slot held to teardown" (inbox.rs).  No receive
\* meets it ("no slot drops twice before a drain"), and no accept does unless
\* other futures' cancels took the places of the shared ring.
SlotAccounted ==
    /\ lost # {} => load.others > 0
    /\ \A s \in Slots : slab[s].occupied =>
           \E o \in DOMAIN op :
               /\ OpIn(s, o)
               /\ \/ slab[s].cancel /\ InKernel(o)
                  \/ slab[s].cancel /\ \E i \in DOMAIN cq : cq[i].o = o /\ ~cq[i].more
                  \/ ~slab[s].cancel /\ \E t \in Tasks : stream[t] = o
                  \/ ~slab[s].cancel /\ \E i \in DOMAIN inbox : inbox[i] = o
                  \/ ~slab[s].cancel /\ o \in lost

\* A receiving task's in_flight_ops counts exactly its operations whose last
\* completion has not been drained, whichever of the operation's and the
\* cancel's completions comes first and whether or not the stream is left.
RetirePaired ==
    load.kind = "recv" =>
        \A t \in Tasks : alive[t] =>
            ops[t] = Cardinality({s \in Slots : /\ slab[s].occupied
                                                /\ slab[s].owner = t
                                                /\ ~slab[s].ended})

\* A stream sees completions of its own operation only, each once and in the
\* order the kernel posted them, although its slot has been another's and the
\* other's completions may still be about; and a receive never reports its
\* end without having handed back its last completion, however deep the
\* backlog that overflowed its FIFO.
StreamInOrder ==
    \A t \in Tasks : stream[t] # 0 =>
        LET due == Mine(t).fifo \o Mine(t).stash IN
        /\ IsLive(stream[t])
        /\ \A i \in DOMAIN due : due[i].o = stream[t] /\ due[i].n > last[t]
        /\ \A i, j \in DOMAIN due : i < j => due[i].n < due[j].n
        /\ load.kind = "recv" /\ Mine(t).ended /\ Mine(t).stash = None
              => last[t] = op[stream[t]].n

\* No task sleeps in next() while its stream has something for it: a drain
\* that queues, stashes or ends without waking the owner would leave it there
\* for ever.
NoSleepOnReady ==
    \A t \in Tasks : alive[t] /\ asleep[t] => ~Ready(t)

=============================================================================
