------------------------------ MODULE OneshotIo ------------------------------
(***************************************************************************)
(* One worker's single-shot I/O: the futures that submit an operation      *)
(* under their task's token (recv and send keep their bytes in a slot of   *)
(* the worker's in-flight slab, accept holds no slot), the completion      *)
(* drain that stores a result in the task's one `wake_data` word, and the  *)
(* cancel path by which the slot of a dropped future comes back once the   *)
(* kernel is done with it.                                                 *)
(*                                                                         *)
(* The worker runs its pass in order: drain the cancel inbox, drain one    *)
(* batch of completions, poll the woken tasks, reap cancelled ones.  The   *)
(* kernel interleaves with every step.  A completion names its operation   *)
(* by the task token only, which is what most properties here are about.   *)
(***************************************************************************)
EXTENDS Naturals, Sequences, FiniteSetsExt

CONSTANTS
    Tasks,         \* task tokens: one per task generation, never reused
    NSlots,        \* slots of the in-flight slab
    AcceptCap,     \* ACCEPT_CANCEL_CAPACITY
    Batch,         \* COMPLETION_BATCH
    GenMod,        \* 2^16: the generation bits a cancel sentinel carries
    Loads          \* what the tasks do, and under which limits: a load has
                   \*   kinds     operations issued, of {"buffered", "accept"}
                   \*   perTask   bound: operations one task issues
                   \*   inboxCap  CANCEL_INBOX_CAPACITY
                   \*   foreign   tasks are woken by more than their I/O
                   \*   reissue   a task may go on after dropping a future
                   \*   refuse    the ring may refuse a cancel submission

ASSUME OneshotAssumption ==
    /\ NSlots \in Nat \ {0} /\ Batch \in Nat \ {0}
    /\ AcceptCap \in Nat \ {0} /\ GenMod \in Nat \ {0}
    /\ \A l \in Loads :
          /\ l.kinds \subseteq {"buffered", "accept"}
          /\ l.perTask \in Nat \ {0} /\ l.inboxCap \in Nat \ {0}
          /\ {l.foreign, l.reissue, l.refuse} \subseteq BOOLEAN

VARIABLES
    load,      \* the load of this execution, chosen at the start
    pc,        \* step of the worker's pass
    cur,       \* the task being polled, 0 for none
    slab,      \* the in-flight slab, slot by slot
    op,        \* every operation issued so far, in issue order
    fut,       \* the operation each task's live future owns, 0 for none
    wake,      \* wake_data: the operation whose result is stored, 0 for none
    woken,     \* the task is on the run queue
    alive,     \* the task's cell still holds its future
    inbox,     \* the cancel inbox: operations whose future was dropped
    accepts,   \* AcceptCancelSet, as the multiplicity of each token
    cq,        \* the completion queue shared with the kernel
    batch,     \* completions left in the drained batch
    closed,    \* operations whose result was closed as a descriptor
    lost       \* operations whose cancel met a full inbox

vars == <<load, pc, cur, slab, op, fut, wake, woken, alive, inbox, accepts,
          cq, batch, closed, lost>>

Slots == 1 .. NSlots
MaxOps == Max({l.perTask : l \in Loads}) * Cardinality(Tasks)
Steps == {"cancels", "completions", "tick", "poll", "body", "issued", "reap"}

\* Kernel's view of an operation: "flight" may last for ever, "ending" is an
\* operation a cancel found running and which is going to complete.
OpStates == {"flight", "ending", "posted", "done", "refused"}
InKernel == {"flight", "ending"}

SlotRecord == [occupied : BOOLEAN, retire : BOOLEAN, token : Tasks \cup {0},
               gen : 0 .. MaxOps]
OpRecord == [task : Tasks, kind : {"buffered", "accept"}, slot : 0 .. NSlots,
             gen : 0 .. MaxOps, st : OpStates, res : {"none", "ok", "err"},
             got : 0 .. MaxOps]
Completion == [of : {"op", "cancel"}, o : 1 .. MaxOps,
               res : {"none", "found", "gone"}]

Issued(t) == {o \in DOMAIN op : op[o].task = t}

-----------------------------------------------------------------------------
(* The in-flight slab. *)

IsLive(o) ==
    /\ op[o].kind = "buffered" /\ op[o].slot # 0
    /\ slab[op[o].slot].occupied
    /\ slab[op[o].slot].gen = op[o].gen

\* Every way of freeing clears the marks and bumps the generation.
Freed(s) ==
    [slab EXCEPT ![s].occupied = FALSE, ![s].retire = FALSE, ![s].gen = @ + 1]

Free(o) == IF IsLive(o) THEN Freed(op[o].slot) ELSE slab

MarkRetirePending_skipped(o) == slab

MarkRetirePending(o) ==
    IF IsLive(o) THEN [slab EXCEPT ![op[o].slot].retire = TRUE] ELSE slab

\* The first retire-pending slot the token names.
FreeByOpToken(t) ==
    LET match == {s \in Slots : slab[s].retire /\ slab[s].occupied
                                               /\ slab[s].token = t}
    IN  IF match = {} THEN slab ELSE Freed(Min(match))

FreeIfRetirePending_noGeneration(s, low) ==
    IF slab[s].occupied /\ slab[s].retire THEN Freed(s) ELSE slab

\* The sentinel carries the slot and the low bits of its generation.
FreeIfRetirePending(s, low) ==
    IF slab[s].occupied /\ slab[s].retire /\ slab[s].gen % GenMod = low
    THEN Freed(s)
    ELSE slab

FreeSlots == {s \in Slots : ~slab[s].occupied}

Occupied(s, t) ==
    [slab EXCEPT ![s].occupied = TRUE, ![s].token = t]

-----------------------------------------------------------------------------
Init ==
    /\ load \in Loads
    /\ pc = "tick" /\ cur = 0 /\ batch = 0
    /\ slab = [s \in Slots |-> [occupied |-> FALSE, retire |-> FALSE,
                                token |-> 0, gen |-> 0]]
    /\ op = <<>> /\ cq = <<>> /\ inbox = <<>> /\ closed = {}
    /\ lost = {}
    /\ fut = [t \in Tasks |-> 0] /\ wake = [t \in Tasks |-> 0]
    /\ woken = [t \in Tasks |-> TRUE] /\ alive = [t \in Tasks |-> TRUE]
    /\ accepts = [t \in Tasks |-> 0]

-----------------------------------------------------------------------------
(* The cancel inbox. *)

\* A dropped future queues its operation; a full inbox forgets it.
PushCancel(o) ==
    \/ /\ Len(inbox) < load.inboxCap
       /\ inbox' = Append(inbox, o) /\ UNCHANGED lost
    \/ /\ Len(inbox) >= load.inboxCap
       /\ lost' = lost \cup {o} /\ UNCHANGED inbox

AcceptTokens == MapThenSumSet(LAMBDA t : accepts[t], Tasks)

\* AcceptCancelSet::insert, which forgets the token when the set is full.
InsertAccept(t) ==
    IF AcceptTokens < AcceptCap THEN [accepts EXCEPT ![t] = @ + 1] ELSE accepts

\* An ASYNC_CANCEL finds one operation in flight under the token, if any.  It
\* stops it, or finds it running and leaves it to complete.
KernelCancel(o) ==
    LET t == op[o].task
        targets == {x \in Issued(t) : op[x].st \in InKernel}
        found == [of |-> "cancel", o |-> o, res |-> "found"]
        gone == [of |-> "cancel", o |-> o, res |-> "gone"]
    IN  \/ \E x \in targets :
              /\ op' = [op EXCEPT ![x].st = "posted", ![x].res = "err"]
              /\ cq' = cq \o <<[of |-> "op", o |-> x, res |-> "none"], found>>
        \/ \E x \in targets :
              /\ op' = [op EXCEPT ![x].st = "ending"]
              /\ cq' = Append(cq, found)
        \/ targets = {} /\ cq' = Append(cq, gone) /\ UNCHANGED op

\* Best effort: a refused submission is not retried.
SubmitInternal(o) ==
    \/ KernelCancel(o)
    \/ load.refuse /\ UNCHANGED <<op, cq>>

SubmitCancel(o) ==
    /\ slab' = MarkRetirePending(o)
    /\ SubmitInternal(o)
    /\ UNCHANGED accepts

SubmitAcceptCancel(o) ==
    /\ accepts' = InsertAccept(op[o].task)
    /\ SubmitInternal(o)
    /\ UNCHANGED slab

SubmitCancelFor(o) ==
    \/ op[o].kind = "buffered" /\ SubmitCancel(o)
    \/ op[o].kind = "accept" /\ SubmitAcceptCancel(o)

\* drain_cancels takes one entry.
DrainCancel ==
    /\ pc = "cancels" /\ inbox # <<>>
    /\ SubmitCancelFor(Head(inbox))
    /\ inbox' = Tail(inbox)
    /\ UNCHANGED <<pc, cur, fut, wake, woken, alive, batch, closed, lost>>

TakeBatch_unclamped ==
    /\ pc = "cancels" /\ inbox = <<>>
    /\ pc' = "completions"
    /\ batch' = Batch
    /\ UNCHANGED <<cur, slab, op, fut, wake, woken, alive, inbox, accepts, cq,
                   closed, lost>>

\* drain_ready copies at most one batch out of the completion queue.
TakeBatch ==
    /\ pc = "cancels" /\ inbox = <<>>
    /\ pc' = "completions"
    /\ batch' = Min({Batch, Len(cq)})
    /\ UNCHANGED <<cur, slab, op, fut, wake, woken, alive, inbox, accepts, cq,
                   closed, lost>>

-----------------------------------------------------------------------------
(* The completion drain. *)

ReclaimCancel_never(c) == UNCHANGED <<slab, op, wake, woken, accepts, closed>>

\* A cancel's own completion frees the slot only when its target was gone.
ReclaimCancel(c) ==
    /\ slab' = IF c.res = "gone" /\ op[c.o].slot # 0
               THEN FreeIfRetirePending(op[c.o].slot, op[c.o].gen % GenMod)
               ELSE slab
    /\ UNCHANGED <<op, wake, woken, accepts, closed>>

\* The token names a dropped accept: a nonnegative result is closed as its
\* descriptor and nobody is woken.
DisposeCancelledOp(o) ==
    /\ accepts[op[o].task] > 0
    /\ accepts' = [accepts EXCEPT ![op[o].task] = @ - 1]
    /\ closed' = IF op[o].res = "ok" THEN closed \cup {o} ELSE closed
    /\ op' = [op EXCEPT ![o].st = "done"]
    /\ UNCHANGED <<slab, wake, woken>>

\* Otherwise a dropped future's slot is reclaimed, and the result is stored
\* for the task the token names, if it is still there, and the task woken.
StoreAndWake(o) ==
    LET t == op[o].task IN
    /\ accepts[t] = 0
    /\ slab' = FreeByOpToken(t)
    /\ wake' = IF alive[t] THEN [wake EXCEPT ![t] = o] ELSE wake
    /\ woken' = IF alive[t] THEN [woken EXCEPT ![t] = TRUE] ELSE woken
    /\ op' = [op EXCEPT ![o].st = "done"]
    /\ UNCHANGED <<accepts, closed>>

DrainCompletion ==
    /\ pc = "completions" /\ batch > 0
    /\ LET c == Head(cq) IN
       \/ c.of = "cancel" /\ ReclaimCancel(c)
       \/ c.of = "op" /\ (DisposeCancelledOp(c.o) \/ StoreAndWake(c.o))
    /\ cq' = Tail(cq) /\ batch' = batch - 1
    /\ UNCHANGED <<pc, cur, fut, alive, inbox, lost>>

EndCompletions ==
    /\ pc = "completions" /\ batch = 0
    /\ pc' = "tick"
    /\ UNCHANGED <<cur, slab, op, fut, wake, woken, alive, inbox, accepts, cq,
                   batch, closed, lost>>

-----------------------------------------------------------------------------
(* The tick: woken tasks are polled one at a time. *)

\* A timer, a child or another thread wakes the task.  The tick reads the length
\* of the run queue once, after the timers fired, so a later wake is served in
\* the next pass.
ForeignWake(t) ==
    /\ load.foreign /\ pc = "completions" /\ alive[t] /\ ~woken[t]
    /\ woken' = [woken EXCEPT ![t] = TRUE]
    /\ UNCHANGED <<pc, cur, slab, op, fut, wake, alive, inbox, accepts, cq,
                   batch, closed, lost>>

\* poll_one: the task goes on from its live future, if it has one.
StartPoll(t) ==
    /\ pc = "tick" /\ alive[t] /\ woken[t]
    /\ woken' = [woken EXCEPT ![t] = FALSE]
    /\ cur' = t
    /\ pc' = IF fut[t] = 0 THEN "body" ELSE "poll"
    /\ UNCHANGED <<slab, op, fut, wake, alive, inbox, accepts, cq, batch,
                   closed, lost>>

Resolve_keepsSlot ==
    /\ pc = "poll" /\ wake[cur] # 0
    /\ op' = [op EXCEPT ![fut[cur]].got = wake[cur]]
    /\ fut' = [fut EXCEPT ![cur] = 0]
    /\ pc' = "body"
    /\ UNCHANGED <<cur, slab, wake, woken, alive, inbox, accepts, cq, batch,
                   closed, lost>>

\* The future finds a result stored, whatever operation left it there: it
\* resolves and frees its own slot.  `wake_data` is left as it is.
Resolve ==
    LET o == fut[cur] IN
    /\ pc = "poll" /\ wake[cur] # 0
    /\ slab' = Free(o)
    /\ op' = [op EXCEPT ![o].got = wake[cur]]
    /\ fut' = [fut EXCEPT ![cur] = 0]
    /\ pc' = "body"
    /\ UNCHANGED <<cur, wake, woken, alive, inbox, accepts, cq, batch, closed,
                   lost>>

StayPending ==
    /\ pc = "poll" /\ wake[cur] = 0
    /\ pc' = "tick" /\ cur' = 0
    /\ UNCHANGED <<slab, op, fut, wake, woken, alive, inbox, accepts, cq,
                   batch, closed, lost>>

\* The task drops its future unresolved: a select took another branch, or the
\* task is returning.  A task that does not reissue then returns.
DropFuture ==
    /\ pc \in {"poll", "issued"}
    /\ PushCancel(fut[cur])
    /\ fut' = [fut EXCEPT ![cur] = 0]
    /\ IF load.reissue
       THEN pc' = "body" /\ UNCHANGED <<cur, alive>>
       ELSE /\ pc' = "tick" /\ cur' = 0
            /\ alive' = [alive EXCEPT ![cur] = FALSE]
    /\ UNCHANGED <<slab, op, wake, woken, accepts, cq, batch, closed>>

NewOp(kind, s, state) ==
    [task |-> cur, kind |-> kind, slot |-> s,
     gen |-> IF s = 0 THEN 0 ELSE slab[s].gen,
     st |-> state, res |-> "none", got |-> 0]

MayIssue == pc = "body" /\ Cardinality(Issued(cur)) < load.perTask

\* First poll of a recv or send: a slot is allocated and the operation
\* submitted under the task's token.
IssueBuffered ==
    /\ MayIssue /\ "buffered" \in load.kinds /\ FreeSlots # {}
    /\ slab' = Occupied(Min(FreeSlots), cur)
    /\ op' = Append(op, NewOp("buffered", Min(FreeSlots), "flight"))
    /\ fut' = [fut EXCEPT ![cur] = Len(op) + 1]
    /\ pc' = "issued"
    /\ UNCHANGED <<cur, wake, woken, alive, inbox, accepts, cq, batch, closed,
                   lost>>

\* The ring refuses the operation: its slot is freed again and the future
\* resolves with an error at once.  With no slot free nothing is submitted.
RefuseBuffered ==
    /\ MayIssue /\ "buffered" \in load.kinds
    /\ IF FreeSlots = {}
       THEN /\ op' = Append(op, NewOp("buffered", 0, "refused"))
            /\ UNCHANGED slab
       ELSE /\ op' = Append(op, NewOp("buffered", Min(FreeSlots), "refused"))
            /\ slab' = [Freed(Min(FreeSlots))
                          EXCEPT ![Min(FreeSlots)].token = cur]
    /\ UNCHANGED <<pc, cur, fut, wake, woken, alive, inbox, accepts, cq, batch,
                   closed, lost>>

\* First poll of an accept, which owns no slot.
IssueAccept ==
    /\ MayIssue /\ "accept" \in load.kinds
    /\ op' = Append(op, NewOp("accept", 0, "flight"))
    /\ fut' = [fut EXCEPT ![cur] = Len(op) + 1]
    /\ pc' = "issued"
    /\ UNCHANGED <<cur, slab, wake, woken, alive, inbox, accepts, cq, batch,
                   closed, lost>>

Yield_selfWake ==
    /\ pc = "issued"
    /\ pc' = "tick" /\ cur' = 0
    /\ woken' = [woken EXCEPT ![cur] = TRUE]
    /\ UNCHANGED <<slab, op, fut, wake, alive, inbox, accepts, cq, batch,
                   closed, lost>>

Yield ==
    /\ pc = "issued"
    /\ pc' = "tick" /\ cur' = 0
    /\ UNCHANGED <<slab, op, fut, wake, woken, alive, inbox, accepts, cq,
                   batch, closed, lost>>

\* The task returns.
Finish ==
    /\ pc = "body"
    /\ alive' = [alive EXCEPT ![cur] = FALSE]
    /\ pc' = "tick" /\ cur' = 0
    /\ UNCHANGED <<slab, op, fut, wake, woken, inbox, accepts, cq, batch,
                   closed, lost>>

EndTick ==
    /\ pc = "tick" /\ \A t \in Tasks : ~(alive[t] /\ woken[t])
    /\ pc' = "reap"
    /\ UNCHANGED <<cur, slab, op, fut, wake, woken, alive, inbox, accepts, cq,
                   batch, closed, lost>>

\* A task cancelled while it slept is reaped, which drops its future.
ReapTask(t) ==
    /\ pc = "reap" /\ alive[t] /\ fut[t] # 0
    /\ PushCancel(fut[t])
    /\ fut' = [fut EXCEPT ![t] = 0]
    /\ alive' = [alive EXCEPT ![t] = FALSE]
    /\ UNCHANGED <<pc, cur, slab, op, wake, woken, accepts, cq, batch, closed>>

EndReap ==
    /\ pc = "reap"
    /\ pc' = "cancels"
    /\ UNCHANGED <<cur, slab, op, fut, wake, woken, alive, inbox, accepts, cq,
                   batch, closed, lost>>

\* The kernel finishes an operation and posts its one completion.
KernelComplete(o) ==
    /\ op[o].st \in InKernel
    /\ \E r \in {"ok", "err"} :
          op' = [op EXCEPT ![o].st = "posted", ![o].res = r]
    /\ cq' = Append(cq, [of |-> "op", o |-> o, res |-> "none"])
    /\ UNCHANGED <<pc, cur, slab, fut, wake, woken, alive, inbox, accepts,
                   batch, closed, lost>>

-----------------------------------------------------------------------------
Worker ==
    \/ DrainCancel \/ TakeBatch \/ DrainCompletion \/ EndCompletions
    \/ \E t \in Tasks : StartPoll(t)
    \/ Resolve \/ StayPending \/ DropFuture \/ Yield \/ Finish
    \/ IssueBuffered \/ RefuseBuffered \/ IssueAccept
    \/ EndTick \/ EndReap

Next ==
    /\ UNCHANGED load
    /\ \/ Worker
       \/ \E t \in Tasks : ForeignWake(t) \/ ReapTask(t)
       \/ \E o \in DOMAIN op : KernelComplete(o)

Spec == Init /\ [][Next]_vars

\* The worker keeps running its pass.  The kernel completes the operations it
\* reported as already running; any other may wait for its peer for ever.
Fairness ==
    /\ WF_vars(UNCHANGED load /\ Worker)
    /\ \A o \in 1 .. MaxOps :
          WF_vars(/\ o \in DOMAIN op /\ op[o].st = "ending"
                  /\ UNCHANGED load /\ KernelComplete(o))

FairSpec == Spec /\ Fairness

-----------------------------------------------------------------------------
(* Properties. *)

TypeOK ==
    /\ load \in Loads
    /\ pc \in Steps /\ cur \in Tasks \cup {0}
    /\ slab \in [Slots -> SlotRecord]
    /\ op \in Seq(OpRecord) /\ Len(op) <= MaxOps
    /\ fut \in [Tasks -> 0 .. MaxOps] /\ wake \in [Tasks -> 0 .. MaxOps]
    /\ woken \in [Tasks -> BOOLEAN] /\ alive \in [Tasks -> BOOLEAN]
    /\ inbox \in Seq(1 .. MaxOps) /\ Len(inbox) <= load.inboxCap
    /\ accepts \in [Tasks -> 0 .. AcceptCap]
    /\ cq \in Seq(Completion) /\ batch \in 0 .. Batch /\ batch <= Len(cq)
    /\ closed \subseteq DOMAIN op /\ lost \subseteq DOMAIN op

\* The slot of an operation the kernel may still touch stays allocated at the
\* operation's generation: "the kernel never writes freed memory".  Two
\* operations one after another and a wake from elsewhere break it (io_stale).
KernelHoldsItsSlot ==
    \A o \in DOMAIN op :
       op[o].kind = "buffered" /\ op[o].st \in InKernel => IsLive(o)

\* A task awaits each operation it issues, or ends; it does not go on after
\* dropping one.
Awaits == ~load.reissue

\* A future resolves only with the result of the operation it submitted, if its
\* task awaits one operation after another and is woken by nothing but its own
\* I/O: the futures read `wake_data`, which says nothing of the operation and is
\* never cleared, so a wake from elsewhere breaks it (run io_stale).  Refused
\* cancels, lost cancels and accepts among the operations do not.
ResultIsMine ==
    Awaits /\ ~load.foreign => \A o \in DOMAIN op : op[o].got \in {0, o}

\* The token of an occupied slot names that slot alone, which the searches by
\* token (`free_by_op_token` and its siblings) rely on, for tasks that await
\* their operations.
TokenUnique ==
    Awaits => \A s, r \in Slots :
       slab[s].occupied /\ slab[r].occupied /\ slab[s].token = slab[r].token
          => s = r

\* Something still to happen gives each occupied slot back: its future is
\* live, its cancel is queued, or it is retire-pending and a completion that
\* frees it is due.  A full inbox breaks that for the operation it turned away,
\* which the code admits, and for no other; a refused cancel submission may
\* break it too, and a task that goes on after a drop has two slots under one
\* token.
NoSlotLost ==
    Awaits /\ ~load.refuse => \A s \in Slots : slab[s].occupied =>
       \E o \in DOMAIN op :
          /\ op[o].slot = s /\ IsLive(o)
          /\ \/ fut[op[o].task] = o
             \/ \E i \in DOMAIN inbox : inbox[i] = o
             \/ /\ slab[s].retire
                /\ \/ op[o].st \in InKernel \cup {"posted"}
                   \/ \E i \in DOMAIN cq :
                         cq[i] = [of |-> "cancel", o |-> o, res |-> "gone"]
             \/ o \in lost

\* The slot of a dropped future is freed in the end, by its completion or by
\* that of its cancel, if its cancel found room in the inbox and in the ring and
\* its task awaits its operations.
DroppedSlotFreed ==
    \A o \in 1 .. MaxOps :
       (/\ Awaits /\ ~load.refuse
        /\ o \in DOMAIN op /\ IsLive(o) /\ fut[op[o].task] # o /\ o \notin lost)
          ~> (o \in DOMAIN op /\ ~IsLive(o))

\* Only a result that is a descriptor is closed: "never an unrelated close".
ClosesOnlyAccepted == \A o \in closed : op[o].kind = "accept"

=============================================================================
