# A verification of kwokka in TLA+

kwokka is an async runtime that is built on completions rather than readiness: each worker thread owns an
io_uring, a slab of tasks, a timer wheel and a slab of in-flight buffers, and workers talk to each other only
through lock-free rings and eventfd (or `msg_ring`) wake-ups. This directory holds TLA+ modules of the parts of
it whose correctness depends on an order of events, the TLC configurations that check them on small instances,
and TLAPS proofs about three of them for every value of the constants.

`PROJECT.json` lists the components, the runs, the mutants that show each property can fail, the source lines
each definition stands for, the findings, the hazards and the theorems.

## 1. The system

| Part | State | Operations | Talks to |
|---|---|---|---|
| MPSC ring (`sync/mpsc.rs`) | slots with a sequence word, two positions | push, pop, len, drop | every cross-thread channel is one |
| Registry and endpoint (`worker/coordination`, `worker/park`) | static rings per worker id, endpoint word | enqueue, signal, publish, withdraw, set_parked | producers on any thread |
| Generational slab (`kwokka-core/slab`) | entries, free list, generations | insert, remove, retire_slot, reserve, install, unreserve | tasks, timers |
| Worker pass (`runtime/drive`, `worker/cycle`) | run queue, inboxes, shard | one pass: notes, steals, handoffs, wakes, timers, polls, spawns, reaping, reports, park | everything below |
| Work stealing (`scheduler/stealing`) | forward table, origin table, pending promise | serve, receive, report, drain notes, try_steal | siblings of the crew |
| Scopes and joins (`task/join`) | child links, state of each child | spawn, wait, walk, reap | the parent's poll |
| Timer wheel (`timer/wheel`) | levels of slots, masks, entries | register, cancel, advance, next_expiry | sleeps, the park timeout |
| In-flight slab and cancel inbox (`kwokka-io`) | slots with token, generation and retire mark; inbox; accept-cancel set | allocate, resolve, drop, submit_cancel, reclaim | futures, the kernel |
| Multishot registries, provided buffers | a FIFO per stream, buffer ids | push, pop, cancel, recycle | streams, the kernel |
| Worker ids, crew start and stop | two claim words, threads | claim, release, spawn, join | builder, handle |
| Flat IR (`kwokka-ir`) | byte frames | write, check, view | nothing yet: no engine runs it |
| Arena (`kwokka-core/arena`) | bump pointer, phase, drop registry | alloc, freeze, reset | nothing in the runtime yet |

What makes it hard: producers and a consumer meet in a ring without locks; a worker decides to sleep while others
post to it; a task's body moves between slabs while wakers, parents and timers still name its old slot; a buffer
belongs to the kernel until a completion says otherwise, and the completion, the drop of the future and the cancel
come in any order; bounded queues drop what does not fit. Nothing is persisted, so there is no recovery to model, and
a panic inside a poll is not modelled.

## 2. Modules

| Module | Models | Kind |
|---|---|---|
| `BoundedQueue` | what a ring promises | abstract |
| `MpscRing`, `MpscRingProofs` | `sync/mpsc.rs`, one step per atomic access | detailed, proved |
| `ParkHandshake`, `ParkHandshakeProofs` | one worker, its producers, the endpoint word, the armed read, shutdown | composition of endpoint, mailbox, crew and driver; proved |
| `SlotTable` | what a slab promises | abstract |
| `Slab`, `SlabProofs` | `slab/slab.rs` | detailed, proved |
| `StealProtocol` | the passes of a whole crew | composition of slab, rings, scopes, timers and wakers |
| `TimerQueue` | timers fire at their deadline | abstract |
| `TimerWheel` | `timer/wheel/hierarchy.rs` | detailed |
| `OneshotIo` | tasks, in-flight slab, cancel inbox, accept-cancel set, completion drain, kernel | composition |
| `MultishotStream` | streams, the accept and receive registries, their cancels, the handles they pass on, kernel | composition |

`MC...` modules only name model values, symmetries and the programs that tasks run.

**MpscRing.** A producer takes the steps `PushCall` (a relaxed load that may lag by `MaxLag`), `PushInspect`,
`PushClaim` or `PushRetry` (the weak compare-exchange may fail for no reason), `PushWrite` and `PushPublish`;
`PushErr` is the full ring. The consumer takes `PopInspect`, `PopRead`, `PopFree`, `PopAdvance`; `Drop` is
exclusive. Positions are naturals, and what the code compares is `WrappingSub`, which reduces modulo `W`, so that
the word wraps.

**ParkHandshake.** A producer publishes an entry, loads the endpoint word, and fires at the eventfd (or posts a
`msg_ring` completion) if a target was there. The worker drains, decides to idle, raises the parked flag, re-checks
shutdown, the wake inbox and the mail rings, waits, and lowers the flag. A ring is `BoundedQueue`, claimed before
published, so the re-check that finds a claimed but unpublished entry is in the model. The variable `role`, chosen at
the start among `Loops`, is the loop the worker runs: `sibling_loop`, the stealing lead's `block_on`, or the affine
lead's.

**Slab.** A value is identified by the generation it was stored under; `next_free` is the in-band list; a
reserved slot links to itself. Generations are naturals, compared modulo `Gens` (2^24 in the code).

**StealProtocol.** Every step of `run_pass` is one action in the code's order: `DrainNotes`, `ServeSteals`,
`ReceiveHandoffs`, `DrainWakes`, `FireTimer`, `BeginPolls`, `Poll`, `DrainSpawns`, `ReapSettled`, `ReportSettled`,
then `LeadPassEnds` or `SiblingPassEnds` (which tries a steal), `Park`, `Unpark`. Workers interleave between
these steps; within one the worker touches only its own slab and the ends of rings it owns, except for pushes,
which commute with other workers' steps up to the order `MpscRing` already decides. The variable `prog`,
chosen at the start among `Programs`, is the crew's size and what each body may do when polled (yield, sleep, wait
for an outside wake, open a scope, drop it), so that one run covers several programs. Slots come off the slab's free list, last freed first. Steps
that only touch the worker's own, empty queues are passed over at once. Rings have the code's behaviour
when full: a request is withdrawn, a wake dropped, a note retried in the next pass, a reap record dropped.

**TimerWheel.** Registration, cancel, and the expiry iterator step by step, with the occupancy masks; `TimerQueue`
is the refinement target.

**OneshotIo.** One worker's pass over a set of tasks that issue buffered operations and accepts: cancels are
drained, completions come in batches, each is offered to `ReclaimCancel`, `DisposeCancelledOp` and
`StoreAndWake` in turn, tasks are polled, and ended tasks are reaped. The kernel completes an operation at any time and
answers a cancel with success, `-EALREADY` or `-ENOENT` depending on where the operation is (external, modelled from
how `drain.rs` reads the answers). The variable `load`, chosen at the start
among `Loads`, says which operations tasks issue, how many, and which disturbances occur: wakes from elsewhere, a task
that goes on after dropping a future, refused cancels, an inbox too small. `lost` records the operations
whose cancel met a full inbox. Each property names the conditions it needs and no others. `Awaits` (a task awaits its
operation before it issues another, or ends) is needed by all but `KernelHoldsItsSlot`. `ResultIsMine` also needs the
task to be woken by its own I/O only. `NoSlotLost` and `DroppedSlotFreed` also need cancels not to be refused, and except
the operations in `lost`. `KernelHoldsItsSlot` states no condition, but the loads of `io` allow a wake from elsewhere only to
tasks with one operation each: after a second one it fails, which is the run `io_stale`.

**MultishotStream.** Tasks start a stream (`Start`, `StartRefused`), take what it has (`NextItem`, `NextTerminal`,
`NextEnded`, `NextPending`), leave it (`DropStream`, `ReapTask`) and give handles back (`Release`); the worker drains
cancels and completions as in `OneshotIo`. The two registries are one model: a handle is a descriptor or a provided buffer,
and closing or recycling it returns it to the `pool` the kernel draws from. `load.kind` picks the differences: a
receive's last completion is stashed beside the FIFO, cancelling a receive that has ended frees its slot, and the cancel
of a receive goes to a ring with a place for each slot, that of an accept to the `CancelInbox` of the whole worker.
`OtherCancel` puts the cancels of other futures there; operations without a slot have no bound, so the ring can be full when a
stream is dropped, and `lost` records its operation. A slot's
head and length are its FIFO as a sequence. The kernel posts completions with and without `MORE`, and a cancel's own
completion carries the sentinel of its target; as the drain's comments say, an accept's last completion carries
no descriptor. Cancels queued in a tick are drained at the start of the next pass; a pass with nothing to do is no step.
A stream without a slot falls back to single-shot operations and leaves the model.

## 3. Runs

Passing runs:

| Run | Shows | Instance |
|---|---|---|
| `ring` | no two threads in one cell, Err only when full, `len`, drop, refinement of `BoundedQueue` (FIFO in claim order) | 2 producers, 2 slots, word of 10 that wraps after 5 laps, 11 pushes |
| `park` | the inductive invariant of the proof, nothing posted is slept on, every post taken, shutdown joins | a sibling, and a stealing lead over two `block_on`; 2 producers, 3 posts |
| `slab` | keys find their own value, the free list is a chain, `len`, drop, refinement of `SlotTable` | 3 slots, 4 generations, up to generation 7 |
| `steal` | one home, woken means queued, a waker for every sleeper, scopes wait, husk, route, origin and note agree, promises kept | five programs, shutdown included: two children of one scope; a child with a scope of its own; a scope dropped over a live child (which lets a woken task be stolen off the run queue); three workers, two of them after one child; a child woken twice by one waker. Request, note and reap queues of 1 |
| `steal_live` | scopes settle, husks are released, idle siblings stop asking each other and stay parked | a child that sleeps or waits (2 workers), and an idle crew of 3; fair |
| `timer_wheel` | masks follow lists, the park timeout oversleeps no deadline by more than a slot of its level, nothing fires early, late or twice | 3 levels of 2, 2 timers, delays 1, 2, 3, 5, 9, 12 ticks |
| `io` | the kernel's slot stays occupied; for tasks that await their operations, results are one's own (if no one else wakes them), tokens unique, no slot lost but by a full inbox, and dropped slots come back | 2 tasks, 2 slots, batches of 2; two buffered operations each, undisturbed; two accepts each with an inbox of 1 and refused cancels; one operation each of both kinds with an inbox of 1 and wakes from elsewhere; the same with refused cancels and tasks that go on after a drop; fair |
| `multishot` | each descriptor or buffer in one place, someone to free every slot (but for cancels the shared ring turned away, which are accepts'), in-flight counts paired, completions one's own and in order, no sleep on a ready stream | 2 tasks, 2 handles, FIFO of 1, batches of 2; an accept slot that changes hands in a shared ring of 2, two accept slots with the ring to themselves, a receive slot that changes hands with refused cancels, and two receive slots at once |

Why the bounds are enough. The ring's proofs cover all capacities; the run adds the refinement and a word that wraps
with a slot lag in both directions. Two producers are what a race for one position needs; a third only repeats the
loser's path. In the handshake each re-check concerns one ring and one signal, and the proof covers any number of
producers and posts. Three slots are the smallest free list with a middle. Stealing is single-hop: a victim, a thief
and a third worker that can ask either give every pair of roles, and two children give one that is stolen and
one that is not. Three levels of two slots make a cascade out of a cascade and a lap jump within twelve ticks. Two slots
and two operations each allow a slot to be reused while a late completion, cancel or cancel completion of its
previous holder is outstanding. A FIFO of one overflows on the second completion of a stream that is not read, and one
slot started twice has completions of both its holders about. The generation bits a sentinel carries (`GenMod`) never come
round at these bounds; a match by them alone would take 2^16 reuses of a slot while one completion is outstanding, and is
not explored. The accept loads of `multishot` leave refused cancels out (below).

Fairness. A thread that can run does (weak fairness of each worker's step); the kernel completes a read whose
eventfd is non-zero; a timer comes due in some pass of its worker (strong fairness, since passes come and go); a thread that
holds a waker uses it in the end (assumed of the user's program in `steal_live`, where outside
wakes stay below the inbox capacity). In `OneshotIo` the kernel need not complete an
operation, a peer may stay silent for ever, except one it has reported as already running.

CHECK_DEADLOCK is off where the system really stops: after the last post, the drop, or the last tick of the bound.

### Where the code and its own words disagree

| Run | What the code does | What the repository says |
|---|---|---|
| `park_affine_lead` | the affine lead parks with its flag down, a remote wake stays in its inbox | a remote signal completes a park (`handle.rs:30`) |
| `steal_sleep` | a stolen sleeper is polled on arrival and `Sleep` returns early | resolves once the deadline expires (`sleeping.rs:28`) |
| `io_stale` | an old result resolves a new operation, whose slot is freed under the kernel | the kernel never writes freed memory (`inflight.rs:93`) |
| `io_close` | a byte count is closed as a descriptor | never an unrelated close (`drain.rs:434`) |

Each is a `violation` run with one property; the trace TLC prints is the argument.

The models show more of these than have a run of their own. The first five have a definition in their module that
fails on the instance named.

- `SingleWakeRead` (`ParkHandshake`, `Loops = {"lead"}`, `Runs = 2`): every `block_on` arms a read, so the second
  call leaves two on one buffer; `driver.rs:358` says at most one kernel read targets it.
- `NoCollisionBeforeGensRecycles` (`Slab`): a recycle moves the generation by two, so a stale key
  collides after 2^23 recycles; `revision.rs:18` says 2^24.
- `RingsCleanAtRelease` (`StealProtocol`, three workers): a sibling in its last pass replies to one that
  already drained its rings; `crew/stealing.rs:242` says nothing leaks into the next runtime.
- `WakesLossFree` (`StealProtocol`, `repeats` of at least `WakeCap`): one task's repeated wakes fill the inbox and
  another's wake is dropped; `builder.rs:16` says wakes stay loss-free.
- `ExpiryNotLate` (`TimerWheel`): `next_expiry` can give a time after the earliest deadline, because above
  level 0 it counts whole slots; `hierarchy.rs:100` says it is the tick count until the next expiry. `TimeoutWithinSlot`,
  which the run checks, bounds the delay by one slot of the level the entry is in.
- Without `Awaits`, `TokenUnique` fails for a task that drops an operation and issues another (`inflight.rs:112`
  says tokens are unique across live slots). Without the operations in `lost`, `NoSlotLost` fails when a cancel meets a full
  inbox: the slot is not retire-pending, and its completion frees only such slots. `inbox.rs:85` says the completion still
  reclaims it, `inbox.rs:30` that it is held to teardown; the second is what happens, for accept streams too.
- With `refuse` in the accept load of `multishot`, `SlotAccounted` fails: an accept stream dropped after its last
  completion is marked cancel-pending, and if the ring refuses the cancel nothing is left to free the slot; `drain.rs:268`
  says "never a leak". The receive registry has the test that prevents it.
- With two accept slots and without its restriction to receives, `RetirePaired` fails: the completion of that
  cancel retires a second submission of the owner, whose count then misses the stream it opened since;
  `drain.rs:30` says the accounting pairs with the submit. The task stays pinned by `io_bound`, so nothing moves.

## 4. Proofs

Checked by TLAPS with Z3, Zenon and LS4; no step is omitted and no axiom is added.

**The ring** (`MpscRingProofs`). Assumed: at least two slots; a word whose half range exceeds the window and the lag
and that is a multiple of the capacity (`RingAssumption`; the code's word is 64 bits and capacities are powers of two).
The constructor also admits a capacity of one, which `RingAssumption` excludes: there `pos + 1` is both "published" and
"free for the next lap", so a second push would find the full slot free. No ring of the runtime has that
capacity. The inductive invariant `RingInv` says the ring is a window of `N` positions, each
free, owned by exactly one producer, or published, that its sequence word tells which, and that a producer's stale
position lags by no more than the bound, so that the half-range test tells a lapped slot from a free one. It is needed because
`SlotExclusive` says nothing of sequence words, and those are what keeps two producers apart. From it follow
`SlotExclusive`, `PopsInClaimOrder`, `RejectsOnlyWhenFull`, `LenCoversPublished` and `DropReleasesAll`.

**The handshake** (`ParkHandshakeProofs`). Assumed: a ring has a slot, `Ready` is no producer, and the worker parks
through the bracket (`"affine_lead"` is not among `Loops`). `HandshakeInv`:
an unpublished entry belongs to a producer about to publish it; inside the bracket the endpoint says parked; a read is
armed or its completion is waiting; and past the re-check of a ring, whatever lies in it was posted by a thread that has
signalled since the flag went up, or will. `NoSleepOnWork` is its last clause at the wait.

**The slab** (`SlabProofs`). Assumed: some capacity, an even number of generations, a sentinel that is no index.
`SlabInv`: the free list is a chain of exactly the empty slots that are not reserved (a depth per slot makes the chain
first-order), and every slot is listed, reserved or occupied with the value of its generation. From it follow
`KeyNamesItsValue`, `FullMeansNoRoom`, `LenCountsOccupied`, `DropReleasesAll`, and that every step of the
slab is a step of `SlotTable` or a stutter.

Only model-checked: all liveness (out of the prover's reach under fairness), the ring's refinement, and everything
about `StealProtocol`, `TimerWheel`, `OneshotIo` and `MultishotStream`.

## 5. Not modelled

Weak memory beyond the one relaxed load that can be seen stale: the other accesses synchronise as acquire and release on
the word they test, and are interleaved. Bytes: payloads, addresses, layouts, opcodes. The kernel beyond its
answers. Descriptor numbers and their reuse (a `signal` racing a withdrawal). CPU pinning, topology, start-up
probing. The erased task cell's storage and drop glue. Zero-copy notifications: the driver refuses the opcode, so
no notification arrives today. The cancellation policies: nothing drives them.

## 6. Plan

Done, in this order: ring, handshake, slab (with proofs), stealing, wheel, one-shot I/O, multishot streams. Next:

1. The provided-receive and connect cancel sets of the one-shot drain, and with them the fallback of a stream.
2. `RunQueue` and the worker cycle: the intrusive list against a sequence, the poll budget, bounded timer arms and spawns.
3. `WorkerIds` and the crew's start and stop: overlapping claims, a start that fails half-way.
4. `Arena`: phases, reset, the order of drops.
5. `FlatFrame`: writer and checker of the IR as operators, the checker against a reference definition.
6. Proofs: `HandleOnce` and `SlotAccounted` for any number of streams, `KernelHoldsItsSlot` for tasks that await and are woken by their own I/O,
   `OneHome` and `PromiseKept` for a crew of any size, `MaskMatchesLists`, and the ring's refinement of `BoundedQueue`.
