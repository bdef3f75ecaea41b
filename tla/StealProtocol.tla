---------------------------- MODULE StealProtocol ----------------------------
(***************************************************************************)
(* A crew of workers that steal suspended tasks from one another: the pass *)
(* of each worker, the rings between them, the slab slots with their       *)
(* husks, forward routes, origins and settled notes, scopes that wait for  *)
(* their children wherever they run, timers, and the crew's shutdown.      *)
(*                                                                         *)
(* Worker 0 is the lead, which runs the root task and never steals.  A     *)
(* slab is a SlotTable (Slab shows it is one), a ring a bounded queue      *)
(* (MpscRing shows it is one), and a parked worker runs again once one of  *)
(* the rings its park re-check looks at holds something (ParkHandshake).   *)
(*                                                                         *)
(* A body is the future a task runs.  What a poll of it does is chosen     *)
(* from the program's does, for at most polls polls; then it finishes:     *)
(*   yield    wakes itself;                                                *)
(*   sleep    arms a timer;                                                *)
(*   wait     hands its waker to an outside thread;                        *)
(*   keep     relies on the waker an outside thread has from before;       *)
(*   scope    opens a scope of some children and waits for them;           *)
(*   abandon  drops the scope it waits in, and does something else.        *)
(***************************************************************************)
EXTENDS Integers, Sequences, FiniteSets, SequencesExt

CONSTANTS
  Programs,   \* the crews and programs of the instance, as records:
              \*   workers  workers in the crew
              \*   slots    slots of each slab
              \*   does     per body: what its polls may do
              \*   polls    per body: polls that do not finish it
              \*   repeats  bound: wakes after which the waker is kept
  Root,       \* the future given to block_on
  None,
  WakeCap,    \* capacity of a wake inbox
  RequestCap, \* capacity of a steal-request ring
  NoteCap,    \* capacity of a settled-note ring
  ReapCap     \* capacity of a reap queue

Lead == 0
WorkerIds == 0 .. Max({p.workers : p \in Programs}) - 1

ASSUME CrewAssumption ==
  \A p \in Programs :
    /\ p.workers \in Nat \ {0}
    /\ p.slots \in Nat \ {0}
    /\ Root \in DOMAIN p.does /\ None \notin DOMAIN p.does
    /\ p.does \in [DOMAIN p.does -> SUBSET {"yield", "sleep", "wait", "keep", "scope", "abandon"}]
    /\ p.polls \in [DOMAIN p.does -> Nat] /\ p.repeats \in Nat

VARIABLES
  prog,      \* the crew and program of this behaviour; it never changes
  slab,      \* per worker and slot: generation, state, header fields, body
  free,      \* free lists, the next slot first
  queue,     \* run queues
  wakes,     \* wake inboxes
  requests,  \* steal-request rings
  handoffs,  \* handoff rings
  notes,     \* settled-note rings
  forward,   \* forward tables: the route recorded for a slot
  origins,   \* where the resident of a slot was stolen from
  pending,   \* the promised slot of the steal in flight
  cursor,    \* the last victim's offset
  spawns,    \* spawn inboxes
  reap,      \* reap queues
  timers,    \* armed timers
  pc,        \* control point of each worker
  todo,      \* tasks left to poll in this tick
  worked,    \* the tick fired a timer or polled a task
  rung,      \* a settled note arrived while the worker was parked
  shutdown,  \* the crew's SHUTDOWN flag
  held,      \* wakers that outside threads hold, with the body they are for
  outside,   \* wakes after which an outside thread kept its waker
  life,      \* per body: "unborn", "live", "finished" or "dropped"
  polls,     \* per body: polls so far
  scope,     \* per body: "none", "open", "settled" or "abandoned"
  parent,    \* per body: the body whose scope spawned it
  slumber    \* per body: "awake", "asleep" in a sleep, or "due"

rings == <<wakes, requests, handoffs, notes>>
tables == <<free, forward, origins, pending, cursor>>
bodyVars == <<life, polls, scope, parent, slumber>>
outsideVars == <<held, outside>>
vars == <<prog, slab, queue, rings, tables, spawns, reap, timers, pc, todo, worked, rung,
          shutdown, outsideVars, bodyVars>>

Workers == 0 .. prog.workers - 1
Siblings == Workers \ {Lead}
Slots == 0 .. prog.slots - 1
All == DOMAIN prog.does    \* the futures: the root and what its scopes may spawn
Bodies == All \ {Root}
RootSlot == 0

Blank(g) == [gen |-> g, state |-> "empty", body |-> None, polled |-> FALSE,
             noted |-> FALSE, kids |-> <<>>]
Fresh(g, b) == [gen |-> g, state |-> "woken", body |-> b, polled |-> FALSE,
                noted |-> FALSE, kids |-> <<>>]

\* A TaskRef: worker, slot, generation.
Cell(r) == slab[r[1]][r[2]]
Resolves(r) == Cell(r).gen = r[3]
RefAt(w, i) == <<w, i, slab[w][i].gen>>

\* block_on has spawned the root in the lead's first slot.
Init ==
  /\ prog \in Programs
  /\ slab = [w \in Workers |-> [i \in Slots |->
               IF w = Lead /\ i = RootSlot THEN Fresh(1, Root) ELSE Blank(0)]]
  /\ free = [w \in Workers |->
               [k \in 1 .. prog.slots - (IF w = Lead THEN 1 ELSE 0) |->
                  IF w = Lead THEN k ELSE k - 1]]
  /\ queue = [w \in Workers |-> IF w = Lead THEN <<<<Lead, RootSlot, 1>>>> ELSE <<>>]
  /\ wakes = [w \in Workers |-> <<>>]
  /\ requests = [w \in Workers |-> <<>>]
  /\ handoffs = [w \in Workers |-> <<>>]
  /\ notes = [w \in Workers |-> <<>>]
  /\ forward = [w \in Workers |-> [i \in Slots |-> None]]
  /\ origins = [w \in Workers |-> [i \in Slots |-> None]]
  /\ pending = [w \in Workers |-> None]
  /\ cursor = [w \in Workers |-> 0]
  /\ spawns = [w \in Workers |-> <<>>]
  /\ reap = [w \in Workers |-> <<>>]
  /\ timers = [w \in Workers |-> {}]
  /\ pc = [w \in Workers |-> "notes"]
  /\ todo = [w \in Workers |-> 0]
  /\ worked = [w \in Workers |-> FALSE]
  /\ rung = [w \in Workers |-> FALSE]
  /\ shutdown = FALSE
  /\ held = {} /\ outside = 0
  /\ life = [b \in All |-> IF b = Root THEN "live" ELSE "unborn"]
  /\ polls = [b \in All |-> 0]
  /\ scope = [b \in All |-> "none"]
  /\ parent = [b \in All |-> None]
  /\ slumber = [b \in All |-> "awake"]

Goto(w, label) == pc' = [pc EXCEPT ![w] = label]

----------------------------------------------------------------------------
\* Waking.  Each operator gives the new value of one variable.

\* registry::enqueue: a full inbox refuses the wake.
Post(inboxes, r) == IF Len(inboxes[r[1]]) < WakeCap
                    THEN [inboxes EXCEPT ![r[1]] = Append(@, r)]
                    ELSE inboxes

IsRelocated(r) == ~Resolves(r) \/ Cell(r).state = "retired"

\* ForwardTable::lookup: the generation must match.
Route_lost(r) == None
Route(r) == LET entry == forward[r[1]][r[2]] IN
            IF entry # None /\ entry.gen = r[3] THEN entry.to ELSE None

\* wake_or_forward by worker w of r, one of its own refs, after the inboxes
\* have become those given: a live sleeper is made runnable, a relocated one's
\* wake goes to its new home, any other wake is dropped.
WakeOrForward(r, inboxes) ==
  LET runs == ~IsRelocated(r) /\ Cell(r).state = "sleeping"
      to == IF IsRelocated(r) THEN Route(r) ELSE None IN
  /\ slab' = IF runs THEN [slab EXCEPT ![r[1]][r[2]].state = "woken"] ELSE slab
  /\ queue' = IF runs THEN [queue EXCEPT ![r[1]] = Append(@, r)] ELSE queue
  /\ wakes' = IF to # None THEN Post(inboxes, to) ELSE inboxes

----------------------------------------------------------------------------
\* The phases of run_pass, in their order.

\* A note whose key no longer names a husk is dropped.
NoteMarks_settled(r) == Resolves(r) /\ Cell(r).state = "done"
NoteMarks(r) == Resolves(r) /\ Cell(r).state = "retired"

\* drain_settled_notes: a note marks the husk it names.
DrainNotes(w) ==
  /\ pc[w] = "notes"
  /\ IF notes[w] = <<>>
     THEN Goto(w, "serve") /\ UNCHANGED <<slab, notes>>
     ELSE LET r == Head(notes[w]) IN
          /\ notes' = [notes EXCEPT ![w] = Tail(@)]
          /\ slab' = IF NoteMarks(r)
                     THEN [slab EXCEPT ![w][r[2]].noted = TRUE] ELSE slab
          /\ UNCHANGED pc
  /\ UNCHANGED <<queue, wakes, requests, handoffs, tables, spawns, reap, timers, todo,
                 worked, rung, shutdown, outsideVars, bodyVars>>

\* is_sleeping_candidate and is_woken_candidate, but for the state.
Stealable_withKids(w, i) ==
  slab[w][i].polled /\ slab[w][i].body # Root /\ origins[w][i] = None
Stealable(w, i) ==
  /\ slab[w][i].polled
  /\ slab[w][i].body # Root
  /\ slab[w][i].kids = <<>>
  /\ origins[w][i] = None

\* Pass 1: the first sleeping candidate in slot order.
SleepingCandidates(w) == {i \in Slots : slab[w][i].state = "sleeping" /\ Stealable(w, i)}
\* Pass 2: the first woken candidate in run-queue order.
WokenCandidates(w) == {k \in DOMAIN queue[w] :
                         /\ slab[w][queue[w][k][2]].state = "woken"
                         /\ Stealable(w, queue[w][k][2])}
First(S) == CHOOSE x \in S : \A y \in S : x <= y

\* The refused candidates go to the back of the run queue, the taken one is off it.
Rotate_keepsTaken(q, k) == q
Rotate(q, k) == SubSeq(q, k + 1, Len(q)) \o SubSeq(q, 1, k - 1)

\* move_out: the slot becomes a husk, its body travels under dest, and the
\* route to dest is recorded, all in one step.
ShipTo_copies(w, i, q) ==
  /\ forward' = [forward EXCEPT ![w][i] = [gen |-> slab[w][i].gen, to |-> q.dest]]
  /\ handoffs' = [handoffs EXCEPT ![q.thief] = Append(@,
       [dest |-> q.dest, from |-> RefAt(w, i), body |-> slab[w][i].body])]
  /\ UNCHANGED slab
ShipTo(w, i, q) ==
  /\ slab' = [slab EXCEPT ![w][i].state = "retired"]
  /\ forward' = [forward EXCEPT ![w][i] = [gen |-> slab[w][i].gen, to |-> q.dest]]
  /\ handoffs' = [handoffs EXCEPT ![q.thief] = Append(@,
       [dest |-> q.dest, from |-> RefAt(w, i), body |-> slab[w][i].body])]

\* serve_steals: at most one request per pass.
ServeSteals(w) ==
  /\ pc[w] = "serve"
  /\ Goto(w, "receive")
  /\ IF requests[w] = <<>>
     THEN UNCHANGED <<slab, queue, requests, handoffs, forward>>
     ELSE LET q == Head(requests[w]) IN
          /\ requests' = [requests EXCEPT ![w] = Tail(@)]
          /\ \/ /\ SleepingCandidates(w) # {}
                /\ ShipTo(w, First(SleepingCandidates(w)), q)
                /\ UNCHANGED queue
             \/ /\ SleepingCandidates(w) = {} /\ WokenCandidates(w) # {}
                /\ LET k == First(WokenCandidates(w)) IN
                   /\ ShipTo(w, queue[w][k][2], q)
                   /\ queue' = [queue EXCEPT ![w] = Rotate(@, k)]
             \/ /\ SleepingCandidates(w) = {} /\ WokenCandidates(w) = {}
                /\ handoffs' = [handoffs EXCEPT ![q.thief] = Append(@,
                     [dest |-> q.dest, from |-> None, body |-> None])]
                /\ UNCHANGED <<slab, queue, forward>>
  /\ UNCHANGED <<wakes, notes, free, origins, pending, cursor, spawns, reap, timers, todo,
                 worked, rung, shutdown, outsideVars, bodyVars>>

\* Slab::install accepts the promised slot only.
IsPromised(r) == Cell(r).state = "reserved" /\ Cell(r).gen + 1 = r[3]

\* receive_handoff and the wake that follows: the body is in its promised slot,
\* runnable, and its origin is recorded.
Install(w, m) ==
  /\ slab' = [slab EXCEPT ![w][m.dest[2]] =
       [Fresh(m.dest[3], m.body) EXCEPT !.polled = TRUE]]
  /\ origins' = [origins EXCEPT ![w][m.dest[2]] = m.from]
  /\ queue' = [queue EXCEPT ![w] = Append(@, m.dest)]
  /\ UNCHANGED <<free, life>>

\* A decline, or a promise that no longer resolves: the reservation is freed and
\* a body that came with it is dropped.
Withdraw(w, m) ==
  /\ IF IsPromised(m.dest)
     THEN /\ slab' = [slab EXCEPT ![w][m.dest[2]].state = "empty"]
          /\ free' = [free EXCEPT ![w] = <<m.dest[2]>> \o @]
     ELSE UNCHANGED <<slab, free>>
  /\ life' = IF m.body = None THEN life ELSE [life EXCEPT ![m.body] = "dropped"]
  /\ UNCHANGED <<queue, origins>>

\* receive_handoffs.
ReceiveHandoffs(w) ==
  /\ pc[w] = "receive"
  /\ IF handoffs[w] = <<>>
     THEN /\ Goto(w, "wakes")
          /\ UNCHANGED <<slab, free, queue, handoffs, origins, pending, life>>
     ELSE LET m == Head(handoffs[w]) IN
          /\ handoffs' = [handoffs EXCEPT ![w] = Tail(@)]
          /\ pending' = [pending EXCEPT ![w] = None]
          /\ IF m.body # None /\ IsPromised(m.dest) THEN Install(w, m) ELSE Withdraw(w, m)
          /\ UNCHANGED pc
  /\ UNCHANGED <<wakes, requests, notes, forward, cursor, spawns, reap, timers, todo,
                 worked, rung, shutdown, outsideVars, polls, scope, parent, slumber>>

\* The rest of the pass has nothing to do, which only this worker could change.
NothingQueued(w) == timers[w] = {} /\ queue[w] = <<>> /\ spawns[w] = <<>> /\ reap[w] = <<>>

\* drain_wakes; the steps after it are passed over when they would do nothing.
DrainWakes(w) ==
  /\ pc[w] = "wakes"
  /\ IF wakes[w] = <<>>
     THEN /\ Goto(w, IF NothingQueued(w) THEN "report" ELSE "timers")
          /\ UNCHANGED <<slab, queue, wakes>>
     ELSE /\ WakeOrForward(Head(wakes[w]), [wakes EXCEPT ![w] = Tail(@)])
          /\ UNCHANGED pc
  /\ UNCHANGED <<requests, handoffs, notes, tables, spawns, reap, timers, todo,
                 worked, rung, shutdown, outsideVars, bodyVars>>

\* The timers of tick: some of those armed are due.
FireTimer(w) ==
  /\ pc[w] = "timers"
  /\ \E r \in timers[w] :
       /\ timers' = [timers EXCEPT ![w] = @ \ {r}]
       /\ WakeOrForward(r, wakes)
       /\ slumber' = IF Resolves(r) /\ slumber[Cell(r).body] = "asleep"
                     THEN [slumber EXCEPT ![Cell(r).body] = "due"] ELSE slumber
  /\ worked' = [worked EXCEPT ![w] = TRUE]
  /\ UNCHANGED <<requests, handoffs, notes, tables, spawns, reap, pc, todo, rung,
                 shutdown, outsideVars, life, polls, scope, parent>>

\* tick polls the tasks that are queued now.
BeginPolls(w) ==
  /\ pc[w] = "timers"
  /\ Goto(w, "poll")
  /\ todo' = [todo EXCEPT ![w] = Len(queue[w])]
  /\ worked' = [worked EXCEPT ![w] = @ \/ queue[w] # <<>>]
  /\ UNCHANGED <<slab, queue, rings, tables, spawns, reap, timers, rung, shutdown,
                 outsideVars, bodyVars>>

\* is_settled: a husk counts only once its note landed.
IsSettled(r) == Cell(r).state = "done" \/ (Cell(r).state = "retired" /\ Cell(r).noted)
AllSettled(r) == \A k \in Range(Cell(r).kids) : IsSettled(k)

\* What a poll of body b may do when it does not wait in a scope.
Unborn == {b \in Bodies : life[b] = "unborn"}
Outcomes(b) ==
  {"finish"} \cup {how \in prog.does[b] \ {"abandon"} :
    /\ polls[b] < prog.polls[b]
    /\ how = "scope" => Unborn # {}
    /\ how = "keep" => \E h \in held : h.body = b}

\* poll_one of the head of the run queue.  A scope still waiting for a child
\* wakes its task again; one that finds all settled asks for the reap and the
\* task goes on.  Opening a scope queues its children and wakes the task.
Poll(w) ==
  /\ pc[w] = "poll" /\ todo[w] > 0
  /\ LET r == Head(queue[w])
         b == Cell(r).body
         waits == scope[b] = "open" /\ ~AllSettled(r)
         settles == scope[b] = "open" /\ AllSettled(r) IN
     \E how \in Outcomes(b) \cup {"drain"}, kids \in SUBSET Unborn :
       /\ how = "drain" => waits
       /\ (waits /\ how # "drain") => "abandon" \in prog.does[b]
       /\ (how = "scope") <=> (kids # {})
       /\ queue' = [queue EXCEPT ![w] = Tail(@)]
       /\ slab' = [slab EXCEPT ![w][r[2]].polled = TRUE,
                     ![w][r[2]].state = IF how = "finish" THEN "done" ELSE "sleeping"]
       /\ wakes' = IF how \in {"drain", "yield", "scope"} THEN Post(wakes, r) ELSE wakes
       /\ timers' = IF how = "sleep" THEN [timers EXCEPT ![w] = @ \cup {r}] ELSE timers
       /\ held' = IF how = "wait" THEN held \cup {[ref |-> r, body |-> b]} ELSE held
       /\ spawns' = [spawns EXCEPT ![w] = @ \o
            [k \in 1 .. Cardinality(kids) |-> [parent |-> r, body |-> SetToSeq(kids)[k]]]]
       /\ reap' = IF settles /\ Len(reap[w]) < ReapCap
                  THEN [reap EXCEPT ![w] = Append(@, r)] ELSE reap
       /\ life' = [c \in All |-> IF c \in kids THEN "live"
                                 ELSE IF c = b /\ how = "finish" THEN "finished" ELSE life[c]]
       /\ polls' = IF how \in prog.does[b] THEN [polls EXCEPT ![b] = @ + 1] ELSE polls
       /\ scope' = [scope EXCEPT ![b] = CASE how = "scope" -> "open"
                                          [] how # "scope" /\ settles -> "settled"
                                          [] waits /\ how \notin {"scope", "drain"} -> "abandoned"
                                          [] OTHER -> @]
       /\ parent' = [c \in All |-> IF c \in kids THEN b ELSE parent[c]]
       /\ slumber' = [slumber EXCEPT ![b] = IF how = "sleep" THEN "asleep" ELSE "awake"]
  /\ todo' = [todo EXCEPT ![w] = @ - 1]
  /\ UNCHANGED <<requests, handoffs, notes, tables, pc, worked, rung, shutdown, outside>>

\* drain_spawns: the child gets a slot, is linked first in its parent's list and
\* is made runnable.  (A full slab panics: Slots is large enough that it is not.)
DrainSpawns(w) ==
  /\ pc[w] = "poll" /\ todo[w] = 0 /\ spawns[w] # <<>> /\ free[w] # <<>>
  /\ LET s == Head(spawns[w])
         i == Head(free[w])
         child == <<w, i, slab[w][i].gen + 1>> IN
     /\ slab' = [slab EXCEPT ![w][i] = Fresh(child[3], s.body),
                             ![w][s.parent[2]].kids = <<child>> \o @]
     /\ queue' = [queue EXCEPT ![w] = Append(@, child)]
  /\ free' = [free EXCEPT ![w] = Tail(@)]
  /\ spawns' = [spawns EXCEPT ![w] = Tail(@)]
  /\ UNCHANGED <<rings, forward, origins, pending, cursor, reap, timers, pc, todo, worked, rung, shutdown,
                 outsideVars, bodyVars>>

\* The children to free, in the order of the reap queue and of each list.
FreedBy(w, test(_)) ==
  FoldLeft(LAMBDA gone, p :
             IF Resolves(p) /\ p \notin Range(gone)
             THEN gone \o SelectSeq(Cell(p).kids, LAMBDA k : test(k) /\ k \notin Range(gone))
             ELSE gone,
           <<>>, reap[w])
Freed_noHusks(w) == FreedBy(w, LAMBDA k : Cell(k).state = "done")
Freed(w) == FreedBy(w, IsSettled)

\* reap_settled: the settled children of every parent in the reap queue leave
\* their parent's list and give their slots back.
ReapSettled(w) ==
  /\ pc[w] = "poll" /\ todo[w] = 0 /\ spawns[w] = <<>>
  /\ slab' = [slab EXCEPT ![w] = [i \in Slots |->
       IF RefAt(w, i) \in Range(Freed(w)) THEN Blank(slab[w][i].gen + 1)
       ELSE [slab[w][i] EXCEPT !.kids = SelectSeq(@, LAMBDA k : k \notin Range(Freed(w)))]]]
  /\ free' = [free EXCEPT ![w] = Reverse([k \in DOMAIN Freed(w) |-> Freed(w)[k][2]]) \o @]
  /\ reap' = [reap EXCEPT ![w] = <<>>]
  /\ Goto(w, "report")
  /\ UNCHANGED <<queue, rings, forward, origins, pending, cursor, spawns, timers, todo, worked, rung, shutdown,
                 outsideVars, bodyVars>>

\* Residents that are settled and whose note has room in the victim's ring.
Reportable_ringFull(w) == {i \in Slots : /\ origins[w][i] # None
                                         /\ slab[w][i].state \in {"done", "retired"}}
Reportable_early(w) == {i \in Slots : /\ origins[w][i] # None
                                      /\ slab[w][i].state \in {"sleeping", "done", "retired"}
                                      /\ Len(notes[origins[w][i][1]]) < NoteCap}
Reportable(w) == {i \in Slots : /\ origins[w][i] # None
                                /\ slab[w][i].state \in {"done", "retired"}
                                /\ Len(notes[origins[w][i][1]]) < NoteCap}

\* report_settled_relocations: the note goes to the victim, then the slot is freed.
ReportSettled(w) ==
  /\ pc[w] = "report"
  /\ Reportable(w) # {}
  /\ LET i == First(Reportable(w))
         husk == origins[w][i] IN
     /\ notes' = [notes EXCEPT ![husk[1]] = Append(@, husk)]
     /\ rung' = [rung EXCEPT ![husk[1]] = @ \/ pc[husk[1]] = "parked"]
     /\ origins' = [origins EXCEPT ![w][i] = None]
     /\ slab' = [slab EXCEPT ![w][i] = Blank(slab[w][i].gen + 1)]
     /\ free' = [free EXCEPT ![w] = <<i>> \o @]
  /\ UNCHANGED <<queue, wakes, requests, handoffs, forward, pending, cursor, spawns,
                 reap, timers, pc, todo, worked, shutdown, outsideVars, bodyVars>>

----------------------------------------------------------------------------
\* Between passes.

\* The lead leaves block_on with the root's output, parks, or goes round again.
LeadPassEnds ==
  /\ pc[Lead] = "report" /\ Reportable(Lead) = {}
  /\ IF life[Root] = "finished"
     THEN /\ Goto(Lead, "outside")
          /\ slab' = [slab EXCEPT ![Lead][RootSlot] = Blank(@.gen + 1)]
          /\ free' = [free EXCEPT ![Lead] = <<RootSlot>> \o @]
     ELSE /\ Goto(Lead, IF worked[Lead] THEN "notes" ELSE "park")
          /\ UNCHANGED <<slab, free>>
  /\ worked' = [worked EXCEPT ![Lead] = FALSE]
  /\ UNCHANGED <<queue, rings, forward, origins, pending, cursor, spawns, reap, timers, todo, rung,
                 shutdown, outsideVars, bodyVars>>

\* next_victim: round robin, skipping this worker.
NextVictim_notLead(w) == CHOOSE v \in Workers : v # w /\ (prog.workers > 2 => v # Lead)
NextVictim(w) == LET next == (cursor[w] + 1) % prog.workers IN
                 IF next = w THEN (next + 1) % prog.workers ELSE next

\* One steal in flight per thief.
MaySteal_always(w) == TRUE
MaySteal(w) == pending[w] = None

HasRequestRoom(v) == Len(requests[v]) < RequestCap

\* try_steal, on an idle pass: reserve a slot, then post the request; a request
\* that finds no slot, or no room in the victim's ring, is given up.
TrySteal(w) ==
  LET v == NextVictim(w) IN
  \/ ~MaySteal(w) /\ UNCHANGED <<slab, free, requests, pending, cursor>>
  \/ /\ MaySteal(w) /\ cursor' = [cursor EXCEPT ![w] = v]
     /\ free[w] = <<>> \/ ~HasRequestRoom(v)
     /\ UNCHANGED <<slab, free, requests, pending>>
  \/ /\ MaySteal(w) /\ cursor' = [cursor EXCEPT ![w] = v]
     /\ free[w] # <<>> /\ HasRequestRoom(v)
     /\ LET i == Head(free[w])
            dest == <<w, i, slab[w][i].gen + 1>> IN
        /\ slab' = [slab EXCEPT ![w][i].state = "reserved"]
        /\ free' = [free EXCEPT ![w] = Tail(@)]
        /\ pending' = [pending EXCEPT ![w] = dest]
        /\ requests' = [requests EXCEPT ![v] = Append(@, [thief |-> w, dest |-> dest])]

\* sibling_loop after a pass: leave on shutdown, steal before parking when idle.
SiblingPassEnds(w) ==
  /\ pc[w] = "report" /\ Reportable(w) = {}
  /\ IF ~shutdown /\ ~worked[w]
     THEN TrySteal(w) /\ Goto(w, "park")
     ELSE Goto(w, IF shutdown THEN "leave" ELSE "notes")
          /\ UNCHANGED <<slab, free, requests, pending, cursor>>
  /\ worked' = [worked EXCEPT ![w] = FALSE]
  /\ UNCHANGED <<queue, wakes, handoffs, notes, forward, origins, spawns, reap, timers,
                 todo, rung, shutdown, outsideVars, bodyVars>>

\* park_bracketed: the re-checks, then the wait.
Park(w) ==
  /\ pc[w] = "park"
  /\ \/ /\ ~shutdown /\ wakes[w] # <<>>
        /\ WakeOrForward(Head(wakes[w]), [wakes EXCEPT ![w] = Tail(@)])
        /\ Goto(w, "notes")
     \/ /\ shutdown \/ wakes[w] = <<>>
        /\ Goto(w, IF shutdown \/ requests[w] # <<>> \/ handoffs[w] # <<>>
                   THEN "notes" ELSE "parked")
        /\ UNCHANGED <<slab, queue, wakes>>
  /\ UNCHANGED <<requests, handoffs, notes, tables, spawns, reap, timers, todo, worked,
                 rung, shutdown, outsideVars, bodyVars>>

\* The wait ends: something arrived and signalled, or a timer came due.
Unpark(w) ==
  /\ pc[w] = "parked"
  /\ \/ wakes[w] # <<>> \/ requests[w] # <<>> \/ handoffs[w] # <<>>
     \/ timers[w] # {} \/ rung[w] \/ (w # Lead /\ shutdown)
  /\ Goto(w, "notes")
  /\ rung' = [rung EXCEPT ![w] = FALSE]
  /\ UNCHANGED <<slab, queue, rings, tables, spawns, reap, timers, todo, worked,
                 shutdown, outsideVars, bodyVars>>

\* An outside thread wakes a task it holds a waker of; it may keep the waker.
OutsideWake ==
  /\ \E h \in held :
       /\ pc[h.ref[1]] # "gone"
       /\ wakes' = Post(wakes, h.ref)
       /\ \/ held' = held \ {h} /\ UNCHANGED outside
          \/ outside < prog.repeats /\ outside' = outside + 1 /\ UNCHANGED held
  /\ UNCHANGED <<slab, queue, requests, handoffs, notes, tables, spawns, reap, timers,
                 pc, todo, worked, rung, shutdown, bodyVars>>

----------------------------------------------------------------------------
\* Shutdown.

\* Dropping worker w's slab drops the futures that are still in it.
Doomed(w) == {slab[w][i].body : i \in {j \in Slots : slab[w][j].state \in {"sleeping", "woken"}}}
Carried(w) == {m.body : m \in Range(handoffs[w])} \ {None}

\* A worker's state dies with its thread; only the static rings outlive it.
DropShard(w) ==
  /\ slab' = [slab EXCEPT ![w] = [i \in Slots |-> Blank(0)]]
  /\ free' = [free EXCEPT ![w] = <<>>]
  /\ queue' = [queue EXCEPT ![w] = <<>>]
  /\ handoffs' = [handoffs EXCEPT ![w] = <<>>]
  /\ requests' = [requests EXCEPT ![w] = <<>>]
  /\ wakes' = [wakes EXCEPT ![w] = <<>>]
  /\ forward' = [forward EXCEPT ![w] = [i \in Slots |-> None]]
  /\ origins' = [origins EXCEPT ![w] = [i \in Slots |-> None]]
  /\ pending' = [pending EXCEPT ![w] = None]
  /\ timers' = [timers EXCEPT ![w] = {}]
  /\ life' = [b \in All |-> IF b \in Doomed(w) \cup Carried(w) THEN "dropped" ELSE life[b]]
  /\ Goto(w, "gone")
  /\ UNCHANGED <<notes, cursor, spawns, reap, todo, worked, rung, shutdown, outsideVars,
                 polls, scope, parent, slumber>>

\* The runtime is dropped: join_siblings raises the flag and signals every sibling.
RaiseShutdown ==
  /\ pc[Lead] = "outside" /\ ~shutdown
  /\ shutdown' = TRUE
  /\ UNCHANGED <<slab, queue, rings, tables, spawns, reap, timers, pc, todo, worked,
                 rung, outsideVars, bodyVars>>

\* The tail of sibling_main: free the promise, drain the rings, drop the shard.
SiblingLeaves(w) == pc[w] = "leave" /\ DropShard(w)

\* The rest of Runtime's drop, once every sibling is joined.
LeadLeaves ==
  /\ pc[Lead] = "outside" /\ shutdown
  /\ \A w \in Siblings : pc[w] = "gone"
  /\ DropShard(Lead)

AllGone == (\A w \in Workers : pc[w] = "gone") /\ UNCHANGED vars

Step(w) ==
  \/ DrainNotes(w) \/ ServeSteals(w) \/ ReceiveHandoffs(w) \/ DrainWakes(w)
  \/ FireTimer(w) \/ BeginPolls(w) \/ Poll(w) \/ DrainSpawns(w) \/ ReapSettled(w)
  \/ ReportSettled(w) \/ Park(w) \/ Unpark(w)

Next ==
  /\ UNCHANGED prog
  /\ \/ \E w \in Workers : Step(w)
     \/ \E w \in Siblings : SiblingPassEnds(w) \/ SiblingLeaves(w)
     \/ LeadPassEnds \/ RaiseShutdown \/ LeadLeaves \/ OutsideWake \/ AllGone

Spec == Init /\ [][Next]_vars

Thread(w) ==
  /\ UNCHANGED prog /\ w \in Workers
  /\ Step(w) \/ IF w = Lead THEN LeadPassEnds ELSE SiblingPassEnds(w) \/ SiblingLeaves(w)

\* Every worker thread keeps running; a timer comes due in some pass of its
\* worker; and outside threads wake the tasks whose wakers they hold.
Fairness ==
  /\ \A w \in WorkerIds : /\ WF_vars(Thread(w))
                          /\ SF_vars(UNCHANGED prog /\ w \in Workers /\ FireTimer(w))
  /\ WF_vars(UNCHANGED prog /\ OutsideWake)

FairSpec == Spec /\ Fairness

----------------------------------------------------------------------------
\* Properties.

Refs == WorkerIds \X Nat \X Nat
Running(w) == pc[w] # "gone"

\* The state has its types.
TypeOK ==
  /\ \A w \in Workers, i \in Slots :
       /\ slab[w][i].state \in {"empty", "reserved", "sleeping", "woken", "done", "retired"}
       /\ slab[w][i].body \in All \cup {None}
       /\ slab[w][i].gen \in Nat
       /\ slab[w][i].kids \in Seq(Refs)
       /\ origins[w][i] \in Refs \cup {None}
  /\ \A w \in Workers :
       /\ queue[w] \in Seq(Refs) /\ wakes[w] \in Seq(Refs) /\ notes[w] \in Seq(Refs)
       /\ Len(wakes[w]) <= WakeCap /\ Len(notes[w]) <= NoteCap
       /\ Len(requests[w]) <= RequestCap
       /\ pending[w] \in Refs \cup {None}
       /\ timers[w] \subseteq Refs
       /\ Running(w) => /\ IsInjective(free[w])
                        /\ Range(free[w]) = {i \in Slots : slab[w][i].state = "empty"}
  /\ held \subseteq [ref : Refs, body : All]
  /\ life \in [All -> {"unborn", "live", "finished", "dropped"}]

\* Where a future is: the slots that hold it, and the messages that carry it.
InSlots(b) == {x \in Workers \X Slots : /\ slab[x[1]][x[2]].body = b
                                        /\ slab[x[1]][x[2]].state \in {"sleeping", "woken", "done"}}
InRings(b) == UNION {{<<w, k>> : k \in {n \in DOMAIN handoffs[w] : handoffs[w][n].body = b}}
                       : w \in Workers}
InSpawns(b) == UNION {{<<w, k>> : k \in {n \in DOMAIN spawns[w] : spawns[w][n].body = b}}
                        : w \in Workers}
Homes(b) == Cardinality(InSlots(b)) + Cardinality(InRings(b)) + Cardinality(InSpawns(b))

\* A future is in exactly one place from its spawn to its end, through every
\* steal: never duplicated (which would run and drop it twice), never lost.
OneHome ==
  \A b \in All :
    CASE life[b] = "live" -> Homes(b) = 1
      [] life[b] = "finished" -> Homes(b) <= 1
      [] OTHER -> Homes(b) = 0

\* A woken task is queued exactly once on its worker and nothing else is queued:
\* no wake is forgotten and no task is polled twice for one wake.
WokenIsQueued ==
  \A w \in Workers : Running(w) =>
    /\ IsInjective(queue[w])
    /\ Range(queue[w]) = {RefAt(w, i) : i \in {j \in Slots : slab[w][j].state = "woken"}}

\* r is a ref whose wake reaches body b: its slot holds b, or its husk's route
\* leads to the slot b moved to, or to the slot promised to b while b travels.
Resident(r, b) == Resolves(r) /\ Cell(r).body = b /\ Cell(r).state \in {"sleeping", "woken"}
Reaches(r, b) ==
  \/ Resident(r, b)
  \/ LET to == Route(r) IN
     /\ IsRelocated(r) /\ to # None
     /\ \/ Resident(to, b)
        \/ \E m \in Range(handoffs[to[1]]) : m.dest = to /\ m.body = b

\* Every suspended task has a wake on its way: a queued wake, an armed timer or
\* a waker held outside, whose ref still reaches the task after a steal.
EverySleeperHasAWaker ==
  (\A w \in Workers : Running(w)) =>
    \A w \in Workers, i \in Slots :
      slab[w][i].state = "sleeping" =>
        \E r \in {h.ref : h \in held} \cup UNION {Range(wakes[v]) \cup timers[v] : v \in Workers} :
          Reaches(r, slab[w][i].body)

\* "The scope never resolves while a child is still live", on any worker.
ScopeWaits ==
  \A b \in All, c \in All : (scope[b] = "settled" /\ parent[c] = b) => life[c] # "live"

\* A husk without its note still has its route, and the route's end is where its
\* body travels or lives, which in turn names the husk as its origin; a note, in
\* the ring or landed, is only ever about a body that ended.
HuskTracksBody ==
  \A w \in Workers, i \in Slots :
    LET h == RefAt(w, i)
        to == Route(h) IN
    (slab[w][i].state = "retired" /\ \A v \in Workers : Running(v)) =>
      \/ life[slab[w][i].body] = "finished" /\ (slab[w][i].noted \/ h \in Range(notes[w]))
      \/ /\ ~slab[w][i].noted /\ h \notin Range(notes[w]) /\ to # None
         /\ \/ \E m \in Range(handoffs[to[1]]) : m.dest = to /\ m.from = h
            \/ Resolves(to) /\ origins[to[1]][to[2]] = h /\ Cell(to).body = slab[w][i].body

\* A steal in flight is one request or one reply, under a slot that stays
\* reserved until the reply: "the single-in-flight discipline bounds the thief's
\* ring to one pending reply", and no delivery finds its slot taken.
PromiseKept ==
  \A w \in Workers : Running(w) =>
    LET asked == UNION {{q \in Range(requests[v]) : q.thief = w} : v \in Workers}
        dests == {q.dest : q \in asked} \cup {m.dest : m \in Range(handoffs[w])} IN
    /\ Cardinality(asked) + Len(handoffs[w]) <= 1
    /\ dests \subseteq {pending[w]}
    /\ pending[w] # None => IsPromised(pending[w])
    /\ (pending[w] # None /\ ~shutdown) => dests # {}

\* A scope of the root settles, wherever its children were taken.
ScopeSettles == scope[Root] = "open" ~> scope[Root] # "open"

HasHusk == \E w \in Workers, i \in Slots : slab[w][i].state = "retired"

\* The slot of a relocated task is released: its note arrives and its parent's
\* scope reaps it.
HusksReleased == HasHusk ~> ~ HasHusk

\* "Siblings outlive `block_on` and park idle between calls": once the lead is out
\* of block_on, the steal sweeps of idle siblings die down and all stay parked.
QuietBetweenCalls ==
  pc[Lead] = "outside" ~> [](shutdown \/ \A w \in Siblings : pc[w] = "parked")

\* "resolves once the deadline expires": no poll finds a sleep over whose timer
\* has not fired.
SleepsFully ==
  [][\A b \in All : slumber[b] = "asleep" => slumber'[b] \in {"asleep", "due"}]_vars

\* "nothing leaks into the next runtime claiming this id": the rings are empty
\* when the ids are released.
RingsCleanAtRelease ==
  (\A w \in Workers : pc[w] = "gone") =>
    \A w \in Workers :
      wakes[w] = <<>> /\ requests[w] = <<>> /\ handoffs[w] = <<>> /\ notes[w] = <<>>

\* "bounded by the wake-inbox capacity so wakes stay loss-free": with room for
\* more wakes than the worker has tasks, no task is left without the wake it is
\* owed.
WakesLossFree == EverySleeperHasAWaker
=============================================================================
