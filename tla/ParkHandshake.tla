---------------------------- MODULE ParkHandshake ----------------------------
(***************************************************************************)
(* How a worker goes to sleep without missing work that other threads post *)
(* to it: its rings, its endpoint word (published, parked), its eventfd    *)
(* with the read armed on its own io_uring, and the pass loop around them. *)
(*                                                                         *)
(* One worker and the threads that post to it.  A ring is the BoundedQueue *)
(* that MpscRing implements: an entry takes its place when it is claimed   *)
(* and can be popped once it, and all before it, are published.            *)
(* "wake" is the wake inbox, which the park re-check pops; "mail" stands   *)
(* for the steal-request and handoff rings, which it only tests.           *)
(***************************************************************************)
EXTENDS Integers, Sequences

CONSTANTS
  Producers,  \* threads that post to the worker
  Ready,      \* a ring entry that has been published
  Capacity,   \* slots of each ring
  Loops,      \* the loops a worker of the instance may run
  Runs,       \* block_on calls of a lead
  MaxSends    \* bound on the number of posts

Rings == {"wake", "mail"}
Roles == {"sibling", "lead", "affine_lead"}

ASSUME HandshakeAssumption ==
  /\ Capacity \in Nat \ {0}
  /\ Loops \subseteq Roles
  /\ Runs \in Nat \ {0}
  /\ MaxSends \in Nat
  /\ Ready \notin Producers

VARIABLES
  role,       \* the loop this worker runs; it never changes
  ring,       \* per ring, oldest first: Ready, or who is still writing the entry
  endpoint,   \* the endpoint word: "withdrawn", "running" or "parked"
  eventfd,    \* the eventfd counter, 1 for any number of signals
  armed,      \* reads the kernel holds on the eventfd
  cqRead,     \* completions of such reads not yet drained
  cqMsg,      \* 1 when a msg_ring completion is waiting
  shutdown,   \* the crew's SHUTDOWN flag
  wpc,        \* control point of the worker
  runnable,   \* the worker's run queue holds a task
  runs,       \* block_on calls made so far
  ppc,        \* control point of each producer
  dest,       \* the ring it posts to
  sends,      \* posts made so far
  cpc         \* control point of the thread that joins the crew

kernelVars == <<eventfd, armed, cqRead, cqMsg>>
workerVars == <<wpc, runnable, runs>>
producerVars == <<ppc, dest, sends>>
vars == <<role, ring, endpoint, kernelVars, shutdown, workerVars, producerVars, cpc>>

Entry == Producers \cup {Ready}

Init ==
  /\ role \in Loops
  /\ ring = [k \in Rings |-> <<>>]
  /\ endpoint = "running"
  /\ eventfd = 0
  /\ armed = IF role = "sibling" THEN 1 ELSE 0
  /\ cqRead = 0
  /\ cqMsg = 0
  /\ shutdown = FALSE
  /\ wpc = IF role = "sibling" THEN "pass" ELSE "outside"
  /\ runnable = FALSE
  /\ runs = 0
  /\ ppc = [p \in Producers |-> "idle"]
  /\ dest = [p \in Producers |-> "wake"]
  /\ sends = 0
  /\ cpc = "idle"

-----------------------------------------------------------------------------
(* A producer: registry::enqueue (or push_steal_request, push_handoff) and  *)
(* then registry::signal.                                                  *)

\* The claim of a slot; a full ring gives the post back and it is dropped.
Claim(p, k) ==
  /\ ppc[p] = "idle"
  /\ sends < MaxSends
  /\ sends' = sends + 1
  /\ \/ /\ Len(ring[k]) < Capacity
        /\ ring' = [ring EXCEPT ![k] = Append(ring[k], p)]
        /\ ppc' = [ppc EXCEPT ![p] = "publish"]
        /\ dest' = [dest EXCEPT ![p] = k]
     \/ /\ Len(ring[k]) = Capacity
        /\ UNCHANGED <<ring, ppc, dest>>
  /\ UNCHANGED <<endpoint, kernelVars, shutdown, workerVars, cpc>>

\* The Release store that makes the post visible to pop.  The
\* producer is done with the ring; dest goes back to its initial value.
Publish(p) ==
  /\ ppc[p] = "publish"
  /\ ring' = [ring EXCEPT ![dest[p]] =
                 [i \in 1 .. Len(ring[dest[p]]) |->
                    IF ring[dest[p]][i] = p THEN Ready ELSE ring[dest[p]][i]]]
  /\ ppc' = [ppc EXCEPT ![p] = "load"]
  /\ dest' = [dest EXCEPT ![p] = "wake"]
  /\ UNCHANGED <<endpoint, kernelVars, shutdown, workerVars, sends, cpc>>

\* signal_target: only a parked, published worker is signalled.
LoadTarget(p) ==
  /\ ppc[p] = "load"
  /\ ppc' = [ppc EXCEPT ![p] = IF endpoint = "parked" THEN "fire" ELSE "idle"]
  /\ UNCHANGED <<ring, endpoint, kernelVars, shutdown, workerVars, dest, sends, cpc>>

\* Completes a park: a msg_ring completion on the worker's ring when the caller
\* has a ring of its own and the submit is accepted, else an eventfd write.
Unpark ==
  \/ cqMsg' = 1 /\ UNCHANGED <<eventfd, armed, cqRead>>
  \/ eventfd' = 1 /\ UNCHANGED <<armed, cqRead, cqMsg>>

Fire(p) ==
  /\ ppc[p] = "fire"
  /\ Unpark
  /\ ppc' = [ppc EXCEPT ![p] = "idle"]
  /\ UNCHANGED <<ring, endpoint, shutdown, workerVars, dest, sends, cpc>>

-----------------------------------------------------------------------------
(* The thread that drops the runtime: join_siblings.                       *)

RaiseShutdown ==
  /\ role = "sibling"
  /\ cpc = "idle"
  /\ shutdown' = TRUE
  /\ cpc' = "load"
  /\ UNCHANGED <<ring, endpoint, kernelVars, workerVars, producerVars>>

JoinLoad ==
  /\ cpc = "load"
  /\ cpc' = IF endpoint = "parked" THEN "fire" ELSE "join"
  /\ UNCHANGED <<ring, endpoint, kernelVars, shutdown, workerVars, producerVars>>

\* The joining thread runs on no worker: it always writes the eventfd.
JoinFire ==
  /\ cpc = "fire"
  /\ eventfd' = 1
  /\ cpc' = "join"
  /\ UNCHANGED <<ring, endpoint, armed, cqRead, cqMsg, shutdown, workerVars,
                 producerVars>>

JoinReturns ==
  /\ cpc = "join"
  /\ wpc = "gone"
  /\ cpc' = "done"
  /\ UNCHANGED <<ring, endpoint, kernelVars, shutdown, workerVars, producerVars>>

-----------------------------------------------------------------------------
(* The kernel: an armed read completes when the counter is not zero.       *)

ReadCompletes ==
  /\ armed > 0
  /\ eventfd = 1
  /\ eventfd' = 0
  /\ armed' = armed - 1
  /\ cqRead' = cqRead + 1
  /\ UNCHANGED <<ring, endpoint, cqMsg, shutdown, workerVars, producerVars, cpc>>

-----------------------------------------------------------------------------
(* The worker: one pass, then the idle park.                               *)

Goto(label) == wpc' = label

HeadReady(k) == ring[k] # <<>> /\ Head(ring[k]) = Ready
PopRing(k) == ring' = [ring EXCEPT ![k] = Tail(ring[k])]

\* A woken task joins the run queue unless the wake is stale.
WakeTask == runnable' \in {runnable, TRUE}

\* block_on arms the wake read and enters the loop.
BlockOn ==
  /\ wpc = "outside"
  /\ runs < Runs
  /\ runs' = runs + 1
  /\ armed' = armed + 1
  /\ runnable' = TRUE
  /\ Goto("pass")
  /\ UNCHANGED <<ring, endpoint, eventfd, cqRead, cqMsg, shutdown, producerVars, cpc>>

\* drain_completions: every wake completion re-arms the read.
DrainCompletions ==
  /\ wpc = "pass"
  /\ armed' = armed + cqRead
  /\ cqRead' = 0
  /\ cqMsg' = 0
  /\ Goto("mail")
  /\ UNCHANGED <<ring, endpoint, eventfd, shutdown, runnable, runs, producerVars, cpc>>

\* serve_steals pops at most one request per pass.
ServeMail ==
  /\ wpc = "mail"
  /\ \/ HeadReady("mail") /\ PopRing("mail") /\ WakeTask
     \/ ~ HeadReady("mail") /\ UNCHANGED <<ring, runnable>>
  /\ Goto("wakes")
  /\ UNCHANGED <<endpoint, kernelVars, shutdown, runs, producerVars, cpc>>

\* drain_wakes pops until the ring looks empty.
DrainWakes ==
  /\ wpc = "wakes"
  /\ \/ HeadReady("wake") /\ PopRing("wake") /\ WakeTask /\ UNCHANGED wpc
     \/ ~ HeadReady("wake") /\ Goto("tick") /\ UNCHANGED <<ring, runnable>>
  /\ UNCHANGED <<endpoint, kernelVars, shutdown, runs, producerVars, cpc>>

RunTick_idleWithWork ==
  /\ wpc = "tick"
  /\ \/ Goto("busy") /\ runnable' \in BOOLEAN
     \/ Goto("idle") /\ UNCHANGED runnable
  /\ UNCHANGED <<ring, endpoint, kernelVars, shutdown, runs, producerVars, cpc>>

\* The tick fires the due timers and polls the tasks that were runnable; polls
\* and the spawn drain after it may leave others.  It reports Idle when no timer
\* fired and nothing was polled.
RunTick ==
  /\ wpc = "tick"
  /\ \/ Goto("busy") /\ runnable' \in BOOLEAN
     \/ ~ runnable /\ Goto("idle") /\ UNCHANGED runnable
  /\ UNCHANGED <<ring, endpoint, kernelVars, shutdown, runs, producerVars, cpc>>

\* The test after each pass: a sibling looks at SHUTDOWN, a lead at its root
\* task, which may have settled in a tick that polled something.
EndPass ==
  /\ wpc \in {"busy", "idle"}
  /\ \/ role = "sibling" /\ shutdown /\ Goto("withdraw")
     \/ role # "sibling" /\ wpc = "busy" /\ Goto("outside")
     \/ (role = "sibling" => ~ shutdown) /\ wpc = "busy" /\ Goto("pass")
     \/ /\ (role = "sibling" => ~ shutdown)
        /\ wpc = "idle"
        /\ Goto(IF role = "affine_lead" THEN "wait" ELSE "raise")
  /\ UNCHANGED <<ring, endpoint, kernelVars, shutdown, runnable, runs, producerVars, cpc>>

-----------------------------------------------------------------------------
(* park_bracketed.                                                         *)

RaiseParked_forgotten ==
  /\ wpc = "raise"
  /\ Goto("recheck_shutdown")
  /\ UNCHANGED <<ring, endpoint, kernelVars, shutdown, runnable, runs, producerVars, cpc>>

RaiseParked ==
  /\ wpc = "raise"
  /\ endpoint' = "parked"
  /\ Goto("recheck_shutdown")
  /\ UNCHANGED <<ring, kernelVars, shutdown, runnable, runs, producerVars, cpc>>

RecheckShutdown_dropped ==
  /\ wpc = "recheck_shutdown"
  /\ Goto("recheck_wake")
  /\ UNCHANGED <<ring, endpoint, kernelVars, shutdown, runnable, runs, producerVars, cpc>>

RecheckShutdown ==
  /\ wpc = "recheck_shutdown"
  /\ Goto(IF shutdown THEN "lower" ELSE "recheck_wake")
  /\ UNCHANGED <<ring, endpoint, kernelVars, shutdown, runnable, runs, producerVars, cpc>>

RecheckWake_dropped ==
  /\ wpc = "recheck_wake"
  /\ Goto("recheck_mail")
  /\ UNCHANGED <<ring, endpoint, kernelVars, shutdown, runnable, runs, producerVars, cpc>>

RecheckWake ==
  /\ wpc = "recheck_wake"
  /\ \/ HeadReady("wake") /\ PopRing("wake") /\ WakeTask /\ Goto("lower")
     \/ ~ HeadReady("wake") /\ Goto("recheck_mail") /\ UNCHANGED <<ring, runnable>>
  /\ UNCHANGED <<endpoint, kernelVars, shutdown, runs, producerVars, cpc>>

\* has_steal_request and has_handoff count claimed entries, published or not.
RecheckMail ==
  /\ wpc = "recheck_mail"
  /\ Goto(IF ring["mail"] # <<>> THEN "lower" ELSE "wait")
  /\ UNCHANGED <<ring, endpoint, kernelVars, shutdown, runnable, runs, producerVars, cpc>>

\* park: returns once a completion is there, ...
ParkReturns ==
  /\ wpc = "wait"
  /\ cqRead > 0 \/ cqMsg = 1
  /\ Goto(IF role = "affine_lead" THEN "pass" ELSE "lower")
  /\ UNCHANGED <<ring, endpoint, kernelVars, shutdown, runnable, runs, producerVars, cpc>>

\* ... or for other reasons: I/O, a timer deadline, a signal.
ParkInterrupted ==
  /\ wpc = "wait"
  /\ Goto(IF role = "affine_lead" THEN "pass" ELSE "lower")
  /\ UNCHANGED <<ring, endpoint, kernelVars, shutdown, runnable, runs, producerVars, cpc>>

LowerParked ==
  /\ wpc = "lower"
  /\ endpoint' = "running"
  /\ Goto("pass")
  /\ UNCHANGED <<ring, kernelVars, shutdown, runnable, runs, producerVars, cpc>>

-----------------------------------------------------------------------------
(* The end of sibling_main.                                                *)

Withdraw ==
  /\ wpc = "withdraw"
  /\ endpoint' = "withdrawn"
  /\ Goto("discard_mail")
  /\ UNCHANGED <<ring, kernelVars, shutdown, runnable, runs, producerVars, cpc>>

\* The rings are popped empty, the wake inbox last.
Discard ==
  /\ \/ /\ wpc = "discard_mail"
        /\ \/ HeadReady("mail") /\ PopRing("mail") /\ UNCHANGED wpc
           \/ ~ HeadReady("mail") /\ Goto("discard_wake") /\ UNCHANGED ring
     \/ /\ wpc = "discard_wake"
        /\ \/ HeadReady("wake") /\ PopRing("wake") /\ UNCHANGED wpc
           \/ ~ HeadReady("wake") /\ Goto("gone") /\ UNCHANGED ring
  /\ UNCHANGED <<endpoint, kernelVars, shutdown, runnable, runs, producerVars, cpc>>

-----------------------------------------------------------------------------
Producer(p) == (\E k \in Rings : Claim(p, k)) \/ Publish(p) \/ LoadTarget(p) \/ Fire(p)

WorkerStep ==
  \/ DrainCompletions \/ ServeMail \/ DrainWakes \/ RunTick \/ EndPass
  \/ RaiseParked \/ RecheckShutdown \/ RecheckWake \/ RecheckMail
  \/ ParkReturns \/ LowerParked \/ Withdraw \/ Discard

Joiner == RaiseShutdown \/ JoinLoad \/ JoinFire \/ JoinReturns

Next ==
  /\ UNCHANGED role
  /\ \/ \E p \in Producers : Producer(p)
     \/ Joiner
     \/ ReadCompletes
     \/ WorkerStep
     \/ ParkInterrupted
     \/ BlockOn

Spec == Init /\ [][Next]_vars

\* A thread that is running keeps running, and the kernel completes a read whose
\* data is there.  Nothing forces a post, a shutdown, a block_on, or anything
\* that would end a park by chance.
Fairness ==
  /\ WF_vars(UNCHANGED role /\ WorkerStep)
  /\ WF_vars(UNCHANGED role /\ ReadCompletes)
  /\ WF_vars(UNCHANGED role /\ (JoinLoad \/ JoinFire \/ JoinReturns))
  /\ \A p \in Producers : WF_vars(UNCHANGED role /\ (Publish(p) \/ LoadTarget(p) \/ Fire(p)))

FairSpec == Spec /\ Fairness

-----------------------------------------------------------------------------
(* Properties.                                                             *)

WorkerLabels ==
  {"outside", "pass", "mail", "wakes", "tick", "busy", "idle", "raise", "recheck_shutdown",
   "recheck_wake", "recheck_mail", "wait", "lower", "withdraw", "discard_mail",
   "discard_wake", "gone"}

\* The variables keep their types.
TypeOK ==
  /\ role \in Loops
  /\ ring \in [Rings -> Seq(Entry)]
  /\ endpoint \in {"withdrawn", "running", "parked"}
  /\ eventfd \in {0, 1} /\ cqMsg \in {0, 1}
  /\ armed \in Nat /\ cqRead \in Nat
  /\ shutdown \in BOOLEAN
  /\ wpc \in WorkerLabels
  /\ runnable \in BOOLEAN
  /\ runs \in Nat
  /\ ppc \in [Producers -> {"idle", "publish", "load", "fire"}]
  /\ dest \in [Producers -> Rings]
  /\ sends \in Nat
  /\ cpc \in {"idle", "load", "fire", "join", "done"}

\* Something will end the worker's park.
OnItsWay == cqRead > 0 \/ cqMsg = 1 \/ (eventfd = 1 /\ armed > 0)

\* A producer has posted and not yet finished signalling.
InFlight == \E p \in Producers : ppc[p] \in {"publish", "load", "fire"}

\* A worker blocked in the kernel never sleeps on work: its run queue is empty,
\* and while a ring holds an entry, or the shutdown flag is up, a completion is on
\* its way or the thread that posted is still about to send one (park_bracketed
\* and signal_target, the two halves of the parked handshake).
NoSleepOnWork ==
  wpc = "wait" =>
    /\ ~ runnable
    /\ \A k \in Rings : ring[k] # <<>> => OnItsWay \/ InFlight
    /\ role = "sibling" /\ shutdown => OnItsWay \/ cpc \in {"load", "fire"}

\* The same for the wake inbox alone.  The wake fd is "armed on its ring so a
\* remote signal can complete a park" (build/handle.rs:30-31).
RemoteWakeCompletesPark ==
  wpc = "wait" /\ ring["wake"] # <<>> => OnItsWay \/ InFlight

\* At most one kernel read targets the driver's wake buffer (the safety argument
\* of arm_wake_read).
SingleWakeRead == armed <= 1

\* Every post leaves its ring: it is served by a pass, or discarded when the
\* worker exits, or waits for the lead's next block_on.
EveryPostIsTaken ==
  \A k \in Rings : ring[k] # <<>> ~> (ring[k] = <<>> \/ wpc \in {"outside", "gone"})

\* join_siblings returns: a raised shutdown ends the sibling's loop however it
\* interleaves with the park bracket.
ShutdownJoins == shutdown ~> cpc = "done"

-----------------------------------------------------------------------------
(* The inductive invariant behind NoSleepOnWork, for every role that parks  *)
(* through the bracket.                                                     *)

\* An entry that is not published yet belongs to a producer that will publish it.
ClaimInv ==
  \A k \in Rings : \A i \in DOMAIN ring[k] :
    ring[k][i] # Ready => ppc[ring[k][i]] = "publish" /\ dest[ring[k][i]] = k

\* Inside the bracket a producer that loads the endpoint word finds a target, and
\* the run queue is empty.
BracketInv ==
  /\ wpc \in {"recheck_shutdown", "recheck_wake", "recheck_mail", "wait", "lower"} =>
       endpoint = "parked"
  /\ wpc \in {"idle", "raise", "recheck_shutdown", "recheck_wake", "recheck_mail", "wait"} =>
       ~ runnable

\* A read is armed, or its completion is waiting to be drained.
ArmInv == wpc # "outside" => armed + cqRead >= 1

\* What each re-check establishes for the steps after it.
RecheckInv ==
  /\ wpc \in {"recheck_wake", "recheck_mail", "wait"} /\ role = "sibling" /\ shutdown =>
       OnItsWay \/ cpc \in {"load", "fire"}
  /\ wpc \in {"recheck_mail", "wait"} /\ ring["wake"] # <<>> => OnItsWay \/ InFlight
  /\ wpc = "wait" /\ ring["mail"] # <<>> => OnItsWay \/ InFlight

\* Whatever lies in a ring when the worker is past the re-check of that ring was
\* posted by a thread that has signalled since the flag went up, or will.
HandshakeInv == ClaimInv /\ BracketInv /\ ArmInv /\ RecheckInv
=============================================================================
