-------------------------- MODULE ParkHandshakeProofs --------------------------
(***************************************************************************)
(* Proofs about ParkHandshake, for any number of producers, any ring       *)
(* capacity and any number of posts and runs.                              *)
(***************************************************************************)
EXTENDS ParkHandshake, TLAPS

\* The two rings.
LEMMA RingNames == "wake" \in Rings /\ "mail" \in Rings
BY DEF Rings

\* A worker runs one loop for life.
LEMMA RoleFixed ==
  ASSUME [Next]_vars
  PROVE  role' = role
BY DEF Next, vars

\* Popping a ring keeps it a sequence of entries.
LEMMA PopType ==
  ASSUME ring \in [Rings -> Seq(Entry)], NEW k \in Rings, HeadReady(k), PopRing(k)
  PROVE  ring' \in [Rings -> Seq(Entry)]
BY DEF HeadReady, PopRing

\* The variables keep their types in every reachable state.
THEOREM TypeCorrect == Spec => []TypeOK
<1>1. Init => TypeOK
  <2> SUFFICES ASSUME Init PROVE TypeOK
    OBVIOUS
  <2>1. ring \in [Rings -> Seq(Entry)]
    BY DEF Init
  <2>2. wpc \in WorkerLabels
    BY DEF Init, WorkerLabels
  <2>3. armed \in Nat
    BY DEF Init
  <2> QED BY <2>1, <2>2, <2>3, RingNames DEF Init, TypeOK
<1>2. TypeOK /\ [Next]_vars => TypeOK'
  <2> SUFFICES ASSUME TypeOK, [Next]_vars PROVE TypeOK'
    OBVIOUS
  <2> USE RingNames, RoleFixed DEF TypeOK, Goto, kernelVars, workerVars, producerVars
  <2>1. ASSUME NEW p \in Producers, NEW k \in Rings, Claim(p, k) PROVE TypeOK'
    <3>1. p \in Entry /\ ring[k] \in Seq(Entry)
      BY DEF Entry
    <3>2. Append(ring[k], p) \in Seq(Entry)
      BY <3>1
    <3>3. CASE Len(ring[k]) < Capacity
      <4>1. ring' = [ring EXCEPT ![k] = Append(ring[k], p)]
        BY <2>1, <3>1, <3>3, HandshakeAssumption DEF Claim
      <4>2. ring' \in [Rings -> Seq(Entry)]
        BY <3>2, <4>1
      <4>3. sends' \in Nat /\ ppc' = [ppc EXCEPT ![p] = "publish"]
        BY <2>1, <3>1, <3>3, HandshakeAssumption DEF Claim
      <4>4. dest' \in [Producers -> Rings]
        BY <2>1 DEF Claim
      <4>5. UNCHANGED <<endpoint, kernelVars, shutdown, workerVars, cpc>>
        BY <2>1 DEF Claim
      <4> QED BY <4>2, <4>3, <4>4, <4>5
    <3>4. CASE ~ Len(ring[k]) < Capacity
      BY <2>1, <3>4 DEF Claim
    <3> QED BY <3>3, <3>4
  <2>2. ASSUME NEW p \in Producers, Publish(p) PROVE TypeOK'
    BY <2>2 DEF Publish, Entry
  <2>3. ASSUME NEW p \in Producers, LoadTarget(p) PROVE TypeOK'
    BY <2>3 DEF LoadTarget, Entry
  <2>4. ASSUME NEW p \in Producers, Fire(p) PROVE TypeOK'
    BY <2>4 DEF Fire, Unpark, Entry
  <2>5. CASE DrainCompletions
    BY <2>5 DEF DrainCompletions, WorkerLabels
  <2>6. CASE ServeMail
    <3>1. ring' \in [Rings -> Seq(Entry)]
      BY <2>6, PopType DEF ServeMail
    <3>2. wpc' \in WorkerLabels
      BY <2>6 DEF ServeMail, WorkerLabels
    <3> QED BY <2>6, <3>1, <3>2 DEF ServeMail, WakeTask
  <2>7. CASE DrainWakes
    <3>1. ring' \in [Rings -> Seq(Entry)]
      BY <2>7, PopType DEF DrainWakes
    <3>2. wpc' \in WorkerLabels
      BY <2>7 DEF DrainWakes, WorkerLabels
    <3> QED BY <2>7, <3>1, <3>2 DEF DrainWakes, WakeTask
  <2>8. CASE RunTick
    BY <2>8 DEF RunTick, WorkerLabels
  <2>9. CASE EndPass
    BY <2>9 DEF EndPass, WorkerLabels
  <2>10. CASE RaiseParked
    BY <2>10 DEF RaiseParked, WorkerLabels
  <2>11. CASE RecheckShutdown
    BY <2>11 DEF RecheckShutdown, WorkerLabels
  <2>12. CASE RecheckWake
    <3>1. ring' \in [Rings -> Seq(Entry)]
      BY <2>12, PopType DEF RecheckWake
    <3>2. wpc' \in WorkerLabels
      BY <2>12 DEF RecheckWake, WorkerLabels
    <3> QED BY <2>12, <3>1, <3>2 DEF RecheckWake, WakeTask
  <2>13. CASE RecheckMail
    BY <2>13 DEF RecheckMail, WorkerLabels
  <2>14. CASE ParkReturns
    BY <2>14 DEF ParkReturns, WorkerLabels
  <2>15. CASE LowerParked
    BY <2>15 DEF LowerParked, WorkerLabels
  <2>16. CASE Withdraw
    BY <2>16 DEF Withdraw, WorkerLabels
  <2>17. CASE Discard
    <3>1. ring' \in [Rings -> Seq(Entry)]
      BY <2>17, PopType DEF Discard
    <3>2. wpc' \in WorkerLabels
      BY <2>17 DEF Discard, WorkerLabels
    <3> QED BY <2>17, <3>1, <3>2 DEF Discard
  <2>18. CASE ParkInterrupted
    BY <2>18 DEF ParkInterrupted, WorkerLabels
  <2>19. CASE BlockOn
    BY <2>19 DEF BlockOn, WorkerLabels
  <2>20. CASE RaiseShutdown
    BY <2>20 DEF RaiseShutdown
  <2>21. CASE JoinLoad
    BY <2>21 DEF JoinLoad
  <2>22. CASE JoinFire
    BY <2>22 DEF JoinFire
  <2>23. CASE JoinReturns
    BY <2>23 DEF JoinReturns
  <2>24. CASE ReadCompletes
    BY <2>24 DEF ReadCompletes
  <2>25. CASE UNCHANGED vars
    BY <2>25 DEF vars
  <2> QED BY <2>1, <2>2, <2>3, <2>4, <2>5, <2>6, <2>7, <2>8, <2>9, <2>10, <2>11, <2>12, <2>13, <2>14, <2>15, <2>16, <2>17, <2>18, <2>19, <2>20, <2>21, <2>22, <2>23, <2>24, <2>25
       DEF Next, Producer, Joiner, WorkerStep
<1> QED BY <1>1, <1>2, PTL DEF Spec

-----------------------------------------------------------------------------
(* The inductive invariant, conjunct by conjunct.                          *)

\* Popping a ring moves its entries up.
LEMMA PopEntries ==
  ASSUME TypeOK, NEW k \in Rings, HeadReady(k), PopRing(k)
  PROVE  \A j \in Rings : \A i \in DOMAIN ring'[j] :
           \E h \in DOMAIN ring[j] : ring'[j][i] = ring[j][h]
<1> SUFFICES ASSUME NEW j \in Rings, NEW i \in DOMAIN ring'[j]
             PROVE  \E h \in DOMAIN ring[j] : ring'[j][i] = ring[j][h]
  OBVIOUS
<1>1. ring \in [Rings -> Seq(Entry)] /\ ring[j] \in Seq(Entry) /\ ring[k] \in Seq(Entry)
  BY DEF TypeOK
<1>2. CASE j = k
  <2>1. ring'[j] = Tail(ring[j])
    BY <1>1, <1>2 DEF PopRing
  <2>2. i \in 1 .. Len(ring[j]) - 1 /\ Tail(ring[j])[i] = ring[j][i + 1]
    BY <1>1, <1>2, <2>1 DEF HeadReady
  <2>3. i + 1 \in DOMAIN ring[j]
    BY <1>1, <2>2
  <2> QED BY <2>1, <2>2, <2>3
<1>3. CASE j # k
  BY <1>1, <1>3 DEF PopRing
<1> QED BY <1>2, <1>3

\* The head of a ring that is not Ready has an owner still writing it.
LEMMA UnreadyHead ==
  ASSUME TypeOK, ClaimInv, NEW k \in Rings, ring[k] # <<>>, ~ HeadReady(k)
  PROVE  InFlight
<1>1. ring[k] \in Seq(Entry) /\ 1 \in DOMAIN ring[k] /\ ring[k][1] \in Entry
  BY DEF TypeOK
<1>2. ring[k][1] # Ready
  BY <1>1 DEF HeadReady
<1>3. ring[k][1] \in Producers /\ ppc[ring[k][1]] = "publish"
  BY <1>1, <1>2 DEF ClaimInv, Entry
<1> QED BY <1>3 DEF InFlight

\* Unpublished entries stay owned by producers about to publish them.
LEMMA ClaimStep ==
  ASSUME TypeOK, ClaimInv, [Next]_vars
  PROVE  ClaimInv'
<1> USE RingNames
<1>1. ASSUME NEW p \in Producers, NEW k \in Rings, Claim(p, k) PROVE ClaimInv'
  <2>1. CASE UNCHANGED <<ring, ppc, dest>>
    BY <2>1 DEF ClaimInv
  <2>2. CASE ~ UNCHANGED <<ring, ppc, dest>>
    <3>1. /\ ring' = [ring EXCEPT ![k] = Append(ring[k], p)]
          /\ ppc' = [ppc EXCEPT ![p] = "publish"]
          /\ dest' = [dest EXCEPT ![p] = k]
          /\ ppc[p] = "idle"
      BY <1>1, <2>2 DEF Claim
    <3> SUFFICES ASSUME NEW j \in Rings, NEW i \in DOMAIN ring'[j], ring'[j][i] # Ready
                 PROVE  ppc'[ring'[j][i]] = "publish" /\ dest'[ring'[j][i]] = j
      BY DEF ClaimInv
    <3>2. /\ ring \in [Rings -> Seq(Entry)] /\ ring[j] \in Seq(Entry)
          /\ ppc \in [Producers -> {"idle", "publish", "load", "fire"}]
          /\ dest \in [Producers -> Rings]
      BY DEF TypeOK
    <3>3. CASE i \in DOMAIN ring[j]
      <4>1. ring'[j][i] = ring[j][i]
        BY <3>1, <3>2, <3>3
      <4>2. ring[j][i] \in Entry /\ ring[j][i] # Ready
        BY <3>2, <3>3, <4>1
      <4>3. ppc[ring[j][i]] = "publish" /\ dest[ring[j][i]] = j /\ ring[j][i] \in Producers
        BY <3>3, <4>2 DEF ClaimInv, Entry
      <4> QED BY <3>1, <3>2, <4>1, <4>3
    <3>4. CASE i \notin DOMAIN ring[j]
      <4>1. j = k /\ ring'[j][i] = p
        BY <3>1, <3>2, <3>4 DEF Entry
      <4> QED BY <3>1, <3>2, <4>1
    <3> QED BY <3>3, <3>4
  <2> QED BY <2>1, <2>2
<1>2. ASSUME NEW p \in Producers, Publish(p) PROVE ClaimInv'
  <2> SUFFICES ASSUME NEW j \in Rings, NEW i \in DOMAIN ring'[j], ring'[j][i] # Ready
               PROVE  ppc'[ring'[j][i]] = "publish" /\ dest'[ring'[j][i]] = j
    BY DEF ClaimInv
  <2>1. /\ ring \in [Rings -> Seq(Entry)] /\ ring[j] \in Seq(Entry)
        /\ ppc \in [Producers -> {"idle", "publish", "load", "fire"}]
        /\ dest \in [Producers -> Rings] /\ dest[p] \in Rings
    BY DEF TypeOK
  <2>2. /\ ppc' = [ppc EXCEPT ![p] = "load"] /\ dest' = [dest EXCEPT ![p] = "wake"]
        /\ j # dest[p] => ring'[j] = ring[j]
        /\ j = dest[p] => ring'[j] = [h \in 1 .. Len(ring[j]) |->
                                        IF ring[j][h] = p THEN Ready ELSE ring[j][h]]
    BY <1>2, <2>1 DEF Publish
  <2>3. /\ i \in DOMAIN ring[j] /\ ring'[j][i] = ring[j][i]
        /\ j = dest[p] => ring[j][i] # p
    BY <2>1, <2>2
  <2>4. ring[j][i] \in Producers /\ ppc[ring[j][i]] = "publish" /\ dest[ring[j][i]] = j
    BY <2>1, <2>3 DEF ClaimInv, Entry
  <2> QED BY <2>1, <2>2, <2>3, <2>4
<1>3. ASSUME NEW p \in Producers, LoadTarget(p) \/ Fire(p) PROVE ClaimInv'
  <2>1. /\ ring' = ring /\ dest' = dest /\ ppc[p] # "publish"
        /\ \A q \in Producers : q # p => ppc'[q] = ppc[q]
    BY <1>3 DEF LoadTarget, Fire, TypeOK
  <2>2. \A q \in Producers : ppc[q] = "publish" => ppc'[q] = "publish"
    BY <2>1
  <2>3. \A j \in Rings : \A i \in DOMAIN ring[j] : ring[j][i] \in Entry
    BY DEF TypeOK
  <2> QED BY <2>1, <2>2, <2>3 DEF ClaimInv, Entry
<1>4. ASSUME NEW k \in Rings, HeadReady(k), PopRing(k), UNCHANGED <<ppc, dest>> PROVE ClaimInv'
  <2> SUFFICES ASSUME NEW j \in Rings, NEW i \in DOMAIN ring'[j], ring'[j][i] # Ready
               PROVE  ppc[ring'[j][i]] = "publish" /\ dest[ring'[j][i]] = j
    BY <1>4 DEF ClaimInv
  <2>1. PICK h \in DOMAIN ring[j] : ring'[j][i] = ring[j][h]
    BY <1>4, PopEntries
  <2> QED BY <2>1 DEF ClaimInv
<1>5. CASE UNCHANGED <<ring, ppc, dest>>
  BY <1>5 DEF ClaimInv
<1>6. CASE ServeMail \/ DrainWakes \/ RecheckWake \/ Discard
  BY <1>4, <1>5, <1>6 DEF ServeMail, DrainWakes, RecheckWake, Discard, producerVars
<1>7. CASE Joiner \/ ReadCompletes \/ ParkInterrupted \/ BlockOn
  BY <1>5, <1>7 DEF Joiner, RaiseShutdown, JoinLoad, JoinFire, JoinReturns, ReadCompletes,
       ParkInterrupted, BlockOn, producerVars
<1>8. CASE WorkerStep
  BY <1>5, <1>6, <1>8 DEF WorkerStep, DrainCompletions, RunTick, EndPass, RaiseParked,
       RecheckShutdown, RecheckMail, ParkReturns, LowerParked, Withdraw, producerVars
<1>9. CASE UNCHANGED vars
  BY <1>5, <1>9 DEF vars, producerVars
<1> QED BY <1>1, <1>2, <1>3, <1>7, <1>8, <1>9 DEF Next, Producer

\* The endpoint word reads parked from the raise to the lower.
LEMMA BracketStep ==
  ASSUME role # "affine_lead", TypeOK, BracketInv, [Next]_vars
  PROVE  BracketInv'
<1> USE DEF BracketInv, Goto
<1>1. CASE UNCHANGED <<wpc, endpoint, runnable>>
  BY <1>1
<1>2. ASSUME NEW p \in Producers, Producer(p) PROVE BracketInv'
  BY <1>1, <1>2 DEF Producer, Claim, Publish, LoadTarget, Fire, workerVars
<1>3. CASE Joiner \/ ReadCompletes
  BY <1>1, <1>3 DEF Joiner, RaiseShutdown, JoinLoad, JoinFire, JoinReturns, ReadCompletes,
       workerVars
<1>4. CASE ParkInterrupted \/ BlockOn
  BY <1>4 DEF ParkInterrupted, BlockOn
<1>5. CASE WorkerStep
  <2>1. CASE DrainCompletions \/ ServeMail \/ DrainWakes \/ RunTick
    BY <2>1 DEF DrainCompletions, ServeMail, DrainWakes, RunTick
  <2>2. CASE EndPass
    BY <2>2 DEF EndPass
  <2>3. CASE RaiseParked \/ RecheckShutdown \/ RecheckWake \/ RecheckMail
    BY <2>3 DEF RaiseParked, RecheckShutdown, RecheckWake, RecheckMail
  <2>4. CASE ParkReturns \/ LowerParked \/ Withdraw \/ Discard
    BY <2>4 DEF ParkReturns, LowerParked, Withdraw, Discard
  <2> QED BY <1>5, <2>1, <2>2, <2>3, <2>4 DEF WorkerStep
<1>6. CASE UNCHANGED vars
  BY <1>1, <1>6 DEF vars, workerVars
<1> QED BY <1>2, <1>3, <1>4, <1>5, <1>6 DEF Next

\* A completed read is re-armed before its completion is forgotten.
LEMMA ArmStep ==
  ASSUME TypeOK, ArmInv, [Next]_vars
  PROVE  ArmInv'
<1> USE DEF ArmInv, Goto
<1>a. armed \in Nat /\ cqRead \in Nat
  BY DEF TypeOK
<1>1. CASE UNCHANGED <<armed, cqRead>> /\ (wpc = "outside" => wpc' = "outside")
  BY <1>1
<1>2. ASSUME NEW p \in Producers, Producer(p) PROVE ArmInv'
  BY <1>1, <1>2 DEF Producer, Claim, Publish, LoadTarget, Fire, Unpark, workerVars, kernelVars
<1>3. CASE Joiner
  BY <1>1, <1>3 DEF Joiner, RaiseShutdown, JoinLoad, JoinFire, JoinReturns, workerVars, kernelVars
<1>4. CASE ReadCompletes
  BY <1>a, <1>4 DEF ReadCompletes, workerVars
<1>5. CASE BlockOn
  BY <1>a, <1>5 DEF BlockOn
<1>6. CASE DrainCompletions
  BY <1>a, <1>6 DEF DrainCompletions
<1>7. CASE WorkerStep \/ ParkInterrupted
  BY <1>1, <1>6, <1>7 DEF WorkerStep, ServeMail, DrainWakes, RunTick, EndPass, RaiseParked,
       RecheckShutdown, RecheckWake, RecheckMail, ParkReturns, ParkInterrupted, LowerParked,
       Withdraw, Discard, kernelVars
<1>8. CASE UNCHANGED vars
  BY <1>1, <1>8 DEF vars, workerVars, kernelVars
<1> QED BY <1>2, <1>3, <1>4, <1>5, <1>7, <1>8 DEF Next

\* What is on its way stays on its way until the worker drains it.
LEMMA OnItsWayStays ==
  ASSUME TypeOK, OnItsWay, [Next]_vars, wpc # "pass"
  PROVE  OnItsWay'
<1> USE DEF OnItsWay, Goto
<1>a. armed \in Nat /\ cqRead \in Nat
  BY DEF TypeOK
<1>1. CASE UNCHANGED <<eventfd, armed, cqRead, cqMsg>>
  BY <1>1
<1>2. ASSUME NEW p \in Producers, Producer(p) PROVE OnItsWay'
  BY <1>1, <1>2 DEF Producer, Claim, Publish, LoadTarget, Fire, Unpark, kernelVars
<1>3. CASE Joiner
  BY <1>1, <1>3 DEF Joiner, RaiseShutdown, JoinLoad, JoinFire, JoinReturns, kernelVars
<1>4. CASE ReadCompletes
  BY <1>a, <1>4 DEF ReadCompletes
<1>5. CASE BlockOn
  BY <1>a, <1>5 DEF BlockOn
<1>6. CASE WorkerStep \/ ParkInterrupted
  BY <1>1, <1>6 DEF WorkerStep, DrainCompletions, ServeMail, DrainWakes, RunTick, EndPass,
       RaiseParked, RecheckShutdown, RecheckWake, RecheckMail, ParkReturns, ParkInterrupted,
       LowerParked, Withdraw, Discard, kernelVars
<1>7. CASE UNCHANGED vars
  BY <1>1, <1>7 DEF vars, kernelVars
<1> QED BY <1>2, <1>3, <1>4, <1>5, <1>6, <1>7 DEF Next

\* Inside the bracket an unfinished signal stays unfinished or reaches the kernel.
LEMMA InFlightStays ==
  ASSUME TypeOK, ArmInv, [Next]_vars, InFlight, endpoint = "parked", wpc # "outside"
  PROVE  InFlight' \/ OnItsWay'
<1> USE DEF InFlight
<1>a. /\ armed \in Nat /\ cqRead \in Nat /\ (armed > 0 \/ cqRead > 0)
      /\ ppc \in [Producers -> {"idle", "publish", "load", "fire"}]
  BY DEF TypeOK, ArmInv
<1>b. PICK q \in Producers : ppc[q] \in {"publish", "load", "fire"}
  OBVIOUS
<1>1. CASE ppc'[q] = ppc[q]
  BY <1>b, <1>1
<1>2. ASSUME NEW p \in Producers, Producer(p) PROVE InFlight' \/ OnItsWay'
  <2>1. ASSUME NEW k \in Rings, Claim(p, k) PROVE InFlight'
    BY <1>a, <1>b, <2>1 DEF Claim
  <2>2. CASE Publish(p)
    BY <1>a, <1>b, <2>2 DEF Publish
  <2>3. CASE LoadTarget(p)
    BY <1>a, <1>b, <2>3 DEF LoadTarget
  <2>4. CASE Fire(p)
    BY <1>a, <2>4 DEF Fire, Unpark, OnItsWay
  <2> QED BY <1>2, <2>1, <2>2, <2>3, <2>4 DEF Producer
<1>3. CASE Joiner \/ ReadCompletes \/ ParkInterrupted \/ BlockOn
  BY <1>1, <1>3 DEF Joiner, RaiseShutdown, JoinLoad, JoinFire, JoinReturns, ReadCompletes,
       ParkInterrupted, BlockOn, producerVars
<1>4. CASE WorkerStep
  BY <1>1, <1>4 DEF WorkerStep, DrainCompletions, ServeMail, DrainWakes, RunTick, EndPass,
       RaiseParked, RecheckShutdown, RecheckWake, RecheckMail, ParkReturns, LowerParked,
       Withdraw, Discard, producerVars
<1>5. CASE UNCHANGED vars
  BY <1>1, <1>5 DEF vars, producerVars
<1> QED BY <1>2, <1>3, <1>4, <1>5 DEF Next

\* How the worker reaches a control point past a re-check.
LEMMA RecheckSource ==
  ASSUME role # "affine_lead", [Next]_vars, wpc' \in {"recheck_wake", "recheck_mail", "wait"}
  PROVE  \/ wpc' = wpc
         \/ wpc' = "recheck_wake" /\ RecheckShutdown /\ ~ shutdown
         \/ wpc' = "recheck_mail" /\ RecheckWake /\ ~ HeadReady("wake") /\ wpc = "recheck_wake"
         \/ wpc' = "wait" /\ RecheckMail /\ ring["mail"] = <<>> /\ wpc = "recheck_mail"
<1> USE DEF Goto
<1>1. ASSUME NEW p \in Producers, Producer(p) PROVE wpc' = wpc
  BY <1>1 DEF Producer, Claim, Publish, LoadTarget, Fire, workerVars
<1>2. CASE Joiner \/ ReadCompletes
  BY <1>2 DEF Joiner, RaiseShutdown, JoinLoad, JoinFire, JoinReturns, ReadCompletes, workerVars
<1>3. CASE ParkInterrupted \/ BlockOn \/ DrainCompletions \/ ServeMail \/ DrainWakes \/ RunTick
  BY <1>3 DEF ParkInterrupted, BlockOn, DrainCompletions, ServeMail, DrainWakes, RunTick
<1>4. CASE EndPass \/ RaiseParked \/ ParkReturns \/ LowerParked \/ Withdraw \/ Discard
  BY <1>4 DEF EndPass, RaiseParked, ParkReturns, LowerParked, Withdraw, Discard
<1>5. CASE RecheckShutdown
  BY <1>5 DEF RecheckShutdown
<1>6. CASE RecheckWake
  BY <1>6 DEF RecheckWake
<1>7. CASE RecheckMail
  BY <1>7 DEF RecheckMail
<1>8. CASE UNCHANGED vars
  BY <1>8 DEF vars, workerVars
<1> QED BY <1>1, <1>2, <1>3, <1>4, <1>5, <1>6, <1>7, <1>8 DEF Next, WorkerStep

\* A ring becomes non-empty only by a post whose signal is still to come.
LEMMA RingGrows ==
  ASSUME TypeOK, [Next]_vars, NEW k \in Rings, ring'[k] # <<>>
  PROVE  ring[k] # <<>> \/ InFlight'
<1>a. /\ ring \in [Rings -> Seq(Entry)] /\ dest \in [Producers -> Rings]
      /\ ppc \in [Producers -> {"idle", "publish", "load", "fire"}]
  BY DEF TypeOK
<1>1. CASE ring' = ring
  BY <1>1
<1>2. ASSUME NEW p \in Producers, NEW j \in Rings, Claim(p, j)
      PROVE  ring[k] # <<>> \/ InFlight'
  BY <1>a, <1>2 DEF Claim, InFlight
<1>3. ASSUME NEW p \in Producers, Publish(p) PROVE InFlight'
  BY <1>a, <1>3 DEF Publish, InFlight
<1>4. ASSUME NEW p \in Producers, LoadTarget(p) \/ Fire(p) PROVE ring' = ring
  BY <1>4 DEF LoadTarget, Fire
<1>5. ASSUME NEW j \in Rings, HeadReady(j), PopRing(j) PROVE ring[k] # <<>>
  BY <1>a, <1>5 DEF HeadReady, PopRing
<1>6. CASE Joiner \/ ReadCompletes \/ ParkInterrupted \/ BlockOn
  BY <1>1, <1>6 DEF Joiner, RaiseShutdown, JoinLoad, JoinFire, JoinReturns, ReadCompletes,
       ParkInterrupted, BlockOn
<1>7. CASE WorkerStep
  BY <1>1, <1>5, <1>7, RingNames DEF WorkerStep, DrainCompletions, ServeMail, DrainWakes, RunTick,
       EndPass, RaiseParked, RecheckShutdown, RecheckWake, RecheckMail, ParkReturns,
       LowerParked, Withdraw, Discard
<1>8. CASE UNCHANGED vars
  BY <1>1, <1>8 DEF vars
<1> QED BY <1>1, <1>2, <1>3, <1>4, <1>6, <1>7, <1>8 DEF Next, Producer

\* What each re-check establishes is kept by every step after it.
LEMMA RecheckStep ==
  ASSUME role # "affine_lead", TypeOK, HandshakeInv, [Next]_vars
  PROVE  RecheckInv'
<1>a. /\ armed \in Nat /\ cqRead \in Nat
      /\ wpc # "outside" => armed > 0 \/ cqRead > 0
  <2>1. armed \in Nat /\ cqRead \in Nat
    BY DEF TypeOK
  <2>2. wpc # "outside" => armed + cqRead >= 1
    BY DEF HandshakeInv, ArmInv
  <2> QED BY <2>1, <2>2
<1>1. ASSUME wpc' \in {"recheck_wake", "recheck_mail", "wait"}, role = "sibling", shutdown'
      PROVE  OnItsWay' \/ cpc' \in {"load", "fire"}
  <2>1. CASE RaiseShutdown
    BY <2>1 DEF RaiseShutdown
  <2>2. CASE ~ RaiseShutdown
    <3>1. shutdown
      BY <1>1, <2>2 DEF Next, Producer, Claim, Publish, LoadTarget, Fire, Joiner, JoinLoad,
           JoinFire, JoinReturns, ReadCompletes, ParkInterrupted, BlockOn, WorkerStep,
           DrainCompletions, ServeMail, DrainWakes, RunTick, EndPass, RaiseParked,
           RecheckShutdown, RecheckWake, RecheckMail, ParkReturns, LowerParked, Withdraw,
           Discard, vars
    <3>2. wpc \in {"recheck_wake", "recheck_mail", "wait"}
      BY <1>1, <3>1, RecheckSource
    <3>3. OnItsWay \/ cpc \in {"load", "fire"}
      BY <1>1, <3>1, <3>2 DEF HandshakeInv, RecheckInv
    <3>4. CASE OnItsWay
      BY <3>2, <3>4, OnItsWayStays
    <3>5. CASE cpc \in {"load", "fire"}
      <4>1. CASE JoinLoad
        BY <3>2, <4>1 DEF JoinLoad, HandshakeInv, BracketInv
      <4>2. CASE JoinFire
        BY <1>a, <3>2, <4>2 DEF JoinFire, OnItsWay
      <4>3. CASE ~ JoinLoad /\ ~ JoinFire
        <5>1. cpc' = cpc
          BY <2>2, <3>5, <4>3 DEF Next, Producer, Claim, Publish, LoadTarget, Fire, Joiner,
               JoinReturns, ReadCompletes, ParkInterrupted, BlockOn, WorkerStep,
               DrainCompletions, ServeMail, DrainWakes, RunTick, EndPass, RaiseParked,
               RecheckShutdown, RecheckWake, RecheckMail, ParkReturns, LowerParked, Withdraw,
               Discard, vars
        <5> QED BY <3>5, <5>1
      <4> QED BY <4>1, <4>2, <4>3
    <3> QED BY <3>3, <3>4, <3>5
  <2> QED BY <2>1, <2>2
<1>2. ASSUME NEW k \in Rings, ring'[k] # <<>>, wpc \in {"recheck_mail", "wait"},
             ring[k] # <<>> => OnItsWay \/ InFlight
      PROVE  OnItsWay' \/ InFlight'
  <2>1. ring[k] # <<>> \/ InFlight'
    BY <1>2, RingGrows
  <2>2. endpoint = "parked" /\ ArmInv
    BY <1>2 DEF HandshakeInv, BracketInv
  <2> QED BY <1>2, <2>1, <2>2, OnItsWayStays, InFlightStays
<1>3. ASSUME wpc' \in {"recheck_mail", "wait"}, ring'["wake"] # <<>>
      PROVE  OnItsWay' \/ InFlight'
  <2>1. CASE wpc \in {"recheck_mail", "wait"}
    BY <1>2, <1>3, <2>1, RingNames DEF HandshakeInv, RecheckInv
  <2>2. CASE wpc \notin {"recheck_mail", "wait"}
    <3>1. RecheckWake /\ ~ HeadReady("wake")
      BY <1>3, <2>2, RecheckSource
    <3>2. UNCHANGED <<ring, ppc>>
      BY <3>1 DEF RecheckWake, producerVars
    <3> QED BY <1>3, <3>1, <3>2, UnreadyHead, RingNames DEF HandshakeInv, InFlight
  <2> QED BY <2>1, <2>2
<1>4. ASSUME wpc' = "wait", ring'["mail"] # <<>>
      PROVE  OnItsWay' \/ InFlight'
  <2>1. CASE wpc = "wait"
    BY <1>2, <1>4, <2>1, RingNames DEF HandshakeInv, RecheckInv
  <2>2. CASE wpc # "wait"
    BY <1>4, <2>2, RecheckSource DEF RecheckMail
  <2> QED BY <2>1, <2>2
<1> QED BY <1>1, <1>3, <1>4, RoleFixed DEF RecheckInv

-----------------------------------------------------------------------------
(* Theorems.                                                               *)

\* Every worker that parks through the bracket keeps the handshake invariant.
THEOREM HandshakeCorrect ==
  ASSUME "affine_lead" \notin Loops
  PROVE  Spec => []HandshakeInv
<1>1. Init => HandshakeInv
  <2> SUFFICES ASSUME Init PROVE HandshakeInv
    OBVIOUS
  <2>1. ClaimInv
    <3>1. \A k \in Rings : ring[k] = <<>>
      BY DEF Init
    <3>2. DOMAIN <<>> = {}
      OBVIOUS
    <3> QED BY <3>1, <3>2 DEF ClaimInv
  <2>2. BracketInv /\ RecheckInv
    BY DEF Init, BracketInv, RecheckInv
  <2>3. ArmInv
    <3>1. CASE role = "sibling"
      <4>1. armed = 1 /\ cqRead = 0
        BY <3>1 DEF Init
      <4> QED BY <4>1 DEF ArmInv
    <3>2. CASE role # "sibling"
      <4>1. wpc = "outside"
        BY <3>2 DEF Init
      <4> QED BY <4>1 DEF ArmInv
    <3> QED BY <3>1, <3>2
  <2> QED BY <2>1, <2>2, <2>3 DEF HandshakeInv
<1>2. TypeOK /\ HandshakeInv /\ [Next]_vars => HandshakeInv'
  <2> SUFFICES ASSUME TypeOK, HandshakeInv, [Next]_vars PROVE HandshakeInv'
    OBVIOUS
  <2>1. role # "affine_lead"
    BY DEF TypeOK
  <2> QED BY <2>1, ClaimStep, BracketStep, ArmStep, RecheckStep DEF HandshakeInv
<1> QED BY <1>1, <1>2, TypeCorrect, PTL DEF Spec

\* A worker that parks through the bracket never sleeps on posted work or on a
\* raised shutdown flag, for any number of posting threads and any ring capacity.
THEOREM NoSleepOnWorkCorrect ==
  ASSUME "affine_lead" \notin Loops
  PROVE  Spec => []NoSleepOnWork
<1>1. HandshakeInv => NoSleepOnWork
  BY DEF HandshakeInv, BracketInv, RecheckInv, NoSleepOnWork, Rings
<1> QED BY <1>1, HandshakeCorrect, PTL
=============================================================================
