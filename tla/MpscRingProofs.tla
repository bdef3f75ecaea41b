--------------------------- MODULE MpscRingProofs ---------------------------
(***************************************************************************)
(* Proofs about MpscRing, for every number of producers, every capacity    *)
(* N >= 2 and every word size W that covers the staleness bound.           *)
(***************************************************************************)
EXTENDS MpscRing, TLAPS

-----------------------------------------------------------------------------
(* Arithmetic: slots of a window of N positions, and the wrapping gap.     *)

\* Quotient and remainder of a position.
LEMMA DivMod ==
  ASSUME NEW x \in Nat
  PROVE  /\ x \div N \in Nat
         /\ x % N \in 0 .. N - 1
         /\ x = N * (x \div N) + (x % N)
BY RingAssumption

\* Multiples of N are at least N apart.
LEMMA MulStep ==
  ASSUME NEW a \in Nat, NEW b \in Nat, a < b
  PROVE  N * a + N <= N * b
<1>1. PICK k \in Nat : b = a + 1 + k
  <2>1. b - a - 1 \in Nat
    OBVIOUS
  <2> QED BY <2>1
<1>2. N * b = N * a + N + N * k
  BY <1>1, RingAssumption
<1>3. N * k >= 0
  BY RingAssumption
<1> QED BY <1>2, <1>3, RingAssumption

\* Quotient and remainder are unique.
LEMMA DivUnique ==
  ASSUME NEW q \in Nat, NEW d \in Nat, NEW r \in 0 .. N - 1, NEW s \in 0 .. N - 1,
         N * q + r = N * d + s
  PROVE  r = s /\ q = d
<1>1. CASE q < d
  BY <1>1, MulStep, RingAssumption
<1>2. CASE d < q
  BY <1>2, MulStep, RingAssumption
<1>3. CASE d = q
  BY <1>3, RingAssumption
<1> QED BY <1>1, <1>2, <1>3

\* A position falls in a slot of the ring.
LEMMA SlotType == \A x \in Nat : Slot(x) \in Slots
BY RingAssumption DEF Slot, Slots

\* A position and the one N later share a slot.
LEMMA SlotNext == \A x \in Nat : Slot(x + N) = Slot(x)
<1> SUFFICES ASSUME NEW x \in Nat PROVE (x + N) % N = x % N
  BY DEF Slot
<1> DEFINE d == x \div N
           e == (x + N) \div N
<1>1. x + N \in Nat
  BY RingAssumption
<1>2. d \in Nat /\ x % N \in 0 .. N - 1 /\ x = N * d + (x % N)
  BY DivMod
<1>3. e \in Nat /\ (x + N) % N \in 0 .. N - 1 /\ x + N = N * e + ((x + N) % N)
  BY DivMod, <1>1
<1>4. N * (d + 1) + (x % N) = x + N
  BY <1>2, RingAssumption
<1>5. d + 1 \in Nat
  BY <1>2
<1> HIDE DEF d, e
<1> QED BY <1>2, <1>3, <1>4, <1>5, DivUnique

\* Two positions less than N apart that share a slot are equal.
LEMMA SlotInjective ==
  \A x, y \in Nat : x <= y /\ y < x + N /\ Slot(x) = Slot(y) => x = y
<1> SUFFICES ASSUME NEW x \in Nat, NEW y \in Nat, x <= y, y < x + N, x % N = y % N
             PROVE  x = y
  BY DEF Slot
<1> DEFINE d == x \div N
           e == y \div N
<1>1. d \in Nat /\ x % N \in 0 .. N - 1 /\ x = N * d + (x % N)
  BY DivMod
<1>2. e \in Nat /\ y % N \in 0 .. N - 1 /\ y = N * e + (y % N)
  BY DivMod
<1>3. N * d \in Nat /\ N * e \in Nat
  BY <1>1, <1>2, RingAssumption
<1> HIDE DEF d, e
<1>4. N * e - N * d < N /\ N * d <= N * e
  BY <1>1, <1>2, <1>3, RingAssumption
<1>5. CASE d < e
  BY <1>5, MulStep, <1>4, <1>1, <1>2, <1>3, RingAssumption
<1>6. CASE e < d
  BY <1>6, MulStep, <1>4, <1>1, <1>2, <1>3, RingAssumption
<1>7. CASE e = d
  BY <1>7, <1>1, <1>2, RingAssumption
<1> QED BY <1>5, <1>6, <1>7, <1>1, <1>2

\* Every slot belongs to a position of any window of N positions.
LEMMA SlotCover ==
  \A f \in Nat, i \in Slots : \E x \in f .. f + N - 1 : Slot(x) = i
<1> SUFFICES ASSUME NEW f \in Nat, NEW i \in 0 .. N - 1
             PROVE  \E x \in f .. f + N - 1 : x % N = i
  BY DEF Slot, Slots
<1> DEFINE d == f \div N
           r == f % N
           x == IF r <= i THEN f + i - r ELSE f + i - r + N
           c == IF r <= i THEN d ELSE d + 1
<1>1. d \in Nat /\ r \in 0 .. N - 1 /\ f = N * d + r
  BY DivMod
<1>2. N * (d + 1) = N * d + N
  BY <1>1, RingAssumption
<1>3. N * d \in Nat /\ c \in Nat
  BY <1>1, RingAssumption
<1> HIDE DEF d, r
<1>4. x \in f .. f + N - 1 /\ x \in Nat /\ x = N * c + i
  BY <1>1, <1>2, <1>3, RingAssumption
<1> HIDE DEF x, c
<1>5. x \div N \in Nat /\ x % N \in 0 .. N - 1 /\ x = N * (x \div N) + (x % N)
  BY <1>4, DivMod
<1>6. x % N = i
  BY <1>3, <1>4, <1>5, DivUnique
<1> QED BY <1>4, <1>6

\* Below half the word range the wrapping gap tells equal, behind and ahead apart.
LEMMA GapSound ==
  \A a, b \in Nat :
    a - b < MaxLag + N + 1 /\ b - a <= MaxLag + N + 1 =>
      /\ WrappingSub(a, b) = 0 <=> a = b
      /\ Lags(WrappingSub(a, b)) <=> a < b
<1> SUFFICES ASSUME NEW a \in Nat, NEW b \in Nat,
                    a - b < MaxLag + N + 1, b - a <= MaxLag + N + 1
             PROVE  /\ (a - b) % W = 0 <=> a = b
                    /\ 2 * ((a - b) % W) >= W <=> a < b
  BY DEF WrappingSub, Lags
<1>1. CASE a >= b
  <2>1. a - b \in Nat /\ a - b < W
    BY <1>1, RingAssumption
  <2>2. (a - b) % W = a - b
    BY <2>1, RingAssumption
  <2> QED BY <1>1, <2>1, <2>2, RingAssumption
<1>2. CASE a < b
  <2> DEFINE k == b - a
  <2>1. k \in Nat /\ 0 < k /\ k < W /\ a - b = -k
    BY <1>2, RingAssumption
  <2> HIDE DEF k
  <2>2. (-k) % W = W - k
    BY <2>1, RingAssumption
  <2>3. 2 * k <= W
    BY <1>2, RingAssumption DEF k
  <2> QED BY <1>2, <2>1, <2>2, <2>3, RingAssumption
<1> QED BY <1>1, <1>2

-----------------------------------------------------------------------------
(* The inductive invariant.                                                *)

\* Distinct positions of one window of N occupy distinct slots.
LEMMA SlotWindow ==
  \A f \in Nat, x, y \in Int :
    f <= x /\ x < f + N /\ f <= y /\ y < f + N /\ Slot(x) = Slot(y) => x = y
<1> SUFFICES ASSUME NEW f \in Nat, NEW x \in Int, NEW y \in Int,
                    f <= x, x < f + N, f <= y, y < f + N, Slot(x) = Slot(y)
             PROVE  x = y
  OBVIOUS
<1>1. x \in Nat /\ y \in Nat /\ N \in Nat
  BY RingAssumption
<1> QED BY <1>1, SlotInjective

\* The variables keep their types in every reachable state.
THEOREM TypeCorrect == Spec => []TypeOK
<1>1. Init => TypeOK
  BY RingAssumption DEF Init, TypeOK, Slots
<1>2. TypeOK /\ [Next]_vars => TypeOK'
  <2> SUFFICES ASSUME TypeOK, [Next]_vars PROVE TypeOK'
    OBVIOUS
  <2> USE SlotType, RingAssumption DEF TypeOK, Goto
  <2>1. ASSUME NEW p \in Producers, Push(p) PROVE TypeOK'
    <3>1. ASSUME NEW v \in Values, PushCall(p, v) PROVE TypeOK'
      BY <3>1 DEF PushCall, RelaxedLoad
    <3>2. CASE PushInspect(p)
      BY <3>2 DEF PushInspect
    <3>3. CASE PushClaim(p)
      BY <3>3 DEF PushClaim
    <3>4. CASE PushRetry(p)
      BY <3>4 DEF PushRetry
    <3>5. CASE PushReload(p)
      BY <3>5 DEF PushReload, RelaxedLoad
    <3>6. CASE PushWrite(p)
      BY <3>6 DEF PushWrite
    <3>7. CASE PushPublish(p)
      BY <3>7 DEF PushPublish
    <3>8. CASE PushErr(p)
      BY <3>8 DEF PushErr
    <3> QED BY <2>1, <3>1, <3>2, <3>3, <3>4, <3>5, <3>6, <3>7, <3>8 DEF Push
  <2>2. CASE PopInspect
    BY <2>2 DEF PopInspect
  <2>3. CASE PopRead
    BY <2>3 DEF PopRead
  <2>4. CASE PopFree
    BY <2>4 DEF PopFree
  <2>5. CASE PopAdvance
    BY <2>5 DEF PopAdvance
  <2>6. CASE Drop
    BY <2>6 DEF Drop
  <2>7. CASE UNCHANGED vars
    BY <2>7 DEF vars
  <2> QED BY <2>1, <2>2, <2>3, <2>4, <2>5, <2>6, <2>7 DEF Next, Pop
<1> QED BY <1>1, <1>2, PTL DEF Spec

\* The new ring satisfies the window invariant; each step keeps it.
LEMMA InitRing == Init => RingInv
<1> USE RingAssumption, SlotType
<1> SUFFICES ASSUME Init PROVE RingInv
  OBVIOUS
<1>1. \A x \in 0 .. N - 1 : Slot(x) = x
  BY DEF Slot
<1> QED BY <1>1 DEF Init, RingInv, WindowInv, OutstandingInv, FreeInv, OwnerInv, LoopInv,
            ConsumerInv, DroppedInv, Freed, Outstanding, Owns, Quiescent, Slots

\* A slot's sequence word names its position in the current window, or the next one.
LEMMA SequenceInWindow ==
  ASSUME TypeOK, RingInv, NEW x \in Freed .. Freed + N - 1
  PROVE  /\ sequence[Slot(x)] \in {x, x + 1}
         /\ x >= enqueue_pos => sequence[Slot(x)] = x
<1> USE RingAssumption DEF TypeOK, RingInv, Freed
<1>1. CASE x < enqueue_pos
  BY <1>1 DEF OutstandingInv, Outstanding
<1>2. CASE x >= enqueue_pos
  BY <1>2 DEF FreeInv
<1> QED BY <1>1, <1>2

\* What a producer in the loop learns from the sequence word of its slot.
LEMMA InspectGap ==
  ASSUME TypeOK, RingInv, NEW p \in Producers, pc[p] = "loop"
  PROVE  LET s == sequence[Slot(pos[p])]
             gap == WrappingSub(s, pos[p])
         IN  /\ gap = 0 => pos[p] < Freed + N
             /\ Lags(gap) => enqueue_pos - Freed = N
<1> DEFINE s == sequence[Slot(pos[p])]
<1>1. /\ pos[p] \in Nat /\ Slot(pos[p]) \in Slots /\ s \in Nat
      /\ enqueue_pos \in Nat /\ Freed \in Nat /\ N \in Nat /\ N >= 2 /\ MaxLag \in Nat
  BY SlotType, RingAssumption DEF TypeOK, Freed
<1>2. PICK x \in Freed .. Freed + N - 1 : Slot(x) = Slot(pos[p])
  BY <1>1, SlotCover
<1>3. s \in {x, x + 1} /\ (x >= enqueue_pos => s = x)
  BY <1>2, SequenceInWindow
<1>4. /\ pos[p] <= enqueue_pos /\ enqueue_pos - pos[p] <= MaxLag
      /\ Freed <= enqueue_pos /\ enqueue_pos <= Freed + N
  BY DEF RingInv, LoopInv, WindowInv
<1>5. x \in Nat /\ (x <= pos[p] /\ pos[p] < x + N => x = pos[p])
  BY <1>1, <1>2, SlotInjective
<1> HIDE DEF s
<1>6. s - pos[p] < MaxLag + N + 1 /\ pos[p] - s <= MaxLag + N + 1
  BY <1>1, <1>2, <1>3, <1>4, <1>5
<1>7. /\ WrappingSub(s, pos[p]) = 0 <=> s = pos[p]
      /\ Lags(WrappingSub(s, pos[p])) <=> s < pos[p]
  BY <1>1, <1>6, GapSound
<1>8. s = pos[p] => pos[p] < Freed + N
  BY <1>1, <1>2, <1>3, <1>4, <1>5
<1>9. s < pos[p] => enqueue_pos - Freed = N
  BY <1>1, <1>2, <1>3, <1>4, <1>5
<1> QED BY <1>7, <1>8, <1>9 DEF s

\* A slot some producer owns is not the one the consumer is working on.
LEMMA OwnerApart ==
  ASSUME TypeOK, RingInv, NEW p \in Producers, Owns(p), cpc \in {"read", "free"}
  PROVE  Slot(pos[p]) # Slot(dequeue_pos)
<1>1. /\ pos[p] \in dequeue_pos .. enqueue_pos - 1
      /\ sequence[Slot(pos[p])] = pos[p]
      /\ sequence[Slot(dequeue_pos)] = dequeue_pos + 1
      /\ dequeue_pos < enqueue_pos /\ enqueue_pos <= dequeue_pos + N
      /\ dequeue_pos \in Nat /\ enqueue_pos \in Nat /\ pos[p] \in Nat /\ N \in Nat
  BY RingAssumption DEF RingInv, OwnerInv, ConsumerInv, WindowInv, Outstanding, Freed, TypeOK
<1> QED BY <1>1, SlotWindow

\* push loads enqueue_pos: the copy is at most MaxLag behind.
LEMMA CallStep ==
  ASSUME NEW p \in Producers, NEW v \in Values, TypeOK, RingInv, PushCall(p, v)
  PROVE  RingInv'
<1> USE RingAssumption, SlotType DEF TypeOK, Goto, PushCall, Freed, Outstanding, Owns, Quiescent, RelaxedLoad
<1>1. WindowInv'
  BY DEF RingInv, WindowInv
<1>2. OutstandingInv'
  BY DEF RingInv, OutstandingInv
<1>3. FreeInv'
  BY DEF RingInv, FreeInv
<1>4. OwnerInv'
  BY DEF RingInv, OwnerInv
<1>5. LoopInv'
  BY DEF RingInv, LoopInv
<1>6. ConsumerInv'
  BY DEF RingInv, ConsumerInv
<1>7. DroppedInv'
  BY DEF RingInv, DroppedInv
<1> QED BY <1>1, <1>2, <1>3, <1>4, <1>5, <1>6, <1>7 DEF RingInv

\* push finds its slot free, taken or passed: a free slot leaves room in the window.
LEMMA InspectStep ==
  ASSUME NEW p \in Producers, TypeOK, RingInv, PushInspect(p)
  PROVE  RingInv'
<1> USE RingAssumption, SlotType DEF TypeOK, Goto, PushInspect, Freed, Outstanding, Owns, Quiescent
<1>1. WindowInv'
  BY DEF RingInv, WindowInv
<1>2. OutstandingInv'
  BY DEF RingInv, OutstandingInv
<1>3. FreeInv'
  BY DEF RingInv, FreeInv
<1>4. OwnerInv'
  BY DEF RingInv, OwnerInv
<1>5. LoopInv'
  BY InspectGap DEF RingInv, LoopInv
<1>6. ConsumerInv'
  BY DEF RingInv, ConsumerInv
<1>7. DroppedInv'
  BY DEF RingInv, DroppedInv
<1> QED BY <1>1, <1>2, <1>3, <1>4, <1>5, <1>6, <1>7 DEF RingInv

\* The exchange succeeds: the claimed position was the first free one of the window.
LEMMA ClaimStep ==
  ASSUME NEW p \in Producers, TypeOK, RingInv, PushClaim(p)
  PROVE  RingInv'
<1> USE RingAssumption, SlotType DEF TypeOK, Goto, PushClaim, Freed, Outstanding, Owns, Quiescent
<1>a. pos[p] = enqueue_pos
  <2>1. enqueue_pos \in Nat /\ pos[p] \in Nat /\ MaxLag \in Nat /\ N \in Nat
    BY DEF TypeOK
  <2>2. enqueue_pos - pos[p] <= MaxLag /\ pos[p] <= enqueue_pos
    BY DEF RingInv, LoopInv
  <2> QED BY <2>1, <2>2, GapSound DEF PushClaim
<1>b. /\ enqueue_pos < Freed + N /\ Freed <= enqueue_pos
      /\ sequence[Slot(enqueue_pos)] = enqueue_pos /\ cell[Slot(enqueue_pos)] = Uninit
      /\ val[p] \in Values
  BY <1>a DEF RingInv, LoopInv, WindowInv, FreeInv
<1>c. \A x \in Freed .. Freed + N - 1 : Slot(x) = Slot(enqueue_pos) => x = enqueue_pos
  <2>1. Freed \in Nat /\ enqueue_pos \in Nat /\ N \in Nat
    OBVIOUS
  <2> HIDE DEF Freed
  <2> QED BY <1>b, <2>1, SlotWindow
<1>d. Slot(enqueue_pos) \in Slots
  BY SlotType
<1>e. /\ enqueue_pos' = enqueue_pos + 1 /\ Freed' = Freed /\ pos' = pos /\ val' = val
      /\ sequence' = sequence /\ cell' = cell /\ alive' = alive
      /\ claimed' = [claimed EXCEPT ![Slot(enqueue_pos)] = val[p]]
      /\ pc' = [pc EXCEPT ![p] = "write"]
  OBVIOUS
<1>1. WindowInv'
  BY <1>a, <1>b, <1>c, <1>d, <1>e, SlotWindow DEF RingInv, WindowInv
<1>2. OutstandingInv'
  BY <1>a, <1>b, <1>c, <1>d, <1>e, SlotWindow DEF RingInv, OutstandingInv, WindowInv
<1>3. FreeInv'
  BY DEF RingInv, FreeInv
<1>4. OwnerInv'
  BY <1>a, <1>b, <1>c, <1>d, <1>e, SlotWindow DEF RingInv, OwnerInv, WindowInv
<1>5. LoopInv'
  BY DEF RingInv, LoopInv
<1>6. ConsumerInv'
  BY <1>a, <1>b, <1>c, <1>d, <1>e, SlotWindow DEF RingInv, ConsumerInv, WindowInv
<1>7. DroppedInv'
  BY DEF RingInv, DroppedInv
<1> QED BY <1>1, <1>2, <1>3, <1>4, <1>5, <1>6, <1>7 DEF RingInv

\* The exchange fails and push starts over from the current position.
LEMMA RetryStep ==
  ASSUME NEW p \in Producers, TypeOK, RingInv, PushRetry(p)
  PROVE  RingInv'
<1> USE RingAssumption, SlotType DEF TypeOK, Goto, PushRetry, Freed, Outstanding, Owns, Quiescent
<1>1. WindowInv'
  BY DEF RingInv, WindowInv
<1>2. OutstandingInv'
  BY DEF RingInv, OutstandingInv
<1>3. FreeInv'
  BY DEF RingInv, FreeInv
<1>4. OwnerInv'
  BY DEF RingInv, OwnerInv
<1>5. LoopInv'
  BY DEF RingInv, LoopInv
<1>6. ConsumerInv'
  BY DEF RingInv, ConsumerInv
<1>7. DroppedInv'
  BY DEF RingInv, DroppedInv
<1> QED BY <1>1, <1>2, <1>3, <1>4, <1>5, <1>6, <1>7 DEF RingInv

\* push starts over from a fresh load.
LEMMA ReloadStep ==
  ASSUME NEW p \in Producers, TypeOK, RingInv, PushReload(p)
  PROVE  RingInv'
<1> USE RingAssumption, SlotType DEF TypeOK, Goto, PushReload, Freed, Outstanding, Owns, Quiescent, RelaxedLoad
<1>1. WindowInv'
  BY DEF RingInv, WindowInv
<1>2. OutstandingInv'
  BY DEF RingInv, OutstandingInv
<1>3. FreeInv'
  BY DEF RingInv, FreeInv
<1>4. OwnerInv'
  BY DEF RingInv, OwnerInv
<1>5. LoopInv'
  BY DEF RingInv, LoopInv
<1>6. ConsumerInv'
  BY DEF RingInv, ConsumerInv
<1>7. DroppedInv'
  BY DEF RingInv, DroppedInv
<1> QED BY <1>1, <1>2, <1>3, <1>4, <1>5, <1>6, <1>7 DEF RingInv

\* The owner of a position fills its cell; nobody else is at that slot.
LEMMA WriteStep ==
  ASSUME NEW p \in Producers, TypeOK, RingInv, PushWrite(p)
  PROVE  RingInv'
<1> USE RingAssumption, SlotType DEF TypeOK, Goto, PushWrite, Freed, Outstanding, Owns, Quiescent
<1>1. WindowInv'
  BY DEF RingInv, WindowInv
<1>2. OutstandingInv'
  BY OwnerApart, SlotWindow DEF RingInv, WindowInv, OwnerInv, OutstandingInv
<1>3. FreeInv'
  BY OwnerApart, SlotWindow DEF RingInv, WindowInv, OwnerInv, FreeInv
<1>4. OwnerInv'
  BY DEF RingInv, OwnerInv
<1>5. LoopInv'
  BY DEF RingInv, LoopInv
<1>6. ConsumerInv'
  BY OwnerApart, SlotWindow DEF RingInv, ConsumerInv, WindowInv
<1>7. DroppedInv'
  BY DEF RingInv, DroppedInv
<1> QED BY <1>1, <1>2, <1>3, <1>4, <1>5, <1>6, <1>7 DEF RingInv

\* The owner publishes: the position stays in the window, now readable.
LEMMA PublishStep ==
  ASSUME NEW p \in Producers, TypeOK, RingInv, PushPublish(p)
  PROVE  RingInv'
<1> USE RingAssumption, SlotType DEF TypeOK, Goto, PushPublish, Freed, Outstanding, Owns, Quiescent
<1>1. WindowInv'
  BY DEF RingInv, WindowInv
<1>2. OutstandingInv'
  <2>1. /\ pos[p] \in Freed .. enqueue_pos - 1 /\ Slot(pos[p]) \in Slots
        /\ cell[Slot(pos[p])] = val[p] /\ claimed[Slot(pos[p])] = val[p]
        /\ val[p] \in Values
        /\ \A q \in Producers : q # p /\ Owns(q) => pos[q] # pos[p]
    BY DEF RingInv, OwnerInv, LoopInv
  <2>2. /\ sequence' = [sequence EXCEPT ![Slot(pos[p])] = pos[p] + 1]
        /\ pc' = [pc EXCEPT ![p] = "idle"] /\ Outstanding' = Outstanding
        /\ UNCHANGED <<cell, claimed, cpc, dequeue_pos, pos, alive>>
    OBVIOUS
  <2>3. /\ Freed \in Nat /\ enqueue_pos \in Nat /\ N \in Nat
        /\ enqueue_pos <= Freed + N
    BY DEF RingInv, WindowInv
  <2>4. SUFFICES ASSUME NEW x \in Freed .. enqueue_pos - 1
        PROVE  /\ claimed[Slot(x)] \in Values
               /\ \/ /\ sequence'[Slot(x)] = x + 1
                     /\ alive /\ ~ (cpc = "free" /\ x = dequeue_pos)
                          => cell[Slot(x)] = claimed[Slot(x)]
                  \/ /\ sequence'[Slot(x)] = x
                     /\ \E q \in Producers : Owns(q)' /\ pos[q] = x
    BY <2>2 DEF OutstandingInv
  <2> HIDE DEF Freed, PushPublish
  <2>5. CASE x = pos[p]
    BY <2>1, <2>2, <2>5
  <2>6. CASE x # pos[p]
    <3>1. Slot(x) # Slot(pos[p]) /\ Slot(x) \in Slots
      BY <2>1, <2>3, <2>6, SlotWindow
    <3>2. sequence'[Slot(x)] = sequence[Slot(x)]
      BY <2>2, <3>1
    <3>3. \A q \in Producers : Owns(q) /\ pos[q] = x => Owns(q)'
      BY <2>2, <2>6
    <3> QED BY <3>2, <3>3 DEF RingInv, OutstandingInv
  <2> QED BY <2>5, <2>6
<1>3. FreeInv'
  BY OwnerApart, SlotWindow DEF RingInv, WindowInv, OwnerInv, FreeInv
<1>4. OwnerInv'
  BY DEF RingInv, OwnerInv
<1>5. LoopInv'
  BY DEF RingInv, LoopInv
<1>6. ConsumerInv'
  BY OwnerApart, SlotWindow DEF RingInv, ConsumerInv, WindowInv
<1>7. DroppedInv'
  BY DEF RingInv, DroppedInv
<1> QED BY <1>1, <1>2, <1>3, <1>4, <1>5, <1>6, <1>7 DEF RingInv

\* push gives the value back.
LEMMA ErrStep ==
  ASSUME NEW p \in Producers, TypeOK, RingInv, PushErr(p)
  PROVE  RingInv'
<1> USE RingAssumption, SlotType DEF TypeOK, Goto, PushErr, Freed, Outstanding, Owns, Quiescent
<1>1. WindowInv'
  BY DEF RingInv, WindowInv
<1>2. OutstandingInv'
  BY DEF RingInv, OutstandingInv
<1>3. FreeInv'
  BY DEF RingInv, FreeInv
<1>4. OwnerInv'
  BY DEF RingInv, OwnerInv
<1>5. LoopInv'
  BY DEF RingInv, LoopInv
<1>6. ConsumerInv'
  BY DEF RingInv, ConsumerInv
<1>7. DroppedInv'
  BY DEF RingInv, DroppedInv
<1> QED BY <1>1, <1>2, <1>3, <1>4, <1>5, <1>6, <1>7 DEF RingInv

\* pop sees a sequence word that does not lag: the head position is published.
LEMMA PopInspectStep ==
  ASSUME TypeOK, RingInv, PopInspect
  PROVE  RingInv'
<1> USE RingAssumption, SlotType DEF TypeOK, Goto, PopInspect, Freed, Outstanding, Owns, Quiescent
<1>1. WindowInv'
  BY DEF RingInv, WindowInv
<1>2. OutstandingInv'
  BY DEF RingInv, OutstandingInv
<1>3. FreeInv'
  BY DEF RingInv, FreeInv
<1>4. OwnerInv'
  BY DEF RingInv, OwnerInv
<1>5. LoopInv'
  BY DEF RingInv, LoopInv
<1>6. ConsumerInv'
  <2>1. /\ Slot(dequeue_pos) \in Slots /\ sequence[Slot(dequeue_pos)] \in Nat
        /\ dequeue_pos \in dequeue_pos .. dequeue_pos + N - 1 /\ dequeue_pos \in Nat
    OBVIOUS
  <2>2. /\ sequence[Slot(dequeue_pos)] \in {dequeue_pos, dequeue_pos + 1}
        /\ dequeue_pos >= enqueue_pos => sequence[Slot(dequeue_pos)] = dequeue_pos
    BY <2>1, SequenceInWindow
  <2>3. ~ sequence[Slot(dequeue_pos)] < dequeue_pos + 1
    BY <2>1, <2>2, GapSound
  <2> QED BY <2>1, <2>2, <2>3 DEF ConsumerInv
<1>7. DroppedInv'
  BY DEF RingInv, DroppedInv
<1> QED BY <1>1, <1>2, <1>3, <1>4, <1>5, <1>6, <1>7 DEF RingInv

\* pop moves the value out of the head cell.
LEMMA PopReadStep ==
  ASSUME TypeOK, RingInv, PopRead
  PROVE  RingInv'
<1> USE RingAssumption, SlotType DEF TypeOK, Goto, PopRead, Freed, Outstanding, Owns, Quiescent
<1>1. WindowInv'
  BY DEF RingInv, WindowInv
<1>2. OutstandingInv'
  BY DEF RingInv, OutstandingInv
<1>3. FreeInv'
  BY DEF RingInv, FreeInv
<1>4. OwnerInv'
  BY OwnerApart, SlotWindow DEF RingInv, OwnerInv, WindowInv
<1>5. LoopInv'
  BY DEF RingInv, LoopInv
<1>6. ConsumerInv'
  BY OwnerApart, SlotWindow
   DEF RingInv, WindowInv, OutstandingInv, FreeInv, OwnerInv, LoopInv, ConsumerInv, DroppedInv
<1>7. DroppedInv'
  BY DEF RingInv, DroppedInv
<1> QED BY <1>1, <1>2, <1>3, <1>4, <1>5, <1>6, <1>7 DEF RingInv

\* pop frees the slot: the window moves by one position.
LEMMA PopFreeStep ==
  ASSUME TypeOK, RingInv, PopFree
  PROVE  RingInv'
<1> USE RingAssumption, SlotType DEF TypeOK, Goto, PopFree, Freed, Outstanding, Owns, Quiescent
<1>a. /\ dequeue_pos < enqueue_pos /\ enqueue_pos <= dequeue_pos + N
      /\ sequence[Slot(dequeue_pos)] = dequeue_pos + 1
      /\ cell[Slot(dequeue_pos)] = Uninit
  BY DEF RingInv, WindowInv, ConsumerInv
<1>b. \A x \in dequeue_pos + 1 .. dequeue_pos + N - 1 : Slot(x) # Slot(dequeue_pos)
  BY SlotWindow
<1>c. Slot(dequeue_pos + N) = Slot(dequeue_pos) /\ Slot(dequeue_pos) \in Slots
  BY SlotNext
<1>d. \A x \in dequeue_pos + 1 .. dequeue_pos + N - 1 :
        Slot(x) \in Slots /\ sequence'[Slot(x)] = sequence[Slot(x)]
  BY <1>b
<1>e. sequence'[Slot(dequeue_pos)] = dequeue_pos + N
  BY <1>c
<1>1. WindowInv'
  BY <1>a, <1>b, <1>c, <1>d, <1>e, OwnerApart, SlotWindow DEF RingInv, WindowInv
<1>2. OutstandingInv'
  BY <1>a, <1>b, <1>c, <1>d, <1>e, OwnerApart, SlotWindow DEF RingInv, OutstandingInv, WindowInv
<1>3. FreeInv'
  <2>1. ASSUME NEW x \in enqueue_pos .. dequeue_pos + N
        PROVE  sequence'[Slot(x)] = x /\ cell[Slot(x)] = Uninit
    <3>1. CASE x = dequeue_pos + N
      BY <1>a, <1>c, <1>e, <3>1
    <3>2. CASE x < dequeue_pos + N
      BY <1>a, <1>d, <3>2 DEF RingInv, FreeInv
    <3> QED BY <3>1, <3>2
  <2> QED BY <2>1 DEF FreeInv
<1>4. OwnerInv'
  BY <1>a, <1>b, <1>c, <1>d, <1>e, OwnerApart, SlotWindow DEF RingInv, WindowInv, OwnerInv, LoopInv
<1>5. LoopInv'
  BY DEF RingInv, LoopInv
<1>6. ConsumerInv'
  BY DEF RingInv, ConsumerInv
<1>7. DroppedInv'
  BY DEF RingInv, DroppedInv
<1> QED BY <1>1, <1>2, <1>3, <1>4, <1>5, <1>6, <1>7 DEF RingInv

\* pop stores dequeue_pos: the window stays where it is.
LEMMA PopAdvanceStep ==
  ASSUME TypeOK, RingInv, PopAdvance
  PROVE  RingInv'
<1> USE RingAssumption, SlotType DEF TypeOK, Goto, PopAdvance, Freed, Outstanding, Owns, Quiescent
<1>1. WindowInv'
  BY DEF RingInv, WindowInv
<1>2. OutstandingInv'
  BY DEF RingInv, OutstandingInv
<1>3. FreeInv'
  BY DEF RingInv, FreeInv
<1>4. OwnerInv'
  BY DEF RingInv, OwnerInv
<1>5. LoopInv'
  BY DEF RingInv, LoopInv
<1>6. ConsumerInv'
  BY DEF RingInv, ConsumerInv
<1>7. DroppedInv'
  BY DEF RingInv, DroppedInv
<1> QED BY <1>1, <1>2, <1>3, <1>4, <1>5, <1>6, <1>7 DEF RingInv

\* Drop empties every cell that is not free already.
LEMMA DropStep ==
  ASSUME TypeOK, RingInv, Drop
  PROVE  RingInv'
<1> USE RingAssumption, SlotType DEF TypeOK, Goto, Drop, Freed, Outstanding, Owns, Quiescent
<1>1. WindowInv'
  BY DEF RingInv, WindowInv
<1>2. OutstandingInv'
  BY DEF RingInv, OutstandingInv
<1>3. FreeInv'
  BY DEF RingInv, FreeInv
<1>4. OwnerInv'
  BY DEF RingInv, OwnerInv
<1>5. LoopInv'
  BY DEF RingInv, LoopInv
<1>6. ConsumerInv'
  BY DEF RingInv, ConsumerInv
<1>7. DroppedInv'
  <2>1. ASSUME NEW i \in Slots PROVE cell'[i] = Uninit
    <3>1. PICK x \in dequeue_pos .. dequeue_pos + N - 1 : Slot(x) = i
      BY SlotCover
    <3>2. CASE x < enqueue_pos
      BY <3>1, <3>2
    <3>3. CASE x >= enqueue_pos
      BY <3>1, <3>3 DEF RingInv, FreeInv
    <3> QED BY <3>1, <3>2, <3>3
  <2> QED BY <2>1 DEF DroppedInv
<1> QED BY <1>1, <1>2, <1>3, <1>4, <1>5, <1>6, <1>7 DEF RingInv

-----------------------------------------------------------------------------
(* Theorems.                                                               *)

\* Every step of any thread keeps the window invariant.
LEMMA NextKeepsRing == TypeOK /\ RingInv /\ [Next]_vars => RingInv'
<1> SUFFICES ASSUME TypeOK, RingInv, [Next]_vars PROVE RingInv'
  OBVIOUS
<1>1. ASSUME NEW p \in Producers, Push(p) PROVE RingInv'
  BY <1>1, CallStep, InspectStep, ClaimStep, RetryStep, ReloadStep, WriteStep, PublishStep,
     ErrStep DEF Push
<1>2. CASE Pop
  BY <1>2, PopInspectStep, PopReadStep, PopFreeStep, PopAdvanceStep DEF Pop
<1>3. CASE Drop
  BY <1>3, DropStep
<1>4. CASE UNCHANGED vars
  BY <1>4 DEF vars, RingInv, WindowInv, OutstandingInv, FreeInv, OwnerInv, LoopInv,
       ConsumerInv, DroppedInv, Freed, Outstanding, Owns, Quiescent
<1> QED BY <1>1, <1>2, <1>3, <1>4 DEF Next

\* The ring is always a window of N positions, each free, owned or published:
\* the invariant push and pop of mpsc.rs rely on when they read a sequence word.
THEOREM RingCorrect == Spec => []RingInv
BY TypeCorrect, InitRing, NextKeepsRing, PTL DEF Spec

\* No two threads are ever at one slot's cell at once, and a write never
\* overwrites an unread value: the claim of the unsafe impls of Send and Sync.
THEOREM SlotExclusiveCorrect == Spec => []SlotExclusive
<1>1. TypeOK /\ RingInv => SlotExclusive
  <2> SUFFICES ASSUME TypeOK, RingInv, NEW p \in Producers, pc[p] = "write"
               PROVE  /\ cell[Slot(pos[p])] = Uninit
                      /\ ~ (cpc = "read" /\ Slot(pos[p]) = Slot(dequeue_pos))
                      /\ \A q \in Producers \ {p} :
                           pc[q] \in {"write", "publish"} => Slot(pos[q]) # Slot(pos[p])
    BY DEF SlotExclusive
  <2>1. cell[Slot(pos[p])] = Uninit
    BY DEF RingInv, OwnerInv, Owns
  <2>2. ~ (cpc = "read" /\ Slot(pos[p]) = Slot(dequeue_pos))
    BY OwnerApart DEF Owns
  <2>3. ASSUME NEW q \in Producers \ {p}, Owns(q) PROVE Slot(pos[q]) # Slot(pos[p])
    <3>1. /\ pos[p] \in Freed .. enqueue_pos - 1 /\ pos[q] \in Freed .. enqueue_pos - 1
          /\ pos[p] # pos[q] /\ enqueue_pos <= Freed + N
      BY <2>3 DEF RingInv, WindowInv, OwnerInv, Outstanding, Owns
    <3>2. Freed \in Nat /\ enqueue_pos \in Nat /\ N \in Nat
      BY RingAssumption DEF TypeOK, Freed
    <3> QED BY <3>1, <3>2, SlotWindow
  <2> QED BY <2>1, <2>2, <2>3 DEF Owns
<1> QED BY <1>1, TypeCorrect, RingCorrect, PTL

\* pop takes, for every position, the value its claimant pushed.
THEOREM PopsInClaimOrderCorrect == Spec => []PopsInClaimOrder
<1>1. TypeOK /\ RingInv => PopsInClaimOrder
  <2> SUFFICES ASSUME TypeOK, RingInv PROVE PopsInClaimOrder
    OBVIOUS
  <2>1. CASE cpc = "read"
    <3>1. /\ dequeue_pos \in Outstanding /\ alive /\ dequeue_pos \in Nat
          /\ sequence[Slot(dequeue_pos)] = dequeue_pos + 1
      BY <2>1, RingAssumption
         DEF TypeOK, RingInv, ConsumerInv, DroppedInv, Quiescent, Outstanding, Freed
    <3> QED BY <2>1, <3>1 DEF RingInv, OutstandingInv, PopsInClaimOrder
  <2>2. CASE cpc = "free"
    BY <2>2 DEF RingInv, ConsumerInv, PopsInClaimOrder
  <2> QED BY <2>1, <2>2 DEF PopsInClaimOrder
<1> QED BY <1>1, TypeCorrect, RingCorrect, PTL

\* push rejects a value only in a state in which N positions are claimed and
\* not freed, whatever the staleness of its copy of enqueue_pos.
THEOREM RejectsOnlyWhenFullCorrect == Spec => RejectsOnlyWhenFull
<1> DEFINE Rejects(p) == pc[p] = "loop" /\ pc'[p] = "rejected"
<1>1. ASSUME TypeOK, RingInv, Next, NEW p \in Producers, Rejects(p)
      PROVE  enqueue_pos - Freed = N
  <2>1. PushInspect(p)
    BY <1>1 DEF Next, Push, Pop, Goto, PushCall, PushInspect, PushClaim, PushRetry, PushReload,
         PushWrite, PushPublish, PushErr, PopInspect, PopRead, PopFree, PopAdvance, Drop, TypeOK
  <2>2. Lags(WrappingSub(sequence[Slot(pos[p])], pos[p]))
    BY <1>1, <2>1 DEF PushInspect, Goto, TypeOK
  <2> QED BY <1>1, <2>2, InspectGap
<1>2. TypeOK /\ RingInv /\ [Next]_vars =>
        [\A p \in Producers : Rejects(p) => enqueue_pos - Freed = N]_vars
  BY <1>1
<1> QED BY <1>2, TypeCorrect, RingCorrect, PTL DEF Spec, RejectsOnlyWhenFull

\* len never misses a completed push that is not yet popped and never exceeds
\* the capacity, as read by the consumer.
THEOREM LenCoversPublishedCorrect == Spec => []LenCoversPublished
<1>1. TypeOK /\ RingInv => LenCoversPublished
  <2> SUFFICES ASSUME TypeOK, RingInv, cpc = "idle" PROVE LenCoversPublished
    BY DEF LenCoversPublished
  <2>1. /\ enqueue_pos - dequeue_pos \in 0 .. N /\ Freed = dequeue_pos
        /\ enqueue_pos \in Nat /\ dequeue_pos \in Nat
    BY RingAssumption DEF TypeOK, RingInv, WindowInv, Freed
  <2>2. RingLen = enqueue_pos - dequeue_pos
    <3> DEFINE k == enqueue_pos - dequeue_pos
    <3>1. k \in Nat /\ k < W
      BY <2>1, RingAssumption
    <3> HIDE DEF k
    <3>2. k % W = k
      BY <3>1, RingAssumption
    <3> QED BY <3>2 DEF RingLen, WrappingSub, k
  <2>3. ASSUME NEW x \in dequeue_pos .. dequeue_pos + N - 1, Published(x)
        PROVE  x < enqueue_pos
    BY <2>1, <2>3, SequenceInWindow DEF Published
  <2> QED BY <2>1, <2>2, <2>3 DEF LenCoversPublished
<1> QED BY <1>1, TypeCorrect, RingCorrect, PTL

\* Drop reads only initialised cells and leaves none behind.
THEOREM DropReleasesAllCorrect == Spec => []DropReleasesAll
<1>1. TypeOK /\ RingInv => DropReleasesAll
  BY DEF RingInv, OutstandingInv, DroppedInv, DropReleasesAll, Quiescent, Owns
<1> QED BY <1>1, TypeCorrect, RingCorrect, PTL
=============================================================================
