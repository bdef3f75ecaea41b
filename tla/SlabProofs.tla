----------------------------- MODULE SlabProofs -----------------------------
(***************************************************************************)
(* Proofs about Slab, for every capacity, every even number of generation  *)
(* values and every number of reuses.                                      *)
(***************************************************************************)
EXTENDS Slab, FiniteSetTheorems, TLAPS

\* Types before len is known to count the occupied slots.
SlabType ==
  /\ generation \in [Slots -> Nat]
  /\ next_free \in [Slots -> Slots \cup {Sentinel}]
  /\ data \in [Slots -> Nat \cup {Uninit, Moved}]
  /\ free_head \in Slots \cup {Sentinel}
  /\ len \in Int
  /\ depth \in [Slots -> Nat]
  /\ nfree \in Nat

-----------------------------------------------------------------------------
(* Arithmetic of generations.                                              *)

LEMMA DivMod ==
  ASSUME NEW x \in Nat
  PROVE  /\ x \div Gens \in Nat
         /\ x % Gens \in 0 .. Gens - 1
         /\ x = Gens * (x \div Gens) + (x % Gens)
BY SlabAssumption

\* Generations that agree modulo Gens have the same parity, because Gens is even.
LEMMA SameParity ==
  ASSUME NEW a \in Nat, NEW b \in Nat, a % Gens = b % Gens
  PROVE  a % 2 = b % 2
<1> DEFINE h == Gens \div 2
           p == a \div Gens
           q == b \div Gens
           r == a % Gens
<1>1. h \in Nat /\ Gens = 2 * h
  BY SlabAssumption
<1>2. p \in Nat /\ q \in Nat /\ r \in Nat /\ a = Gens * p + r /\ b = Gens * q + r
  BY DivMod, SlabAssumption
<1> HIDE DEF h, p, q, r
<1>3. h * p \in Nat /\ h * q \in Nat
  BY <1>1, <1>2
<1>4. a = 2 * (h * p) + r /\ b = 2 * (h * q) + r
  BY <1>1, <1>2
<1> DEFINE x == h * p
           y == h * q
<1>5. x \in Nat /\ y \in Nat /\ a = 2 * x + r /\ b = 2 * y + r
  BY <1>3, <1>4
<1> HIDE DEF x, y
<1> QED BY <1>2, <1>5

\* Generations that agree modulo Gens are equal or at least Gens apart.
LEMMA NoWrap ==
  ASSUME NEW a \in Nat, NEW b \in Nat, a % Gens = b % Gens, a < b + Gens, b < a + Gens
  PROVE  a = b
<1> DEFINE p == a \div Gens
           q == b \div Gens
           r == a % Gens
<1>1. p \in Nat /\ q \in Nat /\ r \in Nat /\ a = Gens * p + r /\ b = Gens * q + r
  BY DivMod, SlabAssumption
<1> HIDE DEF p, q, r
<1>2. ASSUME NEW u \in Nat, NEW v \in Nat, u < v PROVE Gens * u + Gens <= Gens * v
  <2>1. PICK k \in Nat : v = u + 1 + k
    <3>1. v - u - 1 \in Nat
      BY <1>2
    <3> QED BY <3>1
  <2>2. Gens * v = Gens * u + Gens + Gens * k /\ Gens * k >= 0
    BY <2>1, SlabAssumption
  <2> QED BY <2>2, SlabAssumption
<1>3. Gens * p \in Nat /\ Gens * q \in Nat
  BY <1>1, SlabAssumption
<1>4. CASE p < q
  BY <1>1, <1>2, <1>3, <1>4, SlabAssumption
<1>5. CASE q < p
  BY <1>1, <1>2, <1>3, <1>5, SlabAssumption
<1> QED BY <1>1, <1>4, <1>5

-----------------------------------------------------------------------------
(* The free list.                                                          *)

LEMMA SentinelApart == Sentinel \notin Slots
BY SlabAssumption

\* The free list and the slots at the start.
LEMMA InitSlab ==
  ASSUME Init
  PROVE  SlabType /\ SlabInv
<1> USE DEF Slots
<1>1. Capacity \in Nat /\ Sentinel \in Int /\ Sentinel \notin 0 .. Capacity - 1
  BY SlabAssumption
<1>2. SlabType
  BY <1>1 DEF Init, SlabType, Uninit, Moved
<1>3. FreeListInv
  BY <1>1 DEF Init, FreeListInv
<1>4. SlotInv
  BY <1>1 DEF Init, SlotInv, Is_occupied
<1> QED BY <1>2, <1>3, <1>4 DEF SlabInv

\* Taking the head leaves a chain of the others.
LEMMA PopKeepsList ==
  ASSUME SlabType, FreeListInv, NEW i \in Slots, NEW link \in {Sentinel, i},
         PopFree(i, link)
  PROVE  /\ FreeListInv'
         /\ depth[i] > 0 /\ depth'[i] = 0 /\ next_free'[i] = link
         /\ \A j \in Slots \ {i} : depth'[j] = depth[j] /\ next_free'[j] = next_free[j]
         /\ next_free' \in [Slots -> Slots \cup {Sentinel}]
         /\ free_head' \in Slots \cup {Sentinel}
         /\ depth' \in [Slots -> Nat]
         /\ nfree' \in Nat
<1> USE SentinelApart DEF SlabType
<1>1. nfree > 0 /\ depth[i] = nfree
  BY DEF PopFree, FreeListInv
<1>2. /\ depth'[i] = 0 /\ next_free'[i] = link
      /\ \A j \in Slots \ {i} : depth'[j] = depth[j] /\ next_free'[j] = next_free[j]
      /\ next_free' \in [Slots -> Slots \cup {Sentinel}]
      /\ depth' \in [Slots -> Nat]
      /\ nfree' = nfree - 1 /\ free_head' = next_free[i]
  BY DEF PopFree
<1>3. \A j \in Slots \ {i} : depth[j] < nfree
  BY <1>1 DEF FreeListInv
<1>4. FreeListInv'
  <2>1. \A j \in Slots : depth'[j] <= nfree'
    BY <1>1, <1>2, <1>3
  <2>2. \A j, k \in Slots : depth'[j] = depth'[k] /\ depth'[j] > 0 => j = k
    BY <1>2 DEF FreeListInv
  <2>3. \A j \in Slots : depth'[j] = 1 => next_free'[j] = Sentinel
    BY <1>2 DEF FreeListInv
  <2>4. ASSUME NEW j \in Slots, depth'[j] > 1
        PROVE  next_free'[j] \in Slots /\ depth'[next_free'[j]] = depth'[j] - 1
    <3>1. j # i /\ depth'[j] = depth[j] /\ next_free'[j] = next_free[j]
      BY <1>2, <2>4
    <3>2. next_free[j] \in Slots /\ depth[next_free[j]] = depth[j] - 1
      BY <2>4, <3>1 DEF FreeListInv
    <3>3. next_free[j] # i
      BY <1>1, <1>3, <3>1, <3>2
    <3> QED BY <1>2, <3>1, <3>2, <3>3
  <2>5. nfree' = 0 => free_head' = Sentinel
    BY <1>1, <1>2 DEF FreeListInv
  <2>6. ASSUME nfree' > 0 PROVE free_head' \in Slots /\ depth'[free_head'] = nfree'
    <3>1. next_free[i] \in Slots /\ depth[next_free[i]] = nfree - 1
      BY <1>1, <1>2, <2>6 DEF FreeListInv
    <3> QED BY <1>1, <1>2, <3>1
  <2> QED BY <2>1, <2>2, <2>3, <2>4, <2>5, <2>6 DEF FreeListInv
<1> QED BY <1>1, <1>2, <1>4

\* Pushing a slot that is not in the chain makes it the new head.
LEMMA PushKeepsList ==
  ASSUME SlabType, FreeListInv, NEW i \in Slots, depth[i] = 0, PushFree(i)
  PROVE  /\ FreeListInv'
         /\ depth'[i] > 0
         /\ \A j \in Slots \ {i} : depth'[j] = depth[j] /\ next_free'[j] = next_free[j]
         /\ next_free'[i] # i
         /\ next_free' \in [Slots -> Slots \cup {Sentinel}]
         /\ free_head' \in Slots \cup {Sentinel}
         /\ depth' \in [Slots -> Nat]
         /\ nfree' \in Nat
<1> USE SentinelApart DEF SlabType
<1>1. /\ depth'[i] = nfree + 1 /\ next_free'[i] = free_head
      /\ \A j \in Slots \ {i} : depth'[j] = depth[j] /\ next_free'[j] = next_free[j]
      /\ next_free' \in [Slots -> Slots \cup {Sentinel}]
      /\ depth' \in [Slots -> Nat]
      /\ nfree' = nfree + 1 /\ free_head' = i
  BY DEF PushFree
<1>2. \A j \in Slots : depth[j] <= nfree
  BY DEF FreeListInv
<1>3. nfree = 0 => free_head = Sentinel
  BY DEF FreeListInv
<1>4. nfree > 0 => free_head \in Slots /\ depth[free_head] = nfree /\ free_head # i
  BY DEF FreeListInv
<1>5. FreeListInv'
  <2>1. \A j \in Slots : depth'[j] <= nfree'
    BY <1>1, <1>2
  <2>2. \A j, k \in Slots : depth'[j] = depth'[k] /\ depth'[j] > 0 => j = k
    BY <1>1, <1>2 DEF FreeListInv
  <2>3. \A j \in Slots : depth'[j] = 1 => next_free'[j] = Sentinel
    BY <1>1, <1>3 DEF FreeListInv
  <2>4. ASSUME NEW j \in Slots, depth'[j] > 1
        PROVE  next_free'[j] \in Slots /\ depth'[next_free'[j]] = depth'[j] - 1
    <3>1. CASE j = i
      BY <1>1, <1>4, <2>4, <3>1
    <3>2. CASE j # i
      <4>1. next_free[j] \in Slots /\ depth[next_free[j]] = depth[j] - 1
        BY <1>1, <2>4, <3>2 DEF FreeListInv
      <4>2. next_free[j] # i
        BY <1>1, <2>4, <3>2, <4>1
      <4> QED BY <1>1, <3>2, <4>1, <4>2
    <3> QED BY <3>1, <3>2
  <2> QED BY <1>1, <2>1, <2>2, <2>3, <2>4 DEF FreeListInv
<1>6. next_free'[i] # i
  BY <1>1, <1>3, <1>4
<1> QED BY <1>1, <1>5, <1>6
-----------------------------------------------------------------------------
(* Each operation keeps the invariant; Occ says which slots it fills or    *)
(* empties.                                                                *)

Occ == {i \in Slots : Is_occupied(i)}

LEMMA Flip ==
  ASSUME NEW n \in Nat
  PROVE  /\ n % 2 = 1 => (n + 1) % 2 # 1
         /\ n % 2 # 1 => (n + 1) % 2 = 1
OBVIOUS

\* A key has an odd generation, so one that resolves names an occupied slot.
LEMMA ResolvedIsOccupied ==
  ASSUME SlabType, NEW i \in Slots, NEW g \in Keys(i), Resolves(i, g)
  PROVE  Is_occupied(i)
<1>1. g \in Nat /\ g % 2 = 1 /\ generation[i] \in Nat
  BY DEF Keys, SlabType
<1>2. generation[i] % 2 = g % 2
  BY <1>1, SameParity DEF Resolves
<1> QED BY <1>1, <1>2 DEF Is_occupied

LEMMA InsertStep ==
  ASSUME SlabType, SlabInv, NEW i \in Slots, Insert(i)
  PROVE  /\ SlabType' /\ SlabInv'
         /\ ~ Is_occupied(i) /\ ~ Reserved(i) /\ Occ' = Occ \cup {i} /\ len' = len + 1
         /\ generation' = [generation EXCEPT ![i] = generation[i] + 1]
<1>1. PopFree(i, Sentinel) /\ generation' = [generation EXCEPT ![i] = generation[i] + 1]
      /\ data' = [data EXCEPT ![i] = generation[i] + 1] /\ len' = len + 1
  BY DEF Insert, Roll, Store, Next_generation
<1>2. /\ FreeListInv'
      /\ depth[i] > 0 /\ depth'[i] = 0 /\ next_free'[i] = Sentinel
      /\ \A j \in Slots \ {i} : depth'[j] = depth[j] /\ next_free'[j] = next_free[j]
      /\ next_free' \in [Slots -> Slots \cup {Sentinel}]
      /\ free_head' \in Slots \cup {Sentinel}
      /\ depth' \in [Slots -> Nat]
      /\ nfree' \in Nat
  BY <1>1, PopKeepsList DEF SlabInv
<1>3. ~ Is_occupied(i)
  BY <1>2 DEF SlabInv, SlotInv
<1>4. next_free[i] # i
  <2>1. CASE depth[i] = 1
    BY <2>1, SentinelApart DEF SlabInv, FreeListInv
  <2>2. CASE depth[i] # 1
    BY <1>2, <2>2 DEF SlabInv, FreeListInv, SlabType
  <2> QED BY <2>1, <2>2
<1>5. SlabType'
  <2>1. generation[i] + 1 \in Nat
    BY DEF SlabType
  <2>2. generation' \in [Slots -> Nat] /\ data' \in [Slots -> Nat \cup {Uninit, Moved}]
    BY <1>1, <2>1 DEF SlabType
  <2>3. len' \in Int
    BY <1>1 DEF SlabType
  <2> QED BY <1>2, <2>2, <2>3 DEF SlabType
<1>6. Is_occupied(i)' /\ \A j \in Slots \ {i} : Is_occupied(j)' = Is_occupied(j)
  BY <1>1, <1>3, Flip DEF SlabType, Is_occupied
<1>7. SlotInv'
  BY <1>1, <1>2, <1>6 DEF SlabType, SlabInv, SlotInv
<1>8. Occ' = Occ \cup {i}
  BY <1>6 DEF Occ
<1> QED BY <1>1, <1>2, <1>3, <1>4, <1>5, <1>7, <1>8 DEF SlabInv, Reserved

LEMMA ReserveStep ==
  ASSUME SlabType, SlabInv, NEW i \in Slots, Reserve(i)
  PROVE  /\ SlabType' /\ SlabInv'
         /\ ~ Is_occupied(i) /\ ~ Reserved(i)
         /\ next_free'[i] = i /\ UNCHANGED <<generation, len>>
         /\ \A j \in Slots \ {i} : next_free'[j] = next_free[j]
<1>1. PopFree(i, i) /\ UNCHANGED <<generation, data, len>>
  BY DEF Reserve
<1>2. /\ FreeListInv'
      /\ depth[i] > 0 /\ depth'[i] = 0 /\ next_free'[i] = i
      /\ \A j \in Slots \ {i} : depth'[j] = depth[j] /\ next_free'[j] = next_free[j]
      /\ next_free' \in [Slots -> Slots \cup {Sentinel}]
      /\ free_head' \in Slots \cup {Sentinel}
      /\ depth' \in [Slots -> Nat]
      /\ nfree' \in Nat
  BY <1>1, PopKeepsList DEF SlabInv
<1>3. ~ Is_occupied(i) /\ data[i] = Uninit
  BY <1>2 DEF SlabInv, SlotInv
<1>4. next_free[i] # i
  <2>1. CASE depth[i] = 1
    BY <2>1, SentinelApart DEF SlabInv, FreeListInv
  <2>2. CASE depth[i] # 1
    BY <1>2, <2>2 DEF SlabInv, FreeListInv, SlabType
  <2> QED BY <2>1, <2>2
<1>5. SlabType'
  BY <1>1, <1>2 DEF SlabType
<1>6. \A j \in Slots : Is_occupied(j)' = Is_occupied(j)
  BY <1>1 DEF Is_occupied
<1>7. SlotInv'
  BY <1>1, <1>2, <1>3, <1>6 DEF SlabType, SlabInv, SlotInv
<1> QED BY <1>1, <1>2, <1>3, <1>4, <1>5, <1>7 DEF SlabInv, Reserved

\* remove, remove_by_index and retire_slot share their bookkeeping.
LEMMA ReleaseStep ==
  ASSUME SlabType, SlabInv, NEW i \in Slots, Is_occupied(i),
         Clear(i), Roll(i), PushFree(i), len' = len - 1
  PROVE  /\ SlabType' /\ SlabInv'
         /\ Occ' = Occ \ {i} /\ next_free'[i] # i
         /\ \A j \in Slots \ {i} : next_free'[j] = next_free[j]
<1>1. generation' = [generation EXCEPT ![i] = generation[i] + 1]
      /\ data' = [data EXCEPT ![i] = Uninit]
  BY DEF Roll, Clear
<1>2. depth[i] = 0
  BY DEF SlabInv, SlotInv
<1>3. /\ FreeListInv'
      /\ depth'[i] > 0
      /\ \A j \in Slots \ {i} : depth'[j] = depth[j] /\ next_free'[j] = next_free[j]
      /\ next_free'[i] # i
      /\ next_free' \in [Slots -> Slots \cup {Sentinel}]
      /\ free_head' \in Slots \cup {Sentinel}
      /\ depth' \in [Slots -> Nat]
      /\ nfree' \in Nat
  BY <1>2, PushKeepsList DEF SlabInv
<1>4. SlabType'
  <2>1. generation[i] + 1 \in Nat
    BY DEF SlabType
  <2>2. generation' \in [Slots -> Nat] /\ data' \in [Slots -> Nat \cup {Uninit, Moved}]
    BY <1>1, <2>1 DEF SlabType
  <2>3. len' \in Int
    BY DEF SlabType
  <2> QED BY <1>3, <2>2, <2>3 DEF SlabType
<1>5. ~ Is_occupied(i)' /\ \A j \in Slots \ {i} : Is_occupied(j)' = Is_occupied(j)
  BY <1>1, Flip DEF SlabType, Is_occupied
<1>6. SlotInv'
  BY <1>1, <1>3, <1>5 DEF SlabType, SlabInv, SlotInv
<1>7. Occ' = Occ \ {i}
  BY <1>5 DEF Occ
<1> QED BY <1>3, <1>4, <1>6, <1>7 DEF SlabInv

LEMMA MoveOutStep ==
  ASSUME SlabType, SlabInv, NEW i \in Slots, Move_out(i)
  PROVE  SlabType' /\ SlabInv'
<1>1. /\ data' = [data EXCEPT ![i] = Moved] /\ Is_occupied(i)
      /\ UNCHANGED <<generation, next_free, free_head, len, depth, nfree>>
  BY DEF Move_out
<1>2. SlabType'
  BY <1>1 DEF SlabType
<1>3. FreeListInv'
  BY <1>1 DEF SlabInv, FreeListInv
<1>4. \A j \in Slots : Is_occupied(j)' = Is_occupied(j)
  BY <1>1 DEF Is_occupied
<1>5. SlotInv'
  BY <1>1, <1>4 DEF SlabType, SlabInv, SlotInv
<1> QED BY <1>2, <1>3, <1>5 DEF SlabInv

\* A slot that links to itself is empty and outside the free list.
LEMMA ReservedSlot ==
  ASSUME SlabType, SlabInv, NEW i \in Slots, Reserved(i)
  PROVE  depth[i] = 0 /\ ~ Is_occupied(i) /\ data[i] = Uninit
<1>1. next_free[i] = i /\ i # Sentinel
  BY SentinelApart DEF Reserved
<1>2. depth[i] \in Nat
  BY DEF SlabType
<1>3. depth[i] # 1
  BY <1>1 DEF SlabInv, FreeListInv
<1>4. ~ depth[i] > 1
  BY <1>1, <1>2 DEF SlabInv, FreeListInv
<1>5. depth[i] = 0
  BY <1>2, <1>3, <1>4
<1> QED BY <1>1, <1>5 DEF SlabInv, SlotInv

LEMMA InstallStep ==
  ASSUME SlabType, SlabInv, NEW i \in Slots, NEW g, Install(i, g)
  PROVE  /\ SlabType' /\ SlabInv'
         /\ ~ Is_occupied(i) /\ Occ' = Occ \cup {i}
<1>1. /\ Reserved(i)
      /\ generation' = [generation EXCEPT ![i] = generation[i] + 1]
      /\ data' = [data EXCEPT ![i] = generation[i] + 1] /\ len' = len + 1
      /\ next_free' = [next_free EXCEPT ![i] = Sentinel]
      /\ UNCHANGED <<free_head, depth, nfree>>
  BY DEF Install, Promised, Roll, Store, Next_generation
<1>2. depth[i] = 0 /\ ~ Is_occupied(i)
  BY <1>1, ReservedSlot
<1>3. SlabType'
  BY <1>1 DEF SlabType
<1>4. FreeListInv'
  <2>1. \A j \in Slots : depth[j] > 0 => next_free'[j] = next_free[j]
    BY <1>1, <1>2 DEF SlabType
  <2> QED BY <1>1, <2>1 DEF SlabType, SlabInv, FreeListInv
<1>5. Is_occupied(i)' /\ \A j \in Slots \ {i} : Is_occupied(j)' = Is_occupied(j)
  BY <1>1, <1>2, Flip DEF SlabType, Is_occupied
<1>6. SlotInv'
  BY <1>1, <1>2, <1>5 DEF SlabType, SlabInv, SlotInv
<1>7. Occ' = Occ \cup {i}
  BY <1>5 DEF Occ
<1> QED BY <1>2, <1>3, <1>4, <1>6, <1>7 DEF SlabInv

LEMMA UnreserveStep ==
  ASSUME SlabType, SlabInv, NEW i \in Slots, NEW g, Unreserve(i, g)
  PROVE  /\ SlabType' /\ SlabInv'
         /\ ~ Is_occupied(i) /\ next_free'[i] # i
         /\ \A j \in Slots \ {i} : next_free'[j] = next_free[j]
<1>1. Reserved(i) /\ PushFree(i) /\ UNCHANGED <<generation, data, len>>
  BY DEF Unreserve, Promised
<1>2. depth[i] = 0 /\ ~ Is_occupied(i) /\ data[i] = Uninit
  BY <1>1, ReservedSlot
<1>3. /\ FreeListInv'
      /\ depth'[i] > 0
      /\ \A j \in Slots \ {i} : depth'[j] = depth[j] /\ next_free'[j] = next_free[j]
      /\ next_free'[i] # i
      /\ next_free' \in [Slots -> Slots \cup {Sentinel}]
      /\ free_head' \in Slots \cup {Sentinel}
      /\ depth' \in [Slots -> Nat]
      /\ nfree' \in Nat
  BY <1>1, <1>2, PushKeepsList DEF SlabInv
<1>4. SlabType'
  BY <1>1, <1>3 DEF SlabType
<1>5. \A j \in Slots : Is_occupied(j)' = Is_occupied(j)
  BY <1>1 DEF Is_occupied
<1>6. SlotInv'
  BY <1>1, <1>2, <1>3, <1>5 DEF SlabType, SlabInv, SlotInv
<1> QED BY <1>2, <1>3, <1>4, <1>6 DEF SlabInv
-----------------------------------------------------------------------------
(* The theorems.                                                           *)

\* len counts the occupied slots along the way.
Counted == IsFiniteSet(Occ) /\ len = Cardinality(Occ)

SlabIInv == SlabType /\ SlabInv /\ Counted

LEMMA CountUp ==
  ASSUME Counted, NEW i \in Slots, ~ Is_occupied(i), Occ' = Occ \cup {i}, len' = len + 1
  PROVE  Counted'
<1>1. i \notin Occ
  BY DEF Occ
<1>2. IsFiniteSet(Occ \cup {i}) /\ Cardinality(Occ \cup {i}) = Cardinality(Occ) + 1
  BY <1>1, FS_AddElement DEF Counted
<1> HIDE DEF Occ
<1> QED BY <1>2 DEF Counted

LEMMA CountDown ==
  ASSUME Counted, NEW i \in Slots, Is_occupied(i), Occ' = Occ \ {i}, len' = len - 1
  PROVE  Counted'
<1>1. i \in Occ
  BY DEF Occ
<1>2. IsFiniteSet(Occ \ {i}) /\ Cardinality(Occ \ {i}) = Cardinality(Occ) - 1
  BY <1>1, FS_RemoveElement DEF Counted
<1> HIDE DEF Occ
<1> QED BY <1>2 DEF Counted

LEMMA CountSame ==
  ASSUME Counted, UNCHANGED <<generation, len>>
  PROVE  Counted'
<1>1. Occ' = Occ
  BY DEF Occ, Is_occupied
<1> QED BY <1>1 DEF Counted

LEMMA InitCounted ==
  ASSUME Init
  PROVE  Counted
<1>1. Occ = {}
  BY DEF Init, Occ, Is_occupied
<1>2. len = 0
  BY DEF Init
<1> QED BY <1>1, <1>2, FS_EmptySet DEF Counted

\* Every operation of the slab keeps the inductive invariant.
LEMMA SlabIInvStep ==
  ASSUME SlabIInv, [Next]_vars
  PROVE  SlabIInv'
<1>0. SlabType /\ SlabInv /\ Counted
  BY DEF SlabIInv
<1>1. CASE UNCHANGED vars
  <2>1. UNCHANGED <<generation, next_free, data, free_head, len, depth, nfree>>
    BY <1>1 DEF vars
  <2>2. SlabType'
    BY <1>0, <2>1 DEF SlabType
  <2>3. FreeListInv'
    BY <1>0, <2>1 DEF SlabInv, FreeListInv
  <2>4. SlotInv'
    BY <1>0, <2>1 DEF SlabInv, SlotInv, Is_occupied
  <2>5. Counted'
    BY <1>0, <2>1, CountSame
  <2> QED BY <2>2, <2>3, <2>4, <2>5 DEF SlabIInv, SlabInv
<1>2. ASSUME NEW i \in Slots, Insert(i) PROVE SlabIInv'
  BY <1>0, <1>2, InsertStep, CountUp DEF SlabIInv
<1>3. ASSUME NEW i \in Slots, Reserve(i) PROVE SlabIInv'
  BY <1>0, <1>3, ReserveStep, CountSame DEF SlabIInv
<1>4. ASSUME NEW i \in Slots, Remove_by_index(i) PROVE SlabIInv'
  BY <1>0, <1>4, ReleaseStep, CountDown DEF SlabIInv, Remove_by_index
<1>5. ASSUME NEW i \in Slots, Move_out(i) PROVE SlabIInv'
  <2>1. UNCHANGED <<generation, len>>
    BY <1>5 DEF Move_out
  <2> QED BY <1>0, <1>5, <2>1, MoveOutStep, CountSame DEF SlabIInv
<1>6. ASSUME NEW i \in Slots, NEW g \in Keys(i), Remove(i, g) PROVE SlabIInv'
  <2>1. Is_occupied(i)
    BY <1>0, <1>6, ResolvedIsOccupied DEF Remove
  <2> QED BY <1>0, <1>6, <2>1, ReleaseStep, CountDown DEF SlabIInv, Remove
<1>7. ASSUME NEW i \in Slots, NEW g \in Keys(i), Retire_slot(i, g) PROVE SlabIInv'
  <2>1. Is_occupied(i)
    BY <1>0, <1>7, ResolvedIsOccupied DEF Retire_slot
  <2> QED BY <1>0, <1>7, <2>1, ReleaseStep, CountDown DEF SlabIInv, Retire_slot
<1>8. ASSUME NEW i \in Slots, NEW g \in Keys(i), Install(i, g) PROVE SlabIInv'
  <2>1. len' = len + 1
    BY <1>8 DEF Install
  <2> QED BY <1>0, <1>8, <2>1, InstallStep, CountUp DEF SlabIInv
<1>9. ASSUME NEW i \in Slots, NEW g \in Keys(i), Unreserve(i, g) PROVE SlabIInv'
  <2>1. UNCHANGED <<generation, len>>
    BY <1>9 DEF Unreserve
  <2> QED BY <1>0, <1>9, <2>1, UnreserveStep, CountSame DEF SlabIInv
<1> QED BY <1>1, <1>2, <1>3, <1>4, <1>5, <1>6, <1>7, <1>8, <1>9 DEF Next

\* The invariant the other theorems rest on holds in every state.
THEOREM SlabIInvCorrect == Spec => []SlabIInv
<1>1. Init => SlabIInv
  BY InitSlab, InitCounted DEF SlabIInv
<1>2. SlabIInv /\ [Next]_vars => SlabIInv'
  BY SlabIInvStep
<1> QED BY <1>1, <1>2, PTL DEF Spec

\* The fields of the slab keep their types; in particular the subtraction
\* len - 1 of remove never goes below zero.
THEOREM TypeCorrect == Spec => []TypeOK
<1>1. SlabIInv => TypeOK
  <2> SUFFICES ASSUME SlabIInv PROVE TypeOK
    OBVIOUS
  <2>1. len \in Nat
    BY FS_CardinalityType DEF SlabIInv, Counted
  <2> QED BY <2>1 DEF SlabIInv, SlabType, TypeOK
<1> QED BY <1>1, SlabIInvCorrect, PTL

\* The free list is a chain of exactly the empty slots that are not reserved.
THEOREM SlabCorrect == Spec => []SlabInv
<1>1. SlabIInv => SlabInv
  BY DEF SlabIInv
<1> QED BY <1>1, SlabIInvCorrect, PTL

\* len counts the occupied slots.
THEOREM LenCountsOccupiedCorrect == Spec => []LenCountsOccupied
<1>1. SlabIInv => LenCountsOccupied
  BY DEF SlabIInv, Counted, Occ, LenCountsOccupied
<1> QED BY <1>1, SlabIInvCorrect, PTL

\* Dropping the slab releases exactly the values it holds.
THEOREM DropReleasesAllCorrect == Spec => []DropReleasesAll
<1>1. SlabIInv => DropReleasesAll
  <2> SUFFICES ASSUME SlabIInv, NEW i \in Slots
               PROVE  Is_occupied(i) <=> data[i] # Uninit
    BY DEF DropReleasesAll, Drop
  <2>1. generation[i] \in Nat
    BY DEF SlabIInv, SlabType
  <2> QED BY <2>1 DEF SlabIInv, SlabInv, SlotInv, Uninit, Moved
<1> QED BY <1>1, SlabIInvCorrect, PTL

\* Full is reported only when no slot is empty and unpromised, and the slot handed
\* out otherwise is empty and promised to nobody.
THEOREM FullMeansNoRoomCorrect == Spec => []FullMeansNoRoom
<1>1. SlabIInv => FullMeansNoRoom
  <2> SUFFICES ASSUME SlabIInv PROVE FullMeansNoRoom
    OBVIOUS
  <2>0. SlabType /\ SlabInv /\ FreeListInv /\ SlotInv
    BY DEF SlabIInv, SlabInv
  <2>1. CASE free_head = Sentinel
    <3>1. nfree = 0
      BY <2>0, <2>1, SentinelApart DEF SlabType, FreeListInv
    <3>2. \A i \in Slots : depth[i] = 0
      BY <2>0, <3>1 DEF SlabType, FreeListInv
    <3> QED BY <2>0, <2>1, <3>2 DEF SlotInv, Reserved, FullMeansNoRoom
  <2>2. CASE free_head # Sentinel
    <3>1. nfree > 0 /\ free_head \in Slots /\ depth[free_head] = nfree
      BY <2>0, <2>2 DEF SlabType, FreeListInv
    <3>2. ~ Reserved(free_head)
      BY <2>0, <3>1, ReservedSlot DEF SlabType
    <3>3. ~ Is_occupied(free_head) /\ data[free_head] = Uninit
      BY <2>0, <3>1 DEF SlabType, SlotInv
    <3> QED BY <2>2, <3>2, <3>3 DEF FullMeansNoRoom
  <2> QED BY <2>1, <2>2
<1> QED BY <1>1, SlabIInvCorrect, PTL

\* A key that resolves finds a value, and its own until the generation comes round.
THEOREM KeyNamesItsValueCorrect == Spec => []KeyNamesItsValue
<1>1. SlabIInv => KeyNamesItsValue
  <2> SUFFICES ASSUME SlabIInv, NEW i \in Slots, NEW g \in Keys(i), Resolves(i, g)
               PROVE  /\ data[i] # Uninit
                      /\ generation[i] < g + Gens => data[i] \in {g, Moved}
    BY DEF KeyNamesItsValue
  <2>1. /\ generation[i] \in Nat /\ g \in Nat /\ g <= generation[i] + 1
        /\ g % 2 = 1
    BY DEF SlabIInv, SlabType, Keys
  <2>2. Is_occupied(i)
    BY ResolvedIsOccupied DEF SlabIInv
  <2>3. data[i] \in {generation[i], Moved}
    BY <2>2 DEF SlabIInv, SlabInv, SlotInv
  <2>4. data[i] # Uninit
    BY <2>1, <2>3 DEF Uninit, Moved
  <2>5. ASSUME generation[i] < g + Gens PROVE g = generation[i]
    <3>1. Gens >= 2 /\ Gens \in Nat
      BY SlabAssumption
    <3>2. g < generation[i] + Gens
      BY <2>1, <3>1
    <3> QED BY <2>1, <2>5, <3>2, NoWrap DEF Resolves
  <2> QED BY <2>3, <2>4, <2>5
<1> QED BY <1>1, SlabIInvCorrect, PTL
-----------------------------------------------------------------------------
(* Refinement.                                                             *)

StatusOf == [i \in Slots |-> Status(i)]

\* One slot's status moves to s, the others keep theirs.
LEMMA OneStatus ==
  ASSUME NEW i \in Slots, NEW s, Status(i)' = s,
         \A j \in Slots \ {i} : Status(j)' = Status(j)
  PROVE  StatusOf' = [StatusOf EXCEPT ![i] = s]
<1>1. \A j \in Slots : Status(j)' = [StatusOf EXCEPT ![i] = s][j]
  BY DEF StatusOf
<1> HIDE DEF Status
<1> QED BY <1>1 DEF StatusOf

\* A slot whose generation and self-link are untouched keeps its status.
LEMMA SameStatus ==
  ASSUME NEW j \in Slots, generation'[j] = generation[j], next_free'[j] = next_free[j]
  PROVE  Status(j)' = Status(j)
BY DEF Status, Is_occupied, Reserved

\* Where the others' fields are untouched, so are their statuses.
LEMMA OtherStatus ==
  ASSUME SlabType, NEW i \in Slots, Roll(i),
         \A j \in Slots \ {i} : next_free'[j] = next_free[j]
  PROVE  \A j \in Slots \ {i} : Status(j)' = Status(j)
<1>1. \A j \in Slots \ {i} : generation'[j] = generation[j]
  BY DEF Roll, SlabType
<1> QED BY <1>1, SameStatus

\* remove, remove_by_index and retire_slot empty the slot.
LEMMA ReleaseEmpties ==
  ASSUME SlabType, SlabInv, NEW i \in Slots, Is_occupied(i),
         Clear(i), Roll(i), PushFree(i), len' = len - 1
  PROVE  Table!Empty(i)
<1>1. Occ' = Occ \ {i} /\ next_free'[i] # i
      /\ \A j \in Slots \ {i} : next_free'[j] = next_free[j]
  BY ReleaseStep
<1>2. ~ Is_occupied(i)'
  BY <1>1 DEF Occ
<1>3. Status(i)' = "free" /\ StatusOf[i] = "occupied"
  BY <1>1, <1>2 DEF Status, Reserved, StatusOf
<1>4. StatusOf' = [StatusOf EXCEPT ![i] = "free"]
  BY <1>1, <1>3, OneStatus, OtherStatus
<1> QED BY <1>3, <1>4 DEF Table!Empty, Table!Becomes, Table!Turn, StatusOf, Roll

LEMMA InsertFills ==
  ASSUME SlabType, SlabInv, NEW i \in Slots, Insert(i)
  PROVE  Table!Fill(i)
<1>1. ~ Is_occupied(i) /\ ~ Reserved(i) /\ Occ' = Occ \cup {i} /\ Roll(i)
  BY InsertStep DEF Roll
<1>2. \A j \in Slots \ {i} : next_free'[j] = next_free[j]
  BY DEF Insert, PopFree, SlabType
<1>3. Is_occupied(i)'
  BY <1>1 DEF Occ
<1>4. Status(i)' = "occupied" /\ StatusOf[i] = "free"
  BY <1>1, <1>3 DEF Status, StatusOf
<1>5. StatusOf' = [StatusOf EXCEPT ![i] = "occupied"]
  BY <1>1, <1>2, <1>4, OneStatus, OtherStatus
<1> QED BY <1>1, <1>4, <1>5 DEF Table!Fill, Table!Becomes, Table!Turn, StatusOf, Roll

LEMMA InstallKeeps ==
  ASSUME SlabType, SlabInv, NEW i \in Slots, NEW g, Install(i, g)
  PROVE  Table!Keep(i)
<1>1. ~ Is_occupied(i) /\ Reserved(i) /\ Occ' = Occ \cup {i} /\ Roll(i)
  BY InstallStep DEF Install, Promised
<1>2. \A j \in Slots \ {i} : next_free'[j] = next_free[j]
  BY DEF Install, SlabType
<1>3. Is_occupied(i)'
  BY <1>1 DEF Occ
<1>4. Status(i)' = "occupied" /\ StatusOf[i] = "promised"
  BY <1>1, <1>3 DEF Status, StatusOf
<1>5. StatusOf' = [StatusOf EXCEPT ![i] = "occupied"]
  BY <1>1, <1>2, <1>4, OneStatus, OtherStatus
<1> QED BY <1>1, <1>4, <1>5 DEF Table!Keep, Table!Becomes, Table!Turn, StatusOf, Roll

LEMMA ReservePromises ==
  ASSUME SlabType, SlabInv, NEW i \in Slots, Reserve(i)
  PROVE  Table!Promise(i)
<1>1. /\ ~ Is_occupied(i) /\ ~ Reserved(i) /\ next_free'[i] = i
      /\ UNCHANGED generation
      /\ \A j \in Slots \ {i} : next_free'[j] = next_free[j]
  BY ReserveStep
<1>2. Status(i)' = "promised" /\ StatusOf[i] = "free"
  BY <1>1 DEF Status, StatusOf, Is_occupied, Reserved
<1>3. StatusOf' = [StatusOf EXCEPT ![i] = "promised"]
  BY <1>1, <1>2, OneStatus, SameStatus
<1> QED BY <1>1, <1>2, <1>3 DEF Table!Promise, Table!Becomes, StatusOf

LEMMA UnreserveWithdraws ==
  ASSUME SlabType, SlabInv, NEW i \in Slots, NEW g, Unreserve(i, g)
  PROVE  Table!Withdraw(i)
<1>1. /\ ~ Is_occupied(i) /\ Reserved(i) /\ next_free'[i] # i
      /\ UNCHANGED generation
      /\ \A j \in Slots \ {i} : next_free'[j] = next_free[j]
  BY UnreserveStep DEF Unreserve, Promised
<1>2. Status(i)' = "free" /\ StatusOf[i] = "promised"
  BY <1>1 DEF Status, StatusOf, Is_occupied, Reserved
<1>3. StatusOf' = [StatusOf EXCEPT ![i] = "free"]
  BY <1>1, <1>2, OneStatus, SameStatus
<1> QED BY <1>1, <1>2, <1>3 DEF Table!Withdraw, Table!Becomes, StatusOf

\* The slab implements the table of free, promised and occupied slots: no slot is
\* handed out twice and no promise is lost, for every capacity.
THEOREM SlabImplementsSlotTable == Spec => ImplementsSlotTable
<1>1. Init => Table!Init
  <2> SUFFICES ASSUME Init PROVE Table!Init
    OBVIOUS
  <2>1. ASSUME NEW i \in Slots PROVE Status(i) = "free"
    <3>1. generation[i] = 0 /\ next_free[i] \in {i + 1, Sentinel} /\ i \in Int
      BY DEF Init, Slots
    <3>2. next_free[i] # i
      BY <3>1, SentinelApart
    <3> QED BY <3>1, <3>2 DEF Status, Is_occupied, Reserved
  <2> QED BY <2>1 DEF Table!Init, Init
<1>2. SlabIInv /\ [Next]_vars => [Table!Next]_(Table!vars)
  <2> SUFFICES ASSUME SlabIInv, [Next]_vars PROVE [Table!Next]_(Table!vars)
    OBVIOUS
  <2>0. SlabType /\ SlabInv
    BY DEF SlabIInv
  <2>1. ASSUME UNCHANGED <<generation, next_free>> PROVE UNCHANGED Table!vars
    <3>1. \A i \in Slots : Status(i)' = Status(i)
      BY <2>1, SameStatus
    <3> HIDE DEF Status
    <3> QED BY <2>1, <3>1 DEF Table!vars
  <2>2. CASE UNCHANGED vars
    BY <2>1, <2>2 DEF vars
  <2>3. ASSUME NEW i \in Slots, Move_out(i) PROVE UNCHANGED Table!vars
    BY <2>1, <2>3 DEF Move_out
  <2>4. ASSUME NEW i \in Slots, Insert(i) PROVE Table!Next
    BY <2>0, <2>4, InsertFills DEF Table!Next
  <2>5. ASSUME NEW i \in Slots, Reserve(i) PROVE Table!Next
    BY <2>0, <2>5, ReservePromises DEF Table!Next
  <2>6. ASSUME NEW i \in Slots, Remove_by_index(i) PROVE Table!Next
    BY <2>0, <2>6, ReleaseEmpties DEF Table!Next, Remove_by_index
  <2>7. ASSUME NEW i \in Slots, NEW g \in Keys(i), Remove(i, g) \/ Retire_slot(i, g)
        PROVE  Table!Next
    <3>1. Is_occupied(i)
      BY <2>0, <2>7, ResolvedIsOccupied DEF Remove, Retire_slot
    <3> QED BY <2>0, <2>7, <3>1, ReleaseEmpties DEF Table!Next, Remove, Retire_slot
  <2>8. ASSUME NEW i \in Slots, NEW g \in Keys(i), Install(i, g) PROVE Table!Next
    BY <2>0, <2>8, InstallKeeps DEF Table!Next
  <2>9. ASSUME NEW i \in Slots, NEW g \in Keys(i), Unreserve(i, g) PROVE Table!Next
    BY <2>0, <2>9, UnreserveWithdraws DEF Table!Next
  <2> QED BY <2>2, <2>3, <2>4, <2>5, <2>6, <2>7, <2>8, <2>9 DEF Next
<1> QED BY <1>1, <1>2, SlabIInvCorrect, PTL DEF Spec, ImplementsSlotTable, Table!Spec
=============================================================================
