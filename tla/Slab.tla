-------------------------------- MODULE Slab --------------------------------
(***************************************************************************)
(* The generational slab of kwokka-core/src/slab/slab.rs: fixed slots, an  *)
(* in-band LIFO free list, a wrapping generation per slot whose parity     *)
(* says whether the slot is occupied, and slots reserved for a value that  *)
(* arrives later (the destination of a stolen task).                       *)
(*                                                                         *)
(* Generations are kept as naturals so that the properties can name them;  *)
(* the code compares them modulo Gens (2^24).  The value stored in a slot  *)
(* is identified by the generation it was stored under.                    *)
(***************************************************************************)
EXTENDS Integers, FiniteSets

CONSTANTS
  Capacity,  \* number of slots
  Gens,      \* number of values of a generation (2^24 in the code)
  Sentinel,  \* end of the free list (u32::MAX in the code)
  MaxGen     \* bound on the unwrapped generation of a slot

Slots == 0 .. Capacity - 1

ASSUME SlabAssumption ==
  /\ Capacity \in Nat
  /\ Gens \in Nat \ {0} /\ Gens % 2 = 0
  /\ Sentinel \in Int \ Slots
  /\ MaxGen \in Nat

VARIABLES
  generation,  \* per slot, not wrapped
  next_free,   \* per slot: the next free slot, the slot itself when reserved
  data,        \* per slot: Uninit, Moved, or the generation its value came with
  free_head,   \* head of the free list
  len,         \* occupied slots
  depth,       \* history: height of a free slot in the free list, 0 for the others
  nfree        \* history: length of the free list

vars == <<generation, next_free, data, free_head, len, depth, nfree>>

Uninit == -1
Moved == -2

Next_generation(i) == generation[i] + 1
Is_occupied(i) == generation[i] % 2 = 1

\* A key is a slot index and the generation it was issued with; the holder may
\* keep it for ever, and a promised key exists before its value does.
Keys(i) == {g \in 1 .. generation[i] + 1 : g % 2 = 1}

Resolves_anyOccupant(i, g) == generation[i] % 2 = g % 2

\* get, get_mut, slot_ptr: the generations agree modulo 2^24.
Resolves(i, g) == generation[i] % Gens = g % Gens

\* The key names a currently reserved slot (install, unreserve).
Reserved(i) == next_free[i] = i
Promised(i, g) == Reserved(i) /\ Next_generation(i) % Gens = g % Gens

\* All slots empty and linked in index order.
Init ==
  /\ generation = [i \in Slots |-> 0]
  /\ next_free = [i \in Slots |-> IF i + 1 < Capacity THEN i + 1 ELSE Sentinel]
  /\ data = [i \in Slots |-> Uninit]
  /\ free_head = IF Capacity = 0 THEN Sentinel ELSE 0
  /\ len = 0
  /\ depth = [i \in Slots |-> Capacity - i]
  /\ nfree = Capacity

-----------------------------------------------------------------------------
PopFree(i, link) ==
  /\ free_head = i
  /\ free_head' = next_free[i]
  /\ next_free' = [next_free EXCEPT ![i] = link]
  /\ depth' = [depth EXCEPT ![i] = 0]
  /\ nfree' = nfree - 1

PushFree(i) ==
  /\ free_head' = i
  /\ next_free' = [next_free EXCEPT ![i] = free_head]
  /\ depth' = [depth EXCEPT ![i] = nfree + 1]
  /\ nfree' = nfree + 1

Roll(i) == generation' = [generation EXCEPT ![i] = generation[i] + 1]
Store(i) == data' = [data EXCEPT ![i] = Next_generation(i)]
Clear(i) == data' = [data EXCEPT ![i] = Uninit]

\* insert; with free_head = Sentinel it returns Full.
Insert(i) ==
  /\ PopFree(i, Sentinel)
  /\ Roll(i)
  /\ Store(i)
  /\ len' = len + 1

\* remove: the reap path calls it on every settled slot that is not a husk.
Remove(i, g) ==
  /\ Resolves(i, g)
  /\ data[i] # Moved
  /\ Clear(i)
  /\ Roll(i)
  /\ PushFree(i)
  /\ len' = len - 1

\* remove_by_index: only the parity is looked at.
Remove_by_index(i) ==
  /\ Is_occupied(i)
  /\ data[i] # Moved
  /\ Clear(i)
  /\ Roll(i)
  /\ PushFree(i)
  /\ len' = len - 1

\* move_out copies the value of a live slot into the transport; the husk stays.
Move_out(i) ==
  /\ Is_occupied(i)
  /\ data[i] # Moved
  /\ data' = [data EXCEPT ![i] = Moved]
  /\ UNCHANGED <<generation, next_free, free_head, len, depth, nfree>>

\* retire_slot, called on a husk: the bookkeeping of remove without its read.
Retire_slot(i, g) ==
  /\ Resolves(i, g)
  /\ data[i] = Moved
  /\ Clear(i)
  /\ Roll(i)
  /\ PushFree(i)
  /\ len' = len - 1

Reserve_unmarked(i) ==
  /\ PopFree(i, Sentinel)
  /\ UNCHANGED <<generation, data, len>>

\* reserve: the slot marks itself by linking to itself.
Reserve(i) ==
  /\ PopFree(i, i)
  /\ UNCHANGED <<generation, data, len>>

Install_unchecked(i, g) ==
  /\ ~ Is_occupied(i)
  /\ Next_generation(i) % Gens = g % Gens
  /\ next_free' = [next_free EXCEPT ![i] = Sentinel]
  /\ Roll(i)
  /\ Store(i)
  /\ len' = len + 1
  /\ UNCHANGED <<free_head, depth, nfree>>

Install_uncounted(i, g) ==
  /\ Promised(i, g)
  /\ next_free' = [next_free EXCEPT ![i] = Sentinel]
  /\ Roll(i)
  /\ Store(i)
  /\ UNCHANGED <<free_head, len, depth, nfree>>

Install(i, g) ==
  /\ Promised(i, g)
  /\ next_free' = [next_free EXCEPT ![i] = Sentinel]
  /\ Roll(i)
  /\ Store(i)
  /\ len' = len + 1
  /\ UNCHANGED <<free_head, depth, nfree>>

Unreserve(i, g) ==
  /\ Promised(i, g)
  /\ PushFree(i)
  /\ UNCHANGED <<generation, data, len>>

Next ==
  \E i \in Slots :
    /\ generation[i] < MaxGen
    /\ \/ Insert(i)
       \/ Reserve(i)
       \/ Remove_by_index(i)
       \/ Move_out(i)
       \/ \E g \in Keys(i) :
            Remove(i, g) \/ Retire_slot(i, g) \/ Install(i, g) \/ Unreserve(i, g)

Spec == Init /\ [][Next]_vars

\* The slots whose value Drop for Slab releases.
Drop_byLink == {i \in Slots : next_free[i] = Sentinel}

Drop == {i \in Slots : Is_occupied(i)}

-----------------------------------------------------------------------------
(* Properties.                                                             *)

\* The variables keep their types.
TypeOK ==
  /\ generation \in [Slots -> Nat]
  /\ next_free \in [Slots -> Slots \cup {Sentinel}]
  /\ data \in [Slots -> Nat \cup {Uninit, Moved}]
  /\ free_head \in Slots \cup {Sentinel}
  /\ len \in Nat
  /\ depth \in [Slots -> Nat]
  /\ nfree \in Nat

\* A key that resolves finds an initialised value, and, as long as the generation
\* has not come round, the value stored under that very key: get, get_mut and
\* remove never reach the slot's next tenant, however long the key was held.
KeyNamesItsValue ==
  \A i \in Slots : \A g \in Keys(i) :
    Resolves(i, g) => /\ data[i] # Uninit
                      /\ generation[i] < g + Gens => data[i] \in {g, Moved}

\* insert and reserve report Full only when every slot is occupied or promised,
\* and otherwise take a slot that is empty and promised to nobody (the
\* unreachable! of both is never reached).
FullMeansNoRoom ==
  IF free_head = Sentinel
  THEN \A i \in Slots : Is_occupied(i) \/ Reserved(i)
  ELSE ~ Is_occupied(free_head) /\ ~ Reserved(free_head) /\ data[free_head] = Uninit

\* len counts the occupied slots, so its subtraction never wraps.
LenCountsOccupied == len = Cardinality({i \in Slots : Is_occupied(i)})

\* Dropping the slab releases the values it holds and nothing else: neither an
\* uninitialised slot nor a leak (a husk's drop glue does nothing).
DropReleasesAll == Drop = {i \in Slots : data[i] # Uninit}

\* "a slot or arena must be recycled 2^24 times before a stale handle could
\* collide" (kwokka-core/src/generation/revision.rs:18-19).  One recycle empties
\* the slot and fills it again.
NoCollisionBeforeGensRecycles ==
  \A i \in Slots : \A g \in Keys(i) :
    g < generation[i] /\ generation[i] - g < 2 * Gens => ~ Resolves(i, g)

-----------------------------------------------------------------------------
(* The inductive invariant.                                                *)

\* The free list visits every free slot once, from the highest to the lowest.
FreeListInv ==
  /\ \A i \in Slots : depth[i] <= nfree
  /\ \A i, j \in Slots : depth[i] = depth[j] /\ depth[i] > 0 => i = j
  /\ \A i \in Slots : depth[i] = 1 => next_free[i] = Sentinel
  /\ \A i \in Slots : depth[i] > 1 => /\ next_free[i] \in Slots
                                       /\ depth[next_free[i]] = depth[i] - 1
  /\ nfree = 0 => free_head = Sentinel
  /\ nfree > 0 => free_head \in Slots /\ depth[free_head] = nfree

\* A slot is free, reserved or occupied, and its fields say which.
SlotInv ==
  \A i \in Slots :
    \/ depth[i] > 0 /\ ~ Is_occupied(i) /\ data[i] = Uninit
    \/ depth[i] = 0 /\ ~ Is_occupied(i) /\ data[i] = Uninit /\ next_free[i] = i
    \/ depth[i] = 0 /\ Is_occupied(i) /\ data[i] \in {generation[i], Moved}
         /\ next_free[i] = Sentinel

\* The free list is a chain of exactly the empty slots that are not reserved, and
\* a slot linked to itself is a reserved one ("a shape the free chain never
\* produces", reserve).
SlabInv == FreeListInv /\ SlotInv

-----------------------------------------------------------------------------
(* The slot table the slab implements.                                     *)

Status(i) ==
  IF Is_occupied(i) THEN "occupied" ELSE IF Reserved(i) THEN "promised" ELSE "free"

Table == INSTANCE SlotTable
  WITH status <- [i \in Slots |-> Status(i)], version <- generation

\* The free list never hands out a slot twice: the slab implements a table of
\* slots that are free, promised or occupied.
ImplementsSlotTable == Table!Spec
=============================================================================
