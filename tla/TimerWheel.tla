------------------------------ MODULE TimerWheel ------------------------------
(***************************************************************************)
(* The hierarchical timing wheel of a worker: Levels levels of Size slots, *)
(* a mask of populated slots per level, cascades, the expiry iterator step *)
(* by step, and the park timeout computed from the masks.  The code has 6  *)
(* levels of 64.  The list of entries linked in a slot is the set of those *)
(* placed there; entries is the slab of timers, whose indices are Ids.     *)
(***************************************************************************)
EXTENDS Integers, FiniteSets

CONSTANTS
  Size,      \* slots per level
  Levels,
  Ids,       \* the entry slab's slots
  Delays,    \* delays that are requested, in ticks
  MaxTick,   \* last tick of the clock
  None

ASSUME WheelAssumption ==
  /\ Size \in Nat /\ Size > 1
  /\ Levels \in Nat /\ Levels > 0
  /\ Delays \subseteq Nat \ {0}
  /\ MaxTick \in Nat

VARIABLES
  clock,     \* the clock source, in ticks
  current,   \* current_tick of the wheel
  deadline,  \* per entry: deadline_tick, or None for a free slot
  place,     \* per entry: <<level, slot>>, or None when in no slot's list
  mask,      \* per level: populated_mask as a set of slots
  target,    \* target_tick of the running iterator, or None
  dropped    \* arms refused by a full slab

vars == <<clock, current, deadline, place, mask, target, dropped>>

Tops == 0 .. Levels - 1
Width(l) == Size ^ l                     \* ticks per slot of level l
SlotOf(t, l) == (t \div Width(l)) % Size

Live == {e \in Ids : deadline[e] # None}
Linked(l, s) == {e \in Live : place[e] = <<l, s>>}
Draining == {e \in Live : place[e] = None}    \* the list current_drain walks

Init ==
  /\ clock = 0 /\ current = 0
  /\ deadline = [e \in Ids |-> None]
  /\ place = [e \in Ids |-> None]
  /\ mask = [l \in Tops |-> {}]
  /\ target = None
  /\ dropped = 0

\* position: the level of the distance's highest digit, and the deadline's slot
\* there.  A deadline that is due goes to the slot of the current tick.
Level_unclamped(delta) == CHOOSE l \in 0 .. Levels : delta >= Width(l) /\ delta < Width(l + 1)
Level(delta) == CHOOSE l \in Tops : /\ delta >= Width(l)
                                    /\ l = Levels - 1 \/ delta < Width(l + 1)
Position(d, now) ==
  IF d <= now THEN <<0, SlotOf(now, 0)>>
  ELSE <<Level(d - now), SlotOf(d, Level(d - now))>>

\* Time passes.
ClockTicks ==
  /\ clock < MaxTick
  /\ clock' = clock + 1
  /\ UNCHANGED <<current, deadline, place, mask, target, dropped>>

\* register, as tick calls it for a request of delay ticks.
Register(e, delay) ==
  /\ target = None /\ e \notin Live
  /\ LET d == clock + delay
         p == Position(d, current) IN
     /\ deadline' = [deadline EXCEPT ![e] = d]
     /\ place' = [place EXCEPT ![e] = p]
     /\ mask' = [mask EXCEPT ![p[1]] = @ \cup {p[2]}]
  /\ UNCHANGED <<clock, current, target, dropped>>

\* register with a full slab: tick ignores the error.
RegisterFull ==
  /\ target = None /\ Live = Ids /\ dropped = 0
  /\ dropped' = 1
  /\ UNCHANGED <<clock, current, deadline, place, mask, target>>

\* cancel: the slot's bit is cleared when its list becomes empty.
Cancel_clearsAlways(e) ==
  /\ target = None /\ e \in Live
  /\ deadline' = [deadline EXCEPT ![e] = None]
  /\ place' = [place EXCEPT ![e] = None]
  /\ LET p == place[e] IN mask' = [mask EXCEPT ![p[1]] = @ \ {p[2]}]
  /\ UNCHANGED <<clock, current, target, dropped>>
Cancel(e) ==
  /\ target = None /\ e \in Live
  /\ deadline' = [deadline EXCEPT ![e] = None]
  /\ place' = [place EXCEPT ![e] = None]
  /\ LET p == place[e] IN
     mask' = IF Linked(p[1], p[2]) = {e} THEN [mask EXCEPT ![p[1]] = @ \ {p[2]}] ELSE mask
  /\ UNCHANGED <<clock, current, target, dropped>>

\* advance_to, called by tick with the clock's tick.
BeginAdvance ==
  /\ target = None /\ current < clock
  /\ target' = clock
  /\ UNCHANGED <<clock, current, deadline, place, mask, dropped>>

\* One turn of the iterator's loop, in its three forms.
Expire(e) ==
  /\ target # None /\ e \in Draining
  /\ deadline' = [deadline EXCEPT ![e] = None]
  /\ UNCHANGED <<clock, current, place, mask, target, dropped>>

NextWrap == (current \div Size + 1) * Size

Finish ==
  /\ target # None /\ Draining = {}
  /\ \/ current >= target /\ UNCHANGED current
     \/ current < target /\ mask[0] = {} /\ NextWrap > target /\ current' = target
  /\ target' = None
  /\ UNCHANGED <<clock, deadline, place, mask, dropped>>

\* advance_one_tick to tick t: the levels whose slot t starts are cascaded, from
\* level 1 up, each entry of theirs being placed anew, and then the level-0 slot
\* of t is detached.
Cascading_level1(t) == {l \in Tops \ {0} : l = 1 /\ t % Width(l) = 0}
Cascading(t) == {l \in Tops \ {0} : t % Width(l) = 0}

AdvanceOneTick ==
  /\ target # None /\ Draining = {} /\ current < target
  /\ mask[0] = {} => NextWrap <= target
  /\ LET t == IF mask[0] = {} THEN NextWrap ELSE current + 1
         moved == {e \in Live : \E l \in Cascading(t) : place[e] = <<l, SlotOf(t, l)>>}
         placed == [e \in Ids |-> IF e \in moved THEN Position(deadline[e], t) ELSE place[e]]
         due == {e \in Live : placed[e] = <<0, SlotOf(t, 0)>>} IN
     /\ current' = t
     /\ place' = [e \in Ids |-> IF e \in due THEN None ELSE placed[e]]
     /\ mask' = [l \in Tops |->
          LET kept == IF l \in Cascading(t) THEN mask[l] \ {SlotOf(t, l)} ELSE mask[l]
              filled == {placed[e][2] : e \in {f \in moved : placed[f][1] = l}} IN
          (kept \cup filled) \ (IF l = 0 /\ due # {} THEN {SlotOf(t, 0)} ELSE {})]
  /\ UNCHANGED <<clock, deadline, target, dropped>>

\* next_expiry: the distance to the nearest populated slot of level l, in
\* ticks, plus one, for the lowest populated level l.
Distance(l) ==
  LET gaps == {(s - SlotOf(current, l)) % Size : s \in mask[l]} IN
  CHOOSE g \in gaps : \A h \in gaps : g <= h
NextExpiry_highestLevel ==
  LET populated == {l \in Tops : mask[l] # {}} IN
  IF populated = {} THEN None
  ELSE LET l == CHOOSE k \in populated : \A j \in populated : k >= j IN
       Distance(l) * Width(l) + 1
NextExpiry ==
  LET populated == {l \in Tops : mask[l] # {}} IN
  IF populated = {} THEN None
  ELSE LET l == CHOOSE k \in populated : \A j \in populated : k <= j IN
       Distance(l) * Width(l) + 1

Next ==
  \/ ClockTicks \/ BeginAdvance \/ Finish \/ AdvanceOneTick \/ RegisterFull
  \/ \E e \in Ids : Expire(e) \/ Cancel(e) \/ \E delay \in Delays : Register(e, delay)

Spec == Init /\ [][Next]_vars

----------------------------------------------------------------------------
\* The state has its types; in particular the wheel never runs ahead of the clock.
TypeOK ==
  /\ clock \in 0 .. MaxTick /\ current \in 0 .. clock
  /\ deadline \in [Ids -> Nat \cup {None}]
  /\ place \in [Ids -> (Tops \X (0 .. Size - 1)) \cup {None}]
  /\ mask \in [Tops -> SUBSET (0 .. Size - 1)]
  /\ target \in (0 .. clock) \cup {None}
  /\ dropped \in {0, 1}

\* A slot's bit is set exactly when an entry is linked in the slot, through
\* registrations, cancels, cascades and expiries.
MaskMatchesLists ==
  \A l \in Tops, s \in 0 .. Size - 1 : s \in mask[l] <=> Linked(l, s) # {}

\* The wheel implements TimerQueue: whatever the cascades and the jumps over
\* empty laps do, no tick passes a pending deadline, and a timer fires at exactly
\* its deadline.
Promise == INSTANCE TimerQueue WITH now <- current, NoTimer <- None
FiresAtDeadline == Promise!Spec

\* The park timeout that next_expiry gives oversleeps no timer by a slot of the
\* level the timer is linked in: one of level 0 is late by the rounding tick at
\* most, one of level l by less than a slot of l, although only the lowest
\* populated level is looked at, whole slots are counted from the middle of one,
\* and the timer due first may be linked above it.
TimeoutWithinSlot ==
  target = None =>
    \A e \in Live :
      /\ NextExpiry # None
      /\ current + NextExpiry <= deadline[e] + Width(place[e][1])

\* "Tick count until the next expiry": the park timeout ends no later than one
\* tick (the rounding of next_expiry) after the earliest deadline.
ExpiryNotLate ==
  (target = None /\ NextExpiry # None) =>
    \A e \in Live : current + NextExpiry <= deadline[e] + 1
=============================================================================
