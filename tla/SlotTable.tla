----------------------------- MODULE SlotTable -----------------------------
(***************************************************************************)
(* What a slab promises its owner: a fixed set of slots, each free,        *)
(* promised or occupied, and a version per slot that moves every time the  *)
(* slot is filled or emptied.  A slot is handed out only when it is free,  *)
(* and a promise ends only by being kept or withdrawn.                     *)
(***************************************************************************)
EXTENDS Naturals

CONSTANT Slots

VARIABLES
  status,   \* "free", "promised" or "occupied"
  version   \* times the slot was filled or emptied

vars == <<status, version>>

Init ==
  /\ status = [i \in Slots |-> "free"]
  /\ version = [i \in Slots |-> 0]

Becomes(i, s) == status' = [status EXCEPT ![i] = s]
Turn(i) == version' = [version EXCEPT ![i] = version[i] + 1]

Fill(i) == status[i] = "free" /\ Becomes(i, "occupied") /\ Turn(i)
Promise(i) == status[i] = "free" /\ Becomes(i, "promised") /\ UNCHANGED version
Keep(i) == status[i] = "promised" /\ Becomes(i, "occupied") /\ Turn(i)
Withdraw(i) == status[i] = "promised" /\ Becomes(i, "free") /\ UNCHANGED version
Empty(i) == status[i] = "occupied" /\ Becomes(i, "free") /\ Turn(i)

Next == \E i \in Slots : Fill(i) \/ Promise(i) \/ Keep(i) \/ Withdraw(i) \/ Empty(i)

Spec == Init /\ [][Next]_vars
=============================================================================
