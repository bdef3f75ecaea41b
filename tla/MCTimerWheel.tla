----------------------------- MODULE MCTimerWheel -----------------------------
(* Instances of TimerWheel for model checking. *)
EXTENDS TimerWheel, TLC

CONSTANTS t1, t2, none

Symmetry == Permutations({t1, t2})
=============================================================================
