----------------------------- MODULE MCMpscRing -----------------------------
(* MpscRing with two producers on a ring of two slots (the capacity of the  *)
(* handoff ring) whose position word wraps after W positions.               *)
EXTENDS MpscRing, TLC

Perms == Permutations(Producers)
=============================================================================
