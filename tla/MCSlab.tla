------------------------------- MODULE MCSlab -------------------------------
(* Slab with three slots whose generation wraps after Gens values.          *)
EXTENDS Slab
=============================================================================
