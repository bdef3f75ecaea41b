-------------------------- MODULE MCParkHandshake --------------------------
(* ParkHandshake with two producers, rings of two slots and three posts.   *)
EXTENDS ParkHandshake
=============================================================================
