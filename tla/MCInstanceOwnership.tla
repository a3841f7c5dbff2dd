------------------------- MODULE MCInstanceOwnership -------------------------
(* Process lifetimes of one data directory: one that dies and two successors. *)
EXTENDS InstanceOwnership
CONSTANTS p1, p2, p3
=============================================================================
