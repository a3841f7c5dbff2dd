---------------------------- MODULE MCComparison ----------------------------
(* One comparison of two candidates. *)
EXTENDS Comparison
CONSTANTS c1, c2
=============================================================================
