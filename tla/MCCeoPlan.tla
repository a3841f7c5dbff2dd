----------------------------- MODULE MCCeoPlan -----------------------------
(* Small instances of CeoPlan: two clients; two contents, one of a single  *)
(* step and one of two steps in a chain.                                   *)
EXTENDS CeoPlan, TLC

CONSTANTS b1, b2, s1, s2, short, long

MCStepsOf == (short :> {s1}) @@ (long :> {s1, s2})
MCDependsOn == (s1 :> {}) @@ (s2 :> {s1})
MCSymmetry == Permutations({b1, b2})
=============================================================================
