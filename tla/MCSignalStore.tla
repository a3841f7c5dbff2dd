---------------------------- MODULE MCSignalStore ----------------------------
(***************************************************************************)
(* Instances of SignalStore for TLC: two rows, two coroutines, the plan    *)
(* level and one step as keys.                                             *)
(***************************************************************************)
EXTENDS SignalStore

CONSTANTS i1, i2, c1, c2
=============================================================================
