---------------------------- MODULE MCAdapterRun ----------------------------
(* A run of at most two lines, of which Codex and Claude Code tolerate one *)
(* malformed one, for the three adapters, on both platforms and with and   *)
(* without the gate.                                                       *)
EXTENDS AdapterRun
=============================================================================
