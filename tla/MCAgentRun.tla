---------------------------- MODULE MCAgentRun ----------------------------
(* A run of at most two lines of which one malformed line is tolerated,  *)
(* for both adapters, both platforms and with and without the gate.        *)
EXTENDS AgentRun
=============================================================================
