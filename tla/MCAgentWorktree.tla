--------------------------- MODULE MCAgentWorktree ---------------------------
(***************************************************************************)
(* Two runs of one task, the second a retry that may overlap the first,    *)
(* and two ends of the process.                                            *)
(***************************************************************************)
EXTENDS AgentWorktree
=============================================================================
