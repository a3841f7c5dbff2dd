--------------------------- MODULE MCTaskLifecycle ---------------------------
(* Instances of TaskLifecycle: few runs, short logs, two requests in flight. *)
EXTENDS TaskLifecycle
CONSTANTS a1, q0, q1, c1, c2
=============================================================================
