--------------------------- MODULE MCEventStream ---------------------------
EXTENDS EventStream

CONSTANTS v1, v2
=============================================================================
