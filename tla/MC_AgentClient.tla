--------------------------- MODULE MC_AgentClient ---------------------------
(* Two calls of Run, so that ErrAlreadyRunning and a second Run after the   *)
(* first returned both happen; two accepted dials, so that a reconnect does.*)
EXTENDS AgentClient

CONSTANTS r1, r2  \* the two calls of Run

=============================================================================
