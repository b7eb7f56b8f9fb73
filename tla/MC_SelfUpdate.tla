--------------------------- MODULE MC_SelfUpdate ---------------------------
(* Three commands: one that applies, one that meets the exit under way, one *)
(* for the next run of the agent.                                           *)
EXTENDS SelfUpdate

CONSTANTS u1, u2, u3
=============================================================================
