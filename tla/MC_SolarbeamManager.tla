------------------------ MODULE MC_SolarbeamManager ------------------------
(* Three calls are enough for two sessions and a Stop or an Update between  *)
(* them; two files for an update that is half done; one restart.            *)
EXTENDS SolarbeamManager

CONSTANTS j1, j2, j3, exe, dll
=============================================================================
