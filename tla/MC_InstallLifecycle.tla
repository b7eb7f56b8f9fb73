------------------------ MODULE MC_InstallLifecycle ------------------------
(* Two tokens for an install and the retry after it, one secret for an      *)
(* agent that enrols by itself, two agent processes for the one a retry     *)
(* starts next to the one still running.                                    *)
EXTENDS InstallLifecycle, TLC

CONSTANTS a1, a2, t1, t2

Symmetry == Permutations({a1, a2}) \union Permutations({t1, t2})
=============================================================================
