----------------------------- MODULE MC_Desktop -----------------------------
(* Two notifications for a balloon that replaces another, two handles for   *)
(* the first icon and a swap; two clicks on the hidden browser's item and   *)
(* two windows, one opening while the other is torn down; a progress screen *)
(* and a question at once.                                                  *)
EXTENDS Desktop

CONSTANTS n1, n2, o1, o2, w1, w2, q1, p1
=============================================================================
