---------------------------- MODULE MC_TrayIcon ----------------------------
(* Two notifications for a balloon that replaces another, two handles for  *)
(* the first icon and a swap.                                               *)
EXTENDS TrayIcon

CONSTANTS n1, n2
=============================================================================
